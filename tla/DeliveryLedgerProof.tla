------------------------- MODULE DeliveryLedgerProof -------------------------
(* Machine-checked proofs about DeliveryLedger.                              *)
EXTENDS DeliveryLedger, FiniteSetTheorems, SequenceTheorems, TLAPS

Operations == UNION {{Input[w][k] : k \in 1..Len(Input[w])} : w \in Writers}
Versions == {NoVersion} \cup {op.version : op \in Operations}
LateIds == {LateId(op) : op \in Operations}
Origins == {NoOrigin} \cup [by : Writers \cup {"capture"}, run : Nat]
Rows == [op : Operations, origin : Origins]
PendingSet == [done : SUBSET Spans, late : SUBSET LateIds, versions : [Spans -> Versions]]
RecordSet == [form : {"whole", "torn", "garbled"}, origins : [Spans -> Origins],
              delivered : PendingSet]

TypeOK ==
    /\ file \in Seq(RecordSet)
    /\ index \in [origins : [Spans -> Origins], done : SUBSET Spans, late : SUBSET LateIds]
    /\ head \in [Writers -> Nat]
    /\ at \in [Writers -> {"closed", "idle", "persist", "send", "flush", "commit",
                           "record", "ack", "finished"}]
    /\ lock \in Writers \cup {Nobody}
    /\ read \in [Writers -> Nat]
    /\ batch \in [Writers -> Seq(Rows)]
    /\ births \in [Writers -> [Spans -> Origins]]
    /\ seen \in [Writers -> Nat]
    /\ known \in [Writers -> [Spans -> Versions]]
    /\ pending \in [Writers -> PendingSet]
    /\ queued \in [Writers -> Seq(Rows)]
    /\ rejected \in [Writers -> BOOLEAN]
    /\ adrift \in [Writers -> {<<>>} \cup (Nat \X RecordSet)]
    /\ run \in [Writers -> Nat]
    /\ backend \in [rows : SUBSET Operations, stamps : [Spans -> SUBSET Origins],
                    done : SUBSET Spans, late : SUBSET LateIds,
                    version : [Spans -> Versions]]
    /\ appended \subseteq RecordSet
    /\ faults \in Nat /\ aborts \in Nat /\ limits \in Limits

(* Who appends holds the lock; a batch is there until it is sent; what was    *)
(* acknowledged was read.                                                     *)
StageInv ==
    \A w \in Writers :
        /\ at[w] \in {"persist", "record"} <=> lock = w
        /\ at[w] \notin {"persist", "send"} => batch[w] = <<>>
        /\ head[w] <= read[w] /\ read[w] <= Len(Input[w])
        /\ at[w] = "closed" => read[w] = head[w]

(* What was read is in the file, and not the incomplete line that may end it; *)
(* who holds the lock has read all that anyone has.                           *)
SeenInv ==
    \A w \in Writers :
        /\ seen[w] <= Len(file)
        /\ \A n \in 1..seen[w] : file[n].form # "torn"
        /\ lock = w => \A v \in Writers : seen[v] <= seen[w]
        /\ adrift[w] # <<>> => adrift[w][2].form = "whole"

Base == TypeOK /\ StageInv /\ SeenInv
------------------------------------------------------------------------------
(* Numbers and sets of them.                                                  *)

(* Every set of natural numbers that is not empty has a least element.        *)
LEMMA Least ==
  ASSUME NEW S, S \subseteq Nat, S # {}
  PROVE  \E n \in S : \A m \in S : n <= m
<1> DEFINE T == {0..n : n \in S}
           R == StrictSubsetOrdering(Nat)
           F == FiniteSubsetsOf(Nat)
<1>1. T \subseteq F /\ T # {}
  <2>1. ASSUME NEW n \in S PROVE IsFiniteSet(0..n) /\ 0..n \subseteq Nat
    BY FS_Interval
  <2> QED BY <2>1, Zenon DEF FiniteSubsetsOf
<1>2. \E x \in T : \A y \in T : ~ (<<y, x>> \in R)
  <2>1. IsWellFoundedOn(R, F)
    BY FS_StrictSubsetOrderingWellFounded
  <2> HIDE DEF R, F, T
  <2> QED BY <1>1, <2>1, WFMin
<1>3. PICK n \in S : \A m \in S : <<0..m, 0..n>> \notin R
  BY <1>2, Zenon
<1>4. ASSUME NEW m \in S, m < n PROVE FALSE
  <2>1. 0..m \subseteq 0..n /\ n \in 0..n /\ n \notin 0..m
    BY <1>4
  <2>2. <<0..m, 0..n>> \in R
    BY <2>1 DEF StrictSubsetOrdering
  <2> QED BY <2>2, <1>3
<1> QED BY <1>3, <1>4

(* One that is bounded has a greatest.                                        *)
LEMMA Greatest ==
  ASSUME NEW S, NEW n \in Nat, S \subseteq 1..n, S # {}
  PROVE  \E m \in S : \A k \in S : k <= m
<1> DEFINE B == {b \in Nat : \A k \in S : k <= b}
<1>1. n \in B
  OBVIOUS
<1>2. PICK m \in B : \A b \in B : m <= b
  <2>1. B \subseteq Nat /\ B # {}
    BY <1>1
  <2> HIDE DEF B
  <2> QED BY <2>1, Least, Zenon
<1>3. m \in Nat /\ \A k \in S : k <= m
  BY <1>2
<1>4. CASE m \in S
  BY <1>3, <1>4
<1>5. CASE m \notin S
  <2>1. PICK k \in S : TRUE
    BY Zenon
  <2>2. m - 1 \in Nat /\ \A i \in S : i <= m - 1
    BY <1>3, <1>5, <2>1
  <2>3. m - 1 \in B
    BY <2>2
  <2>4. m <= m - 1
    BY <1>2, <2>3
  <2> QED BY <1>3, <2>4
<1> QED BY <1>4, <1>5

(* Positions can be put in order.                                             *)
LEMMA OrderExists ==
  ASSUME NEW n \in Nat, NEW S, S \subseteq 1..n
  PROVE  \E s \in [1..Cardinality(S) -> S] :
            \A i, j \in 1..Cardinality(S) : i < j => s[i] < s[j]
<1> DEFINE Sorted(T) == \E s \in [1..Cardinality(T) -> T] :
                           \A i, j \in 1..Cardinality(T) : i < j => s[i] < s[j]
           Bad == {m \in Nat : \E T \in SUBSET (1..m) : ~Sorted(T)}
<1>1. ASSUME Bad # {} PROVE FALSE
  <2>1. PICK m \in Bad : \A k \in Bad : m <= k
    <3>1. Bad \subseteq Nat
      OBVIOUS
    <3> HIDE DEF Bad
    <3> QED BY <1>1, <3>1, Least, Zenon
  <2>2. PICK T \in SUBSET (1..m) : ~Sorted(T)
    BY <2>1
  <2>m. m \in Nat
    BY <2>1
  <2>3. CASE m \notin T
    <3>1. T = {} \/ (m - 1 \in Nat /\ T \subseteq 1..(m - 1))
      BY <2>m, <2>3
    <3>2. CASE T = {}
      <4>1. Cardinality(T) = 0
        BY <3>2, FS_EmptySet
      <4>2. [i \in 1..0 |-> i] \in [1..Cardinality(T) -> T]
        BY <4>1
      <4>3. Sorted(T)
        BY <4>1, <4>2, Zenon
      <4> QED BY <2>2, <4>3, Zenon
    <3>3. CASE m - 1 \in Nat /\ T \subseteq 1..(m - 1)
      <4>1. m - 1 \in Bad
        BY <2>2, <3>3
      <4>2. m <= m - 1
        BY <2>1, <4>1, Zenon
      <4> QED BY <2>m, <4>2
    <3> QED BY <3>1, <3>2, <3>3
  <2>4. CASE m \in T
    <3> DEFINE U == T \ {m}
               c == Cardinality(U)
    <3>1. IsFiniteSet(T) /\ IsFiniteSet(U) /\ c \in Nat /\ Cardinality(T) = c + 1
      <4>1. IsFiniteSet(1..m)
        BY <2>m, FS_Interval
      <4>2. IsFiniteSet(T)
        BY <2>2, <4>1, FS_Subset, Zenon
      <4>3. IsFiniteSet(U) /\ Cardinality(U) = Cardinality(T) - 1
        BY <2>4, <4>2, FS_RemoveElement
      <4> QED BY <4>2, <4>3, FS_CardinalityType
    <3>2. m - 1 \in Nat /\ U \subseteq 1..(m - 1) /\ U \subseteq T
      BY <2>m, <2>2, <2>4
    <3>3. Sorted(U)
      <4>1. ASSUME m - 1 \in Bad PROVE FALSE
        <5>1. m <= m - 1
          BY <2>1, <4>1, Zenon
        <5> QED BY <2>m, <5>1
      <4> QED BY <3>2, <4>1, Zenon
    <3>4. PICK s \in [1..c -> U] : \A i, j \in 1..c : i < j => s[i] < s[j]
      BY <3>3, Zenon
    <3> HIDE DEF U, c
    <3> DEFINE t == [i \in 1..(c + 1) |-> IF i <= c THEN s[i] ELSE m]
    <3>s. \A i \in 1..c : s[i] \in U /\ s[i] \in T /\ s[i] \in 1..(m - 1)
      BY <3>2, <3>4, Zenon
    <3>5. t \in [1..(c + 1) -> T]
      <4>1. ASSUME NEW i \in 1..(c + 1) PROVE (IF i <= c THEN s[i] ELSE m) \in T
        <5>1. i <= c => i \in 1..c
          BY <3>1
        <5> QED BY <2>4, <3>s, <5>1
      <4> QED BY <4>1
    <3>6. \A i, j \in 1..(c + 1) : i < j => t[i] < t[j]
      <4> SUFFICES ASSUME NEW i \in 1..(c + 1), NEW j \in 1..(c + 1), i < j
                   PROVE  t[i] < t[j]
        OBVIOUS
      <4>0. i \in 1..c
        BY <3>1
      <4>1. i \in 1..c /\ s[i] \in 1..(m - 1)
        BY <3>s, <4>0
      <4>2. CASE j \in 1..c
        BY <3>1, <3>4, <4>1, <4>2
      <4>3. CASE j = c + 1
        BY <2>m, <3>1, <4>1, <4>3
      <4> QED BY <3>1, <4>2, <4>3
    <3>7. Sorted(T)
      BY <3>1, <3>5, <3>6, Zenon
    <3> QED BY <2>2, <3>7, Zenon
  <2> QED BY <2>3, <2>4
<1>2. n \notin Bad
  BY <1>1, Zenon
<1> QED BY <1>2

(* What Ordered returns goes through all positions.                           *)
LEMMA OrderedFacts ==
  ASSUME NEW n \in Nat, NEW S, S \subseteq 1..n
  PROVE  /\ IsFiniteSet(S) /\ Cardinality(S) \in Nat
         /\ Cardinality(S) = 0 <=> S = {}
         /\ Ordered(S) \in [1..Cardinality(S) -> S]
         /\ \A k \in S : \E i \in 1..Cardinality(S) : Ordered(S)[i] = k
         /\ \A i, j \in 1..Cardinality(S) : i < j => Ordered(S)[i] < Ordered(S)[j]
<1> DEFINE c == Cardinality(S)
           s == Ordered(S)
<1>1. IsFiniteSet(S) /\ c \in Nat /\ (c = 0 <=> S = {})
  <2>1. IsFiniteSet(1..n)
    BY FS_Interval
  <2>2. IsFiniteSet(S)
    BY <2>1, FS_Subset, Zenon
  <2> QED BY <2>2, FS_CardinalityType, FS_EmptySet, Zenon
<1>2. s \in [1..c -> S] /\ \A i, j \in 1..c : i < j => s[i] < s[j]
  BY OrderExists, Zenon DEF Ordered
<1> HIDE DEF c, s
<1>3. \A i \in 1..c : s[i] \in Nat
  <2>1. S \subseteq Nat /\ \A i \in 1..c : s[i] \in S
    BY <1>2
  <2> QED BY <2>1, Zenon
<1>4. s \in Injection(1..c, S)
  <2>1. ASSUME NEW i \in 1..c, NEW j \in 1..c, s[i] = s[j] PROVE i = j
    <3>1. ~(i < j) /\ ~(j < i)
      BY <1>2, <1>3, <2>1
    <3> QED BY <1>1, <3>1
  <2> QED BY <1>2, <2>1 DEF Injection, IsInjective
<1>5. Cardinality(1..c) = c
  BY <1>1, FS_Interval
<1>6. s \in Surjection(1..c, S)
  BY <1>1, <1>4, <1>5, FS_Injection DEF c
<1>7. \A k \in S : \E i \in 1..c : s[i] = k
  BY <1>6 DEF Surjection
<1> QED BY <1>1, <1>2, <1>7 DEF c, s
------------------------------------------------------------------------------
(* What the model's operators return.                                         *)

(* Operations have the spans and versions that the assumptions give them.     *)
LEMMA InputFacts ==
  /\ \A w \in Writers : /\ Len(Input[w]) \in Nat
                        /\ \A k \in 1..Len(Input[w]) : Input[w][k] \in Operations
  /\ \A op \in Operations : /\ op.span \in Spans /\ op.version \in Versions
                            /\ op.version.ts \in Nat /\ LateId(op) \in LateIds
  /\ \A v \in Versions : v.ts \in Nat
  /\ NoVersion \in Versions
<1>1. \A w \in Writers : /\ Len(Input[w]) \in Nat
                         /\ DOMAIN Input[w] = 1..Len(Input[w])
  BY LedgerAssumption
<1>2. \A op \in Operations : op.span \in Spans /\ op.version.ts \in Nat
  BY <1>1, LedgerAssumption DEF Operations
<1>3. \A w \in Writers : \A k \in 1..Len(Input[w]) : Input[w][k] \in Operations
  BY DEF Operations
<1>4. \A op \in Operations : op.version \in Versions /\ LateId(op) \in LateIds
  BY DEF Versions, LateIds
<1>5. NoVersion \in Versions /\ NoVersion.ts \in Nat
  BY DEF Versions, NoVersion
<1>6. \A v \in Versions : v.ts \in Nat
  BY <1>2, <1>5 DEF Versions
<1> QED BY <1>1, <1>2, <1>3, <1>4, <1>5, <1>6

(* Nothing, and what a writer knows of births.                                *)
LEMMA EmptyFacts ==
  /\ NoOrigin \in Origins /\ NoBirths \in [Spans -> Origins]
  /\ Nothing \in PendingSet
  /\ Torn \in RecordSet /\ Garbled \in RecordSet
<1>1. NoOrigin \in Origins /\ NoBirths \in [Spans -> Origins]
  BY DEF Origins, NoBirths
<1>2. Nothing \in PendingSet
  BY InputFacts DEF Nothing, PendingSet
<1>3. Torn \in RecordSet
  BY <1>1, <1>2 DEF Torn, RecordSet
<1>4. Garbled \in RecordSet
  BY <1>3 DEF Garbled, RecordSet
<1> QED BY <1>1, <1>2, <1>3, <1>4

(* A birth is an origin.                                                      *)
LEMMA BirthFacts ==
  ASSUME TypeOK, NEW w \in Writers
  PROVE  Birth(w) \in Origins /\ Birth(w) # NoOrigin
<1>1. run[w] \in Nat /\ w # "nobody"
  BY LedgerAssumption DEF TypeOK, Nobody
<1>2. Birth(w).by # "nobody" /\ Birth(w) \in [by : Writers \cup {"capture"}, run : Nat]
  BY <1>1 DEF Birth
<1> QED BY <1>2 DEF Origins, NoOrigin

(* The newest version is one of those given.                                  *)
LEMMA NewestIn ==
  ASSUME NEW n \in Nat, NEW old, NEW versions, DOMAIN versions \subseteq 1..n
  PROVE  Newest(old, versions) = old
         \/ \E k \in DOMAIN versions : Newest(old, versions) = versions[k]
<1> DEFINE places == DOMAIN versions
           latest == {k \in places : /\ versions[k].ts >= old.ts
                                     /\ \A m \in places : versions[m].ts <= versions[k].ts}
<1>1. CASE latest = {}
  BY <1>1 DEF Newest
<1>2. CASE latest # {}
  <2>1. latest \subseteq 1..n
    OBVIOUS
  <2> HIDE DEF latest
  <2>2. \E k \in latest : \A m \in latest : m <= k
    BY <1>2, <2>1, Greatest, Zenon
  <2>3. (CHOOSE k \in latest : \A m \in latest : m <= k) \in latest
    BY <2>2
  <2>4. latest \subseteq places
    BY DEF latest
  <2>5. Newest(old, versions) = versions[CHOOSE k \in latest : \A m \in latest : m <= k]
    BY <1>2 DEF Newest, latest
  <2> QED BY <2>3, <2>4, <2>5, Zenon
<1> QED BY <1>1, <1>2

(* Merged versions are from either side.                                      *)
LEMMA MergedIn ==
  ASSUME NEW versions \in [Spans -> Versions], NEW more \in [Spans -> Versions]
  PROVE  /\ Merged(versions, more) \in [Spans -> Versions]
         /\ \A s \in Spans : Merged(versions, more)[s] \in {versions[s], more[s]}
BY DEF Merged, Newer

(* The first origin in a set of records is theirs, if one of them has one.    *)
First(s, records, R) ==
  LET named == {n \in R : records[n].origins[s] # NoOrigin}
  IN  IF named = {} THEN NoOrigin
      ELSE records[CHOOSE n \in named : \A m \in named : n <= m].origins[s]

IsFirst(x, s, records, R) ==
  \/ /\ \A n \in R : records[n].origins[s] = NoOrigin
     /\ x = NoOrigin
  \/ \E n \in R : /\ records[n].origins[s] # NoOrigin
                  /\ \A m \in R : m < n => records[m].origins[s] = NoOrigin
                  /\ x = records[n].origins[s]

(* The first origin that records give a span is the one First names.          *)
LEMMA FirstFacts ==
  ASSUME NEW s, NEW records, NEW R, R \subseteq Nat
  PROVE  IsFirst(First(s, records, R), s, records, R)
<1> DEFINE named == {n \in R : records[n].origins[s] # NoOrigin}
<1>1. CASE named = {}
  BY <1>1 DEF First, IsFirst
<1>2. CASE named # {}
  <2> DEFINE f == CHOOSE n \in named : \A m \in named : n <= m
  <2>1. named \subseteq Nat
    BY Zenon
  <2>2. First(s, records, R) = records[f].origins[s]
    BY <1>2 DEF First
  <2>d. \A n : n \in named <=> n \in R /\ records[n].origins[s] # NoOrigin
    OBVIOUS
  <2> HIDE DEF named
  <2>3. \E n \in named : \A m \in named : n <= m
    BY <1>2, <2>1, Least, Zenon
  <2>4. f \in named /\ \A m \in named : f <= m
    BY <2>3
  <2> HIDE DEF f
  <2>5. \A m \in R : m < f => records[m].origins[s] = NoOrigin
    BY <2>1, <2>4, <2>d
  <2> QED BY <2>2, <2>4, <2>5, <2>d, Zenon DEF IsFirst
<1> QED BY <1>1, <1>2

(* FirstOrigin is the first origin of the file's records.                     *)
LEMMA FirstOriginFacts ==
  ASSUME NEW s, NEW R, R \subseteq Nat
  PROVE  FirstOrigin(s, R) = First(s, file, R) /\ IsFirst(FirstOrigin(s, R), s, file, R)
<1>1. FirstOrigin(s, R) = First(s, file, R)
  BY DEF FirstOrigin, First
<1>2. IsFirst(First(s, file, R), s, file, R)
  BY FirstFacts, Zenon
<1> QED BY <1>1, <1>2

(* It depends on the origins alone.                                           *)
LEMMA FirstUnique ==
  ASSUME NEW s, NEW old, NEW new, NEW R, R \subseteq Nat,
         \A n \in R : new[n].origins[s] = old[n].origins[s],
         NEW x, IsFirst(x, s, old, R), NEW y, IsFirst(y, s, new, R)
  PROVE  x = y
<1> DEFINE f(n) == old[n].origins[s]
           g(n) == new[n].origins[s]
<1>1. /\ \A n \in R : g(n) = f(n)
      /\ \A k, n \in R : k < n \/ n < k \/ k = n
  OBVIOUS
<1>2. \/ /\ \A n \in R : f(n) = NoOrigin
         /\ x = NoOrigin
      \/ \E n \in R : /\ f(n) # NoOrigin
                      /\ \A m \in R : m < n => f(m) = NoOrigin
                      /\ x = f(n)
  BY DEF IsFirst
<1>3. \/ /\ \A n \in R : g(n) = NoOrigin
         /\ y = NoOrigin
      \/ \E n \in R : /\ g(n) # NoOrigin
                      /\ \A m \in R : m < n => g(m) = NoOrigin
                      /\ y = g(n)
  BY DEF IsFirst
<1> HIDE DEF f, g
<1>4. CASE \A n \in R : f(n) = NoOrigin
  BY <1>1, <1>2, <1>3, <1>4, Zenon
<1>5. CASE ~\A n \in R : f(n) = NoOrigin
  <2>1. PICK n \in R : f(n) # NoOrigin /\ (\A m \in R : m < n => f(m) = NoOrigin) /\ x = f(n)
    BY <1>2, <1>5, Zenon
  <2>2. PICK k \in R : g(k) # NoOrigin /\ (\A m \in R : m < k => g(m) = NoOrigin) /\ y = g(k)
    BY <1>1, <1>3, <1>5, Zenon
  <2>3. k = n
    BY <1>1, <2>1, <2>2, Zenon
  <2> QED BY <1>1, <2>1, <2>2, <2>3, Zenon
<1> QED BY <1>4, <1>5

(* A record more counts only where there is no origin yet.                    *)
LEMMA FirstExtends ==
  ASSUME NEW s, NEW old, NEW new, NEW m \in Nat, \A n \in 1..m : new[n] = old[n]
  PROVE  /\ First(s, new, 1..m) = First(s, old, 1..m)
         /\ First(s, new, 1..(m + 1)) = IF First(s, old, 1..m) # NoOrigin THEN First(s, old, 1..m)
                                         ELSE new[m + 1].origins[s]
<1> DEFINE a == First(s, old, 1..m)
           b == First(s, new, 1..m)
           c == First(s, new, 1..(m + 1))
<1>1. IsFirst(a, s, old, 1..m) /\ IsFirst(b, s, new, 1..m) /\ IsFirst(c, s, new, 1..(m + 1))
  BY FirstFacts
<1> HIDE DEF a, b, c
<1>2. \A n \in 1..m : new[n].origins[s] = old[n].origins[s]
  OBVIOUS
<1>3. b = a
  <2>1. 1..m \subseteq Nat
    OBVIOUS
  <2> QED BY <1>1, <1>2, <2>1, FirstUnique
<1>4. IsFirst(IF a # NoOrigin THEN a ELSE new[m + 1].origins[s], s, new, 1..(m + 1))
  <2>1. /\ \A n \in 1..(m + 1) : n \in 1..m \/ n = m + 1
        /\ \A n \in 1..m : n \in 1..(m + 1)
        /\ \A n \in 1..(m + 1), k \in 1..m : n < k => n \in 1..m
        /\ m + 1 \in 1..(m + 1)
    OBVIOUS
  <2>2. CASE /\ \A n \in 1..m : old[n].origins[s] = NoOrigin
             /\ a = NoOrigin
    <3>1. \A n \in 1..(m + 1) : n < m + 1 => new[n].origins[s] = NoOrigin
      BY <1>2, <2>1, <2>2
    <3>2. CASE new[m + 1].origins[s] = NoOrigin
      <4>1. \A n \in 1..(m + 1) : new[n].origins[s] = NoOrigin
        BY <2>1, <2>2, <3>2
      <4> QED BY <2>2, <3>2, <4>1 DEF IsFirst
    <3>3. CASE new[m + 1].origins[s] # NoOrigin
      BY <2>1, <2>2, <3>1, <3>3 DEF IsFirst
    <3> QED BY <3>2, <3>3
  <2>3. ASSUME NEW n \in 1..m, old[n].origins[s] # NoOrigin,
               \A k \in 1..m : k < n => old[k].origins[s] = NoOrigin,
               a = old[n].origins[s]
        PROVE  IsFirst(IF a # NoOrigin THEN a ELSE new[m + 1].origins[s], s, new, 1..(m + 1))
    <3>1. n \in 1..(m + 1) /\ new[n].origins[s] # NoOrigin /\ a = new[n].origins[s]
      BY <1>2, <2>1, <2>3
    <3>2. \A k \in 1..(m + 1) : k < n => new[k].origins[s] = NoOrigin
      BY <1>2, <2>1, <2>3
    <3> QED BY <2>3, <3>1, <3>2 DEF IsFirst
  <2> QED BY <1>1, <2>2, <2>3 DEF IsFirst
<1>5. c = IF a # NoOrigin THEN a ELSE new[m + 1].origins[s]
  <2> DEFINE d == IF a # NoOrigin THEN a ELSE new[m + 1].origins[s]
  <2>1. 1..(m + 1) \subseteq Nat /\ IsFirst(d, s, new, 1..(m + 1))
    BY <1>4
  <2> HIDE DEF d
  <2>2. c = d
    BY <1>1, <2>1, FirstUnique
  <2> QED BY <2>2 DEF d
<1> QED BY <1>3, <1>5 DEF a, b, c

(* Records without an origin do not count.                                    *)
LEMMA FirstSkips ==
  ASSUME NEW s, NEW records, NEW a \in Nat, NEW b \in Nat, a <= b,
         \A n \in 1..a : records[n].origins[s] = NoOrigin
  PROVE  First(s, records, a + 1..b) = First(s, records, 1..b)
<1> DEFINE f == First(s, records, a + 1..b)
           g == First(s, records, 1..b)
<1>1. IsFirst(f, s, records, a + 1..b) /\ IsFirst(g, s, records, 1..b)
  <2>1. a + 1..b \subseteq Nat
    OBVIOUS
  <2> QED BY <2>1, FirstFacts
<1> HIDE DEF f, g
<1>2. /\ \A n \in 1..b : n \in 1..a \/ n \in a + 1..b
      /\ \A n \in a + 1..b : n \in 1..b
  OBVIOUS
<1>3. IsFirst(f, s, records, 1..b)
  BY <1>1, <1>2 DEF IsFirst
<1>4. f = g
  BY <1>1, <1>3, FirstUnique
<1> QED BY <1>4 DEF f, g

IndexSet == [origins : [Spans -> Origins], done : SUBSET Spans, late : SUBSET LateIds]

(* The index that several records make.                                       *)
LEMMA RememberAllFacts ==
  ASSUME TypeOK, NEW idx \in IndexSet, NEW R, R \subseteq 1..Len(file)
  PROVE  RememberAll(idx, R) \in IndexSet
<1>1. \A n \in R : file[n] \in RecordSet
  BY DEF TypeOK
<1>2. ASSUME NEW s \in Spans PROVE FirstOrigin(s, R) \in Origins
  <2>1. R \subseteq Nat
    OBVIOUS
  <2>2. \A n \in R : file[n].origins[s] \in Origins
    BY <1>1 DEF RecordSet
  <2>3. NoOrigin \in Origins
    BY EmptyFacts
  <2>4. FirstOrigin(s, R) = NoOrigin \/ \E n \in R : FirstOrigin(s, R) = file[n].origins[s]
    BY <2>1, FirstOriginFacts, Zenon DEF IsFirst
  <2> QED BY <2>2, <2>3, <2>4
<1>3. [s \in Spans |-> IF idx.origins[s] = NoOrigin
                       THEN FirstOrigin(s, R) ELSE idx.origins[s]] \in [Spans -> Origins]
  BY <1>2 DEF IndexSet
<1>4. \A n \in R : file[n].delivered.done \subseteq Spans /\ file[n].delivered.late \subseteq LateIds
  BY <1>1 DEF RecordSet, PendingSet
<1>5. /\ UNION {file[n].delivered.done : n \in R} \subseteq Spans
      /\ UNION {file[n].delivered.late : n \in R} \subseteq LateIds
  BY <1>4
<1> QED BY <1>3, <1>5 DEF RememberAll, IndexSet

(* What a writer has not read lies in the file.                               *)
LEMMA UnreadFacts ==
  ASSUME TypeOK, NEW w \in Writers
  PROVE  /\ Unread(w) \subseteq 1..Len(file) /\ Len(file) \in Nat
         /\ Unread(w) \subseteq seen[w] + 1..Len(file)
         /\ \A n \in Unread(w) : file[n] \in RecordSet /\ file[n].form = "whole"
         /\ Through(w) \in Nat /\ seen[w] <= Through(w)
<1>1. seen[w] \in Nat /\ Len(file) \in Nat /\ \A n \in 1..Len(file) : file[n] \in RecordSet
  BY DEF TypeOK
<1>2. Unread(w) \subseteq seen[w] + 1..Len(file)
  BY DEF Unread
<1>3. seen[w] + 1..Len(file) \subseteq 1..Len(file)
  BY <1>1
<1>4. \A n \in Unread(w) : file[n].form = "whole"
  BY <1>1 DEF Unread
<1>5. IsFiniteSet(Unread(w))
  <2>1. IsFiniteSet(seen[w] + 1..Len(file))
    BY <1>1, FS_Interval
  <2> QED BY <1>2, <2>1, FS_Subset, Zenon
<1>6. Cardinality(Unread(w)) \in Nat
  BY <1>5, FS_CardinalityType
<1> QED BY <1>1, <1>2, <1>3, <1>4, <1>6 DEF Through

(* The index and the versions after a refresh.                                *)
LEMMA RefreshFacts ==
  ASSUME TypeOK, NEW w \in Writers
  PROVE  /\ Refreshed(w) \in IndexSet
         /\ RememberAll(NoIndex, Unread(w)) \in IndexSet
         /\ KnownAfter(w) \in [Spans -> Versions]
         /\ \A s \in Spans : \/ KnownAfter(w)[s] = known[w][s]
                             \/ \E n \in Unread(w) :
                                   KnownAfter(w)[s] = file[n].delivered.versions[s]
<1>1. /\ Unread(w) \subseteq 1..Len(file) /\ Len(file) \in Nat
      /\ \A n \in Unread(w) : file[n] \in RecordSet
  BY UnreadFacts
<1>2. index \in IndexSet /\ NoIndex \in IndexSet
  BY EmptyFacts, Zenon DEF TypeOK, IndexSet, NoIndex
<1>3. Refreshed(w) \in IndexSet /\ RememberAll(NoIndex, Unread(w)) \in IndexSet
  BY <1>1, <1>2, RememberAllFacts DEF Refreshed
<1>4. ASSUME NEW s \in Spans
      PROVE  \/ KnownAfter(w)[s] = known[w][s]
             \/ \E n \in Unread(w) : KnownAfter(w)[s] = file[n].delivered.versions[s]
  <2> DEFINE D == {n \in Unread(w) : file[n].delivered.versions[s] # NoVersion}
             v == [n \in D |-> file[n].delivered.versions[s]]
  <2>1. KnownAfter(w)[s] = Newest(known[w][s], v)
    BY DEF KnownAfter
  <2>2. DOMAIN v = D /\ DOMAIN v \subseteq 1..Len(file) /\ D \subseteq Unread(w)
        /\ \A n \in D : v[n] = file[n].delivered.versions[s]
    BY <1>1
  <2> HIDE DEF v, D
  <2>3. Newest(known[w][s], v) = known[w][s]
        \/ \E k \in DOMAIN v : Newest(known[w][s], v) = v[k]
    BY <1>1, <2>2, NewestIn
  <2> QED BY <2>1, <2>2, <2>3
<1>5. \A s \in Spans : /\ known[w][s] \in Versions
                       /\ \A n \in Unread(w) : file[n].delivered.versions[s] \in Versions
  BY <1>1 DEF TypeOK, RecordSet, PendingSet
<1>6. KnownAfter(w) \in [Spans -> Versions]
  <2>1. \A s \in Spans : KnownAfter(w)[s] \in Versions
    BY <1>4, <1>5
  <2> QED BY <2>1 DEF KnownAfter
<1> QED BY <1>3, <1>4, <1>6

(* What a writer is about to append is a record.                              *)
LEMMA RecordFacts ==
  ASSUME TypeOK, NEW w \in Writers
  PROVE  /\ Delivered(w) \in PendingSet /\ Record(w) \in RecordSet
         /\ Record(w).form = "whole"
         /\ Record(w).origins = IF at[w] = "persist" THEN births[w] ELSE NoBirths
         /\ Record(w).delivered = IF at[w] = "persist" THEN Nothing ELSE Delivered(w)
<1>1. pending[w] \in PendingSet /\ births[w] \in [Spans -> Origins]
  BY DEF TypeOK
<1>2. Delivered(w) \in PendingSet
  BY <1>1 DEF Delivered, PendingSet
<1> HIDE DEF Delivered
<1>3. \A o \in [Spans -> Origins], d \in PendingSet :
         /\ Update(o, d) \in RecordSet /\ Update(o, d).form = "whole"
         /\ Update(o, d).origins = o /\ Update(o, d).delivered = d
  BY DEF Update, RecordSet
<1> QED BY <1>1, <1>2, <1>3, EmptyFacts DEF Record

(* What is kept of a batch are some of its places.                            *)
LEMMA KeptFacts ==
  ASSUME NEW w, NEW idx, NEW ops, NEW n \in Nat, DOMAIN ops = 1..n
  PROVE  /\ Kept(w, idx, ops) \subseteq 1..n
         /\ \A k \in Kept(w, idx, ops) : ShouldEmit(w, idx, ops[k])
BY DEF Kept

(* The operations that are taken next are of the input.                       *)
LEMMA TakenFacts ==
  ASSUME TypeOK, NEW w \in Writers, NEW n \in 1..MaxBatch, read[w] + n <= Len(Input[w])
  PROVE  /\ n \in Nat /\ DOMAIN Taken(w, n) = 1..n
         /\ \A k \in 1..n : /\ Taken(w, n)[k] = Input[w][read[w] + k]
                            /\ read[w] + k \in 1..Len(Input[w])
                            /\ Taken(w, n)[k] \in Operations
<1>1. read[w] \in Nat /\ n \in Nat /\ Len(Input[w]) \in Nat
  BY LedgerAssumption, InputFacts DEF TypeOK
<1> QED BY <1>1, InputFacts DEF Taken

(* Origins of births and rows are origins.                                    *)
LEMMA StampFacts ==
  ASSUME TypeOK, NEW w \in Writers, NEW idx \in IndexSet, NEW ops
  PROVE  /\ Unborn(w, idx, ops) \in [Spans -> Origins]
         /\ \A s \in Spans : Stamp(w, idx, ops, s) \in Origins
<1>1. \A s \in Spans : births[w][s] \in Origins /\ idx.origins[s] \in Origins
  BY DEF TypeOK, IndexSet
<1>2. Birth(w) \in Origins /\ NoOrigin \in Origins
  BY BirthFacts, EmptyFacts
<1>3. Unborn(w, idx, ops) \in [Spans -> Origins]
  BY <1>1, <1>2, Zenon DEF Unborn
<1> QED BY <1>1, <1>2, <1>3 DEF Stamp

(* What a selection does.                                                     *)
Selects(w, n) ==
  LET ops == Taken(w, n)
      idx == Refreshed(w)
      kept == Kept(w, idx, ops)
      unborn == Unborn(w, idx, ops)
      first == kept # {} /\ unborn # NoBirths
  IN  /\ read[w] + n <= Len(Input[w])
      /\ read' = [read EXCEPT ![w] = @ + n]
      /\ index' = idx
      /\ births' = [births EXCEPT ![w] = unborn]
      /\ at' = [at EXCEPT ![w] = IF first THEN "persist"
                                 ELSE IF kept # {} THEN "send"
                                 ELSE IF w \in Imports THEN "idle" ELSE "flush"]
      /\ lock' = IF first THEN w ELSE Nobody
      /\ batch' \in [Writers -> Seq(Rows)]
      /\ \A v \in Writers : v # w => batch'[v] = batch[v]
      /\ kept = {} <=> batch'[w] = <<>>
      /\ \A i \in 1..Len(batch'[w]) : \E k \in kept :
            batch'[w][i] = [op |-> ops[k], origin |-> Stamp(w, idx, ops, ops[k].span)]
      /\ \A k \in kept : \E i \in 1..Len(batch'[w]) : batch'[w][i].op = ops[k]
      /\ \A i, j \in 1..Len(batch'[w]) : i < j =>
            \E k, m \in kept : k < m /\ batch'[w][i].op = ops[k] /\ batch'[w][j].op = ops[m]

(* A selection takes some operations, and keeps, stamps and orders them.      *)
LEMMA SelectFacts ==
  ASSUME TypeOK, NEW w \in Writers, Select(w)
  PROVE  \E n \in 1..MaxBatch : Selects(w, n)
<1>1. PICK n \in 1..MaxBatch :
        LET ops == Taken(w, n)
            idx == Refreshed(w)
            kept == Kept(w, idx, ops)
            unborn == Unborn(w, idx, ops)
            first == kept # {} /\ unborn # NoBirths
        IN  /\ read[w] + n <= Len(Input[w])
            /\ read' = [read EXCEPT ![w] = read[w] + n]
            /\ index' = idx
            /\ births' = [births EXCEPT ![w] = unborn]
            /\ batch' = [batch EXCEPT ![w] =
                 [k \in 1..Cardinality(kept) |->
                    [op |-> ops[Ordered(kept)[k]],
                     origin |-> Stamp(w, idx, ops, ops[Ordered(kept)[k]].span)]]]
            /\ at' = [at EXCEPT ![w] =
                 IF first THEN "persist"
                 ELSE IF kept # {} THEN "send"
                 ELSE IF w \in Imports THEN "idle" ELSE "flush"]
            /\ lock' = IF first THEN w ELSE Nobody
  BY Zenon DEF Select
<1> DEFINE ops == Taken(w, n)
           idx == Refreshed(w)
           kept == Kept(w, idx, ops)
           c == Cardinality(kept)
           rows == [k \in 1..c |->
                      [op |-> ops[Ordered(kept)[k]],
                       origin |-> Stamp(w, idx, ops, ops[Ordered(kept)[k]].span)]]
<1>2. /\ n \in Nat /\ DOMAIN ops = 1..n /\ idx \in IndexSet
      /\ \A k \in 1..n : ops[k] \in Operations /\ ops[k].span \in Spans
  BY <1>1, TakenFacts, RefreshFacts, InputFacts
<1>3. kept \subseteq 1..n
  BY <1>2, KeptFacts
<1>4. \A s \in Spans : Stamp(w, idx, ops, s) \in Origins
  BY <1>2, StampFacts, Zenon
<1>b. batch' = [batch EXCEPT ![w] = rows]
  BY <1>1
<1> HIDE DEF ops, idx, kept
<1>5. /\ c \in Nat /\ (c = 0 <=> kept = {}) /\ \A i \in 1..c : Ordered(kept)[i] \in kept
      /\ \A k \in kept : \E i \in 1..c : Ordered(kept)[i] = k
      /\ \A i, j \in 1..c : i < j => Ordered(kept)[i] < Ordered(kept)[j]
  <2>1. /\ IsFiniteSet(kept) /\ c \in Nat
        /\ c = 0 <=> kept = {}
        /\ Ordered(kept) \in [1..c -> kept]
        /\ \A k \in kept : \E i \in 1..c : Ordered(kept)[i] = k
        /\ \A i, j \in 1..c : i < j => Ordered(kept)[i] < Ordered(kept)[j]
    BY <1>2, <1>3, OrderedFacts, Zenon
  <2> HIDE DEF c
  <2> QED BY <2>1
<1> HIDE DEF c
<1>6. ASSUME NEW i \in 1..c
      PROVE  /\ rows[i] \in Rows /\ rows[i].op = ops[Ordered(kept)[i]]
             /\ rows[i] = [op |-> ops[Ordered(kept)[i]],
                           origin |-> Stamp(w, idx, ops, ops[Ordered(kept)[i]].span)]
  BY <1>2, <1>3, <1>4, <1>5, Zenon DEF Rows
<1>7. rows \in Seq(Rows) /\ Len(rows) = c /\ (c = 0 <=> rows = <<>>)
  <2>1. rows \in [1..c -> Rows]
    BY <1>6
  <2>2. rows \in Seq(Rows) /\ Len(rows) = c
    BY <1>5, <2>1
  <2> QED BY <2>2, EmptySeq, Zenon
<1>8. batch'[w] = rows /\ batch' \in [Writers -> Seq(Rows)]
      /\ \A v \in Writers : v # w => batch'[v] = batch[v]
  BY <1>b, <1>7 DEF TypeOK
<1> HIDE DEF rows
<1>9. /\ (kept = {} <=> batch'[w] = <<>>)
      /\ \A i \in 1..Len(batch'[w]) : \E k \in kept :
            batch'[w][i] = [op |-> ops[k], origin |-> Stamp(w, idx, ops, ops[k].span)]
      /\ \A k \in kept : \E i \in 1..Len(batch'[w]) : batch'[w][i].op = ops[k]
  BY <1>5, <1>6, <1>7, <1>8
<1>10. \A i, j \in 1..Len(batch'[w]) : i < j =>
         \E k, m \in kept : k < m /\ batch'[w][i].op = ops[k] /\ batch'[w][j].op = ops[m]
  BY <1>5, <1>6, <1>7, <1>8
<1> QED BY <1>1, <1>8, <1>9, <1>10, Zenon DEF Selects, ops, idx, kept
------------------------------------------------------------------------------
(* Types and stages.                                                          *)

(* A sink that is lost leaves nothing but what it acknowledged.               *)
LEMMA LoseFacts ==
  ASSUME Base, NEW w \in Writers, Lose(w)
  PROVE  /\ at' = [at EXCEPT ![w] = "closed"]
         /\ lock' = (IF lock = w THEN Nobody ELSE lock)
         /\ read' = [read EXCEPT ![w] = head[w]]
         /\ batch' = [batch EXCEPT ![w] = <<>>] /\ batch' \in [Writers -> Seq(Rows)]
         /\ births' = [births EXCEPT ![w] = NoBirths] /\ births' \in [Writers -> [Spans -> Origins]]
         /\ seen' = [seen EXCEPT ![w] = 0]
         /\ known' = [known EXCEPT ![w] = Nothing.versions]
         /\ known' \in [Writers -> [Spans -> Versions]]
         /\ pending' = [pending EXCEPT ![w] = Nothing] /\ pending' \in [Writers -> PendingSet]
         /\ queued' \in [Writers -> Seq(Rows)]
         /\ \A v \in Writers : queued'[v] = queued[v] \/ (v = w /\ queued'[v] = <<>>)
         /\ rejected' = [rejected EXCEPT ![w] = FALSE]
         /\ run' \in [Writers -> Nat]
<1>1. TypeOK
  BY DEF Base
<1>2. /\ at' = [at EXCEPT ![w] = "closed"]
      /\ lock' = (IF lock = w THEN Nobody ELSE lock)
      /\ read' = [read EXCEPT ![w] = head[w]]
      /\ batch' = [batch EXCEPT ![w] = <<>>]
      /\ births' = [births EXCEPT ![w] = NoBirths]
      /\ seen' = [seen EXCEPT ![w] = 0]
      /\ known' = [known EXCEPT ![w] = Nothing.versions]
      /\ pending' = [pending EXCEPT ![w] = Nothing]
      /\ queued' \in {queued, [queued EXCEPT ![w] = <<>>]}
      /\ rejected' = [rejected EXCEPT ![w] = FALSE]
      /\ run' = [run EXCEPT ![w] = IF w \in Imports THEN run[w] + 1 ELSE run[w]]
  BY DEF Lose
<1>3. <<>> \in Seq(Rows) /\ Nothing.versions \in [Spans -> Versions]
  BY EmptySeq, EmptyFacts DEF PendingSet
<1>4. /\ batch' \in [Writers -> Seq(Rows)] /\ queued' \in [Writers -> Seq(Rows)]
      /\ \A v \in Writers : queued'[v] = queued[v] \/ (v = w /\ queued'[v] = <<>>)
  <2>1. batch \in [Writers -> Seq(Rows)] /\ queued \in [Writers -> Seq(Rows)]
    BY <1>1, Zenon DEF TypeOK
  <2>2. batch' \in [Writers -> Seq(Rows)]
    BY <1>2, <1>3, <2>1
  <2>3. CASE queued' = queued
    BY <2>1, <2>2, <2>3
  <2>4. CASE queued' = [queued EXCEPT ![w] = <<>>]
    <3>1. \A v \in Writers : queued'[v] = IF v = w THEN <<>> ELSE queued[v]
      BY <2>1, <2>4
    <3>2. queued' \in [Writers -> Seq(Rows)]
      BY <1>3, <2>1, <2>4
    <3> QED BY <2>2, <3>1, <3>2
  <2> QED BY <1>2, <2>3, <2>4
<1>5. /\ births' \in [Writers -> [Spans -> Origins]] /\ known' \in [Writers -> [Spans -> Versions]]
      /\ pending' \in [Writers -> PendingSet]
  BY <1>1, <1>2, <1>3, EmptyFacts DEF TypeOK
<1>6. run' \in [Writers -> Nat]
  BY <1>1, <1>2 DEF TypeOK
<1> QED BY <1>2, <1>4, <1>5, <1>6

(* The record is appended behind what was read; the rest is cut off.          *)
Writes(w, record) ==
  /\ file' \in Seq(RecordSet) /\ Len(file') = seen[w] + 1
  /\ file'[seen[w] + 1] = record
  /\ \A n \in 1..seen[w] : file'[n] = file[n]

(* An append at what was read leaves what was read, and one record more.      *)
LEMMA WriteFacts ==
  ASSUME Base, NEW w \in Writers, NEW record \in RecordSet,
         file' = Append(SubSeq(file, 1, seen[w]), record)
  PROVE  Writes(w, record)
<1> DEFINE kept == SubSeq(file, 1, seen[w])
<1>1. /\ file \in Seq(RecordSet) /\ seen[w] \in Nat /\ Len(file) \in Nat
      /\ seen[w] <= Len(file)
  BY DEF Base, TypeOK, SeenInv
<1>2. kept \in Seq(RecordSet) /\ Len(kept) = seen[w]
      /\ \A n \in 1..seen[w] : kept[n] = file[n]
  BY <1>1, SubSeqProperties
<1> HIDE DEF kept
<1>3. file' = Append(kept, record)
  BY DEF kept
<1> DEFINE longer == Append(kept, record)
<1>4. /\ longer \in Seq(RecordSet) /\ Len(longer) = Len(kept) + 1
      /\ longer[Len(kept) + 1] = record
      /\ \A n \in 1..Len(kept) : longer[n] = kept[n]
  BY <1>2, AppendProperties
<1> HIDE DEF longer
<1>5. file' = longer
  BY <1>3, Zenon DEF longer
<1> QED BY <1>1, <1>2, <1>4, <1>5 DEF Writes

(* What a writer has not read goes on from what it has read, up to the end or *)
(* to a line that is not whole.                                               *)
LEMMA ThroughFacts ==
  ASSUME Base, NEW w \in Writers
  PROVE  /\ Through(w) \in Nat /\ seen[w] <= Through(w) /\ Through(w) <= Len(file)
         /\ Unread(w) = seen[w] + 1..Through(w)
         /\ \A n \in seen[w] + 1..Through(w) : file[n].form = "whole"
         /\ Through(w) < Len(file) => file[Through(w) + 1].form # "whole"
         /\ Readable(w) => \A v \in Writers : seen[v] <= Through(w)
<1>1. /\ file \in Seq(RecordSet) /\ seen[w] \in Nat /\ Len(file) \in Nat
      /\ seen[w] <= Len(file)
      /\ \A n \in 1..Len(file) : file[n].form \in {"whole", "torn", "garbled"}
  <2>1. file \in Seq(RecordSet) /\ seen[w] \in Nat /\ seen[w] <= Len(file)
    BY DEF Base, TypeOK, SeenInv
  <2>2. Len(file) \in Nat /\ \A n \in 1..Len(file) : file[n] \in RecordSet
    BY <2>1
  <2>3. \A record \in RecordSet : record.form \in {"whole", "torn", "garbled"}
    BY DEF RecordSet
  <2> QED BY <2>1, <2>2, <2>3
<1> DEFINE bad == {n \in seen[w] + 1..Len(file) + 1 :
                     n = Len(file) + 1 \/ file[n].form # "whole"}
<1>2. PICK b \in bad : \A n \in bad : b <= n
  <2>1. bad \subseteq Nat /\ Len(file) + 1 \in bad
    BY <1>1
  <2> HIDE DEF bad
  <2> QED BY <2>1, Least, Zenon
<1>3. /\ b \in Nat /\ seen[w] + 1 <= b /\ b <= Len(file) + 1
      /\ b <= Len(file) => file[b].form # "whole"
      /\ \A n \in seen[w] + 1..b - 1 : file[n].form = "whole"
  <2>1. b \in seen[w] + 1..Len(file) + 1 /\ (b = Len(file) + 1 \/ file[b].form # "whole")
    BY <1>2
  <2>2. ASSUME NEW n \in seen[w] + 1..b - 1 PROVE file[n].form = "whole"
    <3>1. n \notin bad
      BY <1>1, <1>2, <2>1, <2>2
    <3>2. n \in seen[w] + 1..Len(file) + 1
      BY <1>1, <2>1, <2>2
    <3> QED BY <3>1, <3>2
  <2> QED BY <1>1, <2>1, <2>2
<1> HIDE DEF bad
<1>4. Unread(w) = seen[w] + 1..b - 1
  <2>1. ASSUME NEW n \in Unread(w) PROVE n \in seen[w] + 1..b - 1
    <3>1. n \in seen[w] + 1..Len(file) /\ \A m \in seen[w] + 1..n : file[m].form = "whole"
      BY DEF Unread
    <3>2. ~(b <= n)
      BY <1>1, <1>3, <3>1
    <3> QED BY <1>1, <1>3, <3>1, <3>2
  <2>2. ASSUME NEW n \in seen[w] + 1..b - 1 PROVE n \in Unread(w)
    BY <1>1, <1>3 DEF Unread
  <2> QED BY <2>1, <2>2, Zenon
<1>5. Through(w) = b - 1
  <2> DEFINE i == seen[w] + 1
             j == b - 1
  <2>1. i \in Int /\ j \in Int /\ i <= j + 1
    BY <1>1, <1>3
  <2>2. ASSUME NEW k \in Int, NEW l \in Int
        PROVE  Cardinality(k..l) = IF k > l THEN 0 ELSE l - k + 1
    BY FS_Interval
  <2> HIDE DEF i, j
  <2>3. Cardinality(i..j) = IF i > j THEN 0 ELSE j - i + 1
    BY <2>1, <2>2
  <2>4. Cardinality(i..j) = j - i + 1
    BY <2>1, <2>3
  <2>5. Through(w) = seen[w] + (j - i + 1)
    BY <1>4, <2>4 DEF Through, i, j
  <2> QED BY <1>1, <1>3, <2>5 DEF i, j
<1>6. ASSUME Readable(w), NEW v \in Writers PROVE seen[v] <= b - 1
  <2>1. seen[v] \in Nat /\ seen[v] <= Len(file) /\ \A n \in 1..seen[v] : file[n].form # "torn"
    BY DEF Base, TypeOK, SeenInv
  <2>2. CASE b <= Len(file)
    <3>1. file[b].form = "torn"
      BY <1>1, <1>3, <1>6, <2>2 DEF Readable
    <3>2. b \notin 1..seen[v]
      BY <2>1, <3>1
    <3>3. b \in Nat /\ 1 <= b
      BY <1>1, <1>3
    <3>4. ~(b <= seen[v])
      BY <2>1, <3>2, <3>3
    <3> QED BY <2>1, <3>3, <3>4
  <2>3. CASE b = Len(file) + 1
    BY <1>1, <2>1, <2>3
  <2> QED BY <1>1, <1>3, <2>2, <2>3
<1> QED BY <1>1, <1>3, <1>4, <1>5, <1>6
------------------------------------------------------------------------------
(* Every action keeps Base.                                                   *)

(* What a writer has read after a refresh.                                    *)
LEMMA RefreshSeen ==
  ASSUME Base, NEW w \in Writers, Readable(w),
         seen' = [seen EXCEPT ![w] = Through(w)], file' = file, adrift' = adrift,
         lock' \in {w, Nobody}
  PROVE  SeenInv'
<1>1. /\ seen \in [Writers -> Nat] /\ Nobody \notin Writers /\ SeenInv
  BY LedgerAssumption DEF Base, TypeOK
<1>2. /\ Through(w) \in Nat /\ seen[w] <= Through(w) /\ Through(w) <= Len(file)
      /\ \A n \in seen[w] + 1..Through(w) : file[n].form = "whole"
      /\ \A v \in Writers : seen[v] <= Through(w)
  BY ThroughFacts
<1>3. \A v \in Writers : seen'[v] = IF v = w THEN Through(w) ELSE seen[v]
  BY <1>1
<1>4. \A n \in 1..Through(w) : file[n].form # "torn"
  <2>1. \A n \in 1..seen[w] : file[n].form # "torn"
    BY <1>1 DEF SeenInv
  <2>2. \A n \in 1..Through(w) : n \in 1..seen[w] \/ n \in seen[w] + 1..Through(w)
    BY <1>1, <1>2
  <2> QED BY <1>2, <2>1, <2>2
<1>5. \A v \in Writers : seen'[v] <= Len(file) /\ \A n \in 1..seen'[v] : file[n].form # "torn"
  BY <1>1, <1>2, <1>3, <1>4 DEF SeenInv
<1>6. ASSUME NEW u \in Writers, lock' = u, NEW v \in Writers PROVE seen'[v] <= seen'[u]
  BY <1>1, <1>2, <1>3, <1>6
<1>7. \A v \in Writers : adrift'[v] # <<>> => adrift'[v][2].form = "whole"
  BY <1>1 DEF SeenInv
<1> QED BY <1>5, <1>6, <1>7 DEF SeenInv

(* Others have read no more than the one that writes.                         *)
LEMMA WriteSeen ==
  ASSUME Base, NEW w \in Writers, lock = w, NEW record \in RecordSet, Writes(w, record),
         \/ seen' = [seen EXCEPT ![w] = seen[w] + 1] /\ record.form = "whole"
         \/ seen' = [seen EXCEPT ![w] = 0]
         \/ seen' = seen,
         adrift' = adrift, lock' = Nobody
  PROVE  SeenInv'
<1>1. seen \in [Writers -> Nat] /\ Nobody \notin Writers /\ SeenInv
  BY LedgerAssumption DEF Base, TypeOK
<1>2. \A v \in Writers : seen[v] \in Nat /\ seen[v] <= seen[w]
                         /\ \A n \in 1..seen[v] : file[n].form # "torn"
  BY <1>1 DEF SeenInv
<1>3. /\ Len(file') = seen[w] + 1 /\ file'[seen[w] + 1] = record
      /\ \A n \in 1..seen[w] : file'[n] = file[n]
  BY DEF Writes
<1>4. ASSUME NEW v \in Writers
      PROVE  seen[v] <= Len(file') /\ \A n \in 1..seen[v] : file'[n].form # "torn"
  <2>1. \A n \in 1..seen[v] : n \in 1..seen[w]
    BY <1>2
  <2> QED BY <1>2, <1>3, <2>1
<1>5. record.form = "whole" => \A n \in 1..seen[w] + 1 : file'[n].form # "torn"
  <2>1. \A n \in 1..seen[w] + 1 : n \in 1..seen[w] \/ n = seen[w] + 1
    BY <1>2
  <2> QED BY <1>2, <1>3, <2>1
<1>6. ASSUME NEW v \in Writers
      PROVE  seen'[v] <= Len(file') /\ \A n \in 1..seen'[v] : file'[n].form # "torn"
  <2>1. CASE seen' = seen
    BY <1>4, <2>1
  <2>2. CASE seen' = [seen EXCEPT ![w] = 0]
    <3>1. seen'[v] = IF v = w THEN 0 ELSE seen[v]
      BY <1>1, <2>2
    <3> QED BY <1>2, <1>3, <1>4, <3>1
  <2>3. CASE seen' = [seen EXCEPT ![w] = seen[w] + 1] /\ record.form = "whole"
    <3>1. seen'[v] = IF v = w THEN seen[w] + 1 ELSE seen[v]
      BY <1>1, <2>3
    <3> QED BY <1>2, <1>3, <1>4, <1>5, <2>3, <3>1
  <2> QED BY <2>1, <2>2, <2>3
<1>7. \A v \in Writers : adrift'[v] # <<>> => adrift'[v][2].form = "whole"
  BY <1>1 DEF SeenInv
<1> QED BY <1>1, <1>6, <1>7 DEF SeenInv

(* Opening a sink.                                                            *)
LEMMA OpenBase ==
  ASSUME Base, NEW w \in Writers, Open(w)
  PROVE  Base'
<1>1. TypeOK
  BY DEF Base
<1>2. RememberAll(NoIndex, Unread(w)) \in IndexSet /\ KnownAfter(w) \in [Spans -> Versions]
      /\ Through(w) \in Nat
  BY <1>1, RefreshFacts, ThroughFacts
<1>3. TypeOK'
  <2>1. /\ index' \in IndexSet
        /\ known' = [known EXCEPT ![w] = KnownAfter(w)]
        /\ seen' = [seen EXCEPT ![w] = Through(w)]
        /\ at' = [at EXCEPT ![w] = "idle"]
        /\ UNCHANGED <<file, head, lock, read, batch, births, pending, queued, rejected,
                       adrift, run, backend, appended, faults, aborts, limits>>
    BY <1>2 DEF Open, sdk, bounds
  <2> QED BY <1>1, <1>2, <2>1, Zenon DEF TypeOK, IndexSet
<1>4. StageInv'
  BY LedgerAssumption, Zenon DEF Base, TypeOK, StageInv, Open
<1>5. SeenInv'
  BY RefreshSeen, Zenon DEF Open
<1> QED BY <1>3, <1>4, <1>5 DEF Base

(* Selecting what to send.                                                    *)
LEMMA SelectBase ==
  ASSUME Base, NEW w \in Writers, Select(w)
  PROVE  Base'
<1>1. TypeOK /\ Nobody \notin Writers
  BY LedgerAssumption DEF Base
<1>2. PICK n \in 1..MaxBatch : Selects(w, n)
  BY <1>1, SelectFacts
<1>3. Refreshed(w) \in IndexSet /\ KnownAfter(w) \in [Spans -> Versions] /\ Through(w) \in Nat
  BY <1>1, RefreshFacts, ThroughFacts
<1>4. Unborn(w, Refreshed(w), Taken(w, n)) \in [Spans -> Origins]
  BY <1>1, <1>3, StampFacts
<1>5. /\ read' = [read EXCEPT ![w] = read[w] + n] /\ n \in Nat
      /\ read[w] + n <= Len(Input[w])
      /\ index' = Refreshed(w)
      /\ births' = [births EXCEPT ![w] = Unborn(w, Refreshed(w), Taken(w, n))]
      /\ batch' \in [Writers -> Seq(Rows)]
      /\ \A v \in Writers : v # w => batch'[v] = batch[v]
      /\ \/ at' = [at EXCEPT ![w] = "persist"] /\ lock' = w
         \/ at' = [at EXCEPT ![w] = "send"] /\ lock' = Nobody
         \/ at' = [at EXCEPT ![w] = "idle"] /\ lock' = Nobody /\ batch'[w] = <<>>
         \/ at' = [at EXCEPT ![w] = "flush"] /\ lock' = Nobody /\ batch'[w] = <<>>
  <2>1. n \in Nat
    BY LedgerAssumption
  <2> HIDE DEF Refreshed
  <2> QED BY <1>2, <2>1, Zenon DEF Selects
<1>6. /\ at[w] = "idle" /\ lock = Nobody /\ Readable(w)
      /\ seen' = [seen EXCEPT ![w] = Through(w)]
      /\ known' = [known EXCEPT ![w] = KnownAfter(w)]
      /\ UNCHANGED <<file, head, pending, queued, rejected, adrift, run, backend, appended,
                     faults, aborts, limits>>
  BY DEF Select, sdk, bounds
<1>7. TypeOK'
  <2>1. read' \in [Writers -> Nat] /\ seen' \in [Writers -> Nat]
    BY <1>1, <1>3, <1>5, <1>6 DEF TypeOK
  <2>2. /\ births' \in [Writers -> [Spans -> Origins]]
        /\ known' \in [Writers -> [Spans -> Versions]] /\ index' \in IndexSet
    BY <1>1, <1>3, <1>4, <1>5, <1>6, Zenon DEF TypeOK
  <2>3. at' \in [Writers -> {"closed", "idle", "persist", "send", "flush", "commit",
                             "record", "ack", "finished"}] /\ lock' \in Writers \cup {Nobody}
    BY <1>1, <1>5, Zenon DEF TypeOK
  <2>4. batch' \in [Writers -> Seq(Rows)]
    BY <1>5
  <2> QED BY <1>1, <1>6, <2>1, <2>2, <2>3, <2>4, Zenon DEF TypeOK, IndexSet
<1>8. StageInv'
  <2>1. \A v \in Writers : read'[v] = IF v = w THEN read[w] + n ELSE read[v]
    BY <1>1, <1>5 DEF TypeOK
  <2>2. \A v \in Writers : head[v] \in Nat /\ read[v] \in Nat
    BY <1>1 DEF TypeOK
  <2>3. \A v \in Writers : /\ head'[v] <= read'[v] /\ read'[v] <= Len(Input[v])
    BY <1>5, <1>6, <2>1, <2>2 DEF Base, StageInv
  <2>4. ASSUME NEW v \in Writers
        PROVE  /\ at'[v] \in {"persist", "record"} <=> lock' = v
               /\ at'[v] \notin {"persist", "send"} => batch'[v] = <<>>
               /\ at'[v] = "closed" => read'[v] = head'[v]
    <3>1. at'[v] = (IF v = w THEN at'[w] ELSE at[v])
      BY <1>1, <1>5, Zenon DEF TypeOK
    <3>2. CASE v = w
      BY <1>1, <1>5, <3>2 DEF TypeOK
    <3>3. CASE v # w
      <4>1. at'[v] = at[v] /\ batch'[v] = batch[v] /\ read'[v] = read[v] /\ head'[v] = head[v]
            /\ lock' # v
        BY <1>1, <1>5, <1>6, <2>1, <3>1, <3>3
      <4> QED BY <1>1, <1>6, <4>1 DEF Base, StageInv
    <3> QED BY <3>2, <3>3
  <2> QED BY <2>3, <2>4 DEF StageInv
<1>9. SeenInv'
  BY <1>5, <1>6, RefreshSeen, Zenon
<1> QED BY <1>7, <1>8, <1>9 DEF Base

(* The birth record of a span that is sent.                                   *)
LEMMA AppendedFacts ==
  ASSUME Base, NEW w \in Writers, at[w] \in {"persist", "record"}, Appended(w, Record(w))
  PROVE  /\ lock = w /\ Record(w) \in RecordSet /\ Record(w).form = "whole"
         /\ Writes(w, Record(w)) /\ index' \in IndexSet
         /\ seen' = [seen EXCEPT ![w] = seen[w] + 1] /\ seen' \in [Writers -> Nat]
         /\ appended' = appended \cup {Record(w)} /\ appended' \subseteq RecordSet
         /\ lock' = Nobody
<1>1. TypeOK
  BY DEF Base
<1>2. Record(w) \in RecordSet /\ Record(w).form = "whole" /\ lock = w
  BY <1>1, RecordFacts DEF Base, StageInv
<1> HIDE DEF Record
<1>3. Writes(w, Record(w))
  BY <1>2, WriteFacts, Zenon DEF Appended
<1>4. seen' = [seen EXCEPT ![w] = seen[w] + 1] /\ seen' \in [Writers -> Nat]
  BY <1>1 DEF Appended, TypeOK
<1>5. appended' = appended \cup {Record(w)} /\ appended' \subseteq RecordSet
  BY <1>1, <1>2 DEF Appended, TypeOK
<1>6. Remember(index, Record(w)) \in IndexSet
  <2>1. /\ Record(w).origins \in [Spans -> Origins]
        /\ Record(w).delivered.done \subseteq Spans /\ Record(w).delivered.late \subseteq LateIds
    BY <1>2 DEF RecordSet, PendingSet
  <2>2. index \in IndexSet
    BY <1>1, Zenon DEF TypeOK, IndexSet
  <2> QED BY <2>1, <2>2 DEF Remember, IndexSet
<1> QED BY <1>2, <1>3, <1>4, <1>5, <1>6 DEF Appended

(* Persisting births.                                                         *)
LEMMA PersistBase ==
  ASSUME Base, NEW w \in Writers, PersistBirths(w)
  PROVE  Base'
<1>1. TypeOK /\ Nobody \notin Writers
  BY LedgerAssumption DEF Base
<1>2. /\ lock = w /\ Record(w) \in RecordSet /\ Record(w).form = "whole"
      /\ Writes(w, Record(w)) /\ index' \in IndexSet
      /\ seen' = [seen EXCEPT ![w] = seen[w] + 1] /\ seen' \in [Writers -> Nat]
      /\ appended' \subseteq RecordSet /\ lock' = Nobody
  BY AppendedFacts, Zenon DEF PersistBirths
<1>3. /\ births' = [births EXCEPT ![w] = NoBirths]
      /\ at' = [at EXCEPT ![w] = "send"]
      /\ UNCHANGED <<head, read, batch, known, pending, queued, rejected, adrift, run, backend,
                     faults, aborts, limits>>
  BY DEF PersistBirths, sdk, bounds
<1>4. TypeOK'
  <2>1. file' \in Seq(RecordSet)
    BY <1>2 DEF Writes
  <2> QED BY <1>1, <1>2, <1>3, <2>1, EmptyFacts, Zenon DEF TypeOK, IndexSet
<1>5. StageInv'
  BY <1>1, <1>2, <1>3, Zenon DEF Base, TypeOK, StageInv
<1>6. SeenInv'
  BY <1>2, <1>3, WriteSeen, Zenon
<1> QED BY <1>4, <1>5, <1>6 DEF Base

(* What the SDK takes, and what the writer remembers of it.                   *)
LEMMA SendFacts ==
  ASSUME TypeOK, NEW w \in Writers, Send(w)
  PROVE  /\ queued' = [queued EXCEPT ![w] = queued[w] \o batch[w]]
         /\ queued[w] \o batch[w] \in Seq(Rows)
         /\ Len(queued'[w]) = Len(queued[w]) + Len(batch[w])
         /\ \A k \in 1..Len(queued[w]) : queued'[w][k] = queued[w][k]
         /\ \A k \in 1..Len(batch[w]) : queued'[w][Len(queued[w]) + k] = batch[w][k]
         /\ pending' = [pending EXCEPT ![w] = pending'[w]] /\ pending'[w] \in PendingSet
         /\ \A s \in pending'[w].done :
               s \in pending[w].done \/ \E k \in 1..Len(batch[w]) :
                                           batch[w][k].op.span = s /\ batch[w][k].op.ends
         /\ \A id \in pending'[w].late :
               id \in pending[w].late \/ \E k \in 1..Len(batch[w]) :
                                            batch[w][k].op.key # NoKey /\ LateId(batch[w][k].op) = id
         /\ \A s \in Spans :
               pending'[w].versions[s] = pending[w].versions[s]
               \/ \E k \in 1..Len(batch[w]) : batch[w][k].op.span = s
                                       /\ batch[w][k].op.version = pending'[w].versions[s]
<1> DEFINE rows == batch[w]
           places == 1..Len(rows)
           ended == {rows[k].op.span : k \in {k \in places : rows[k].op.ends}}
           late == {LateId(rows[k].op) : k \in {k \in places : rows[k].op.key # NoKey}}
           versioned(s) == {k \in places : rows[k].op.span = s /\ rows[k].op.version # NoVersion}
           given(s) == [k \in versioned(s) |-> rows[k].op.version]
           newest(s) == Newest(pending[w].versions[s], given(s))
           next == [done |-> pending[w].done \cup ended, late |-> pending[w].late \cup late,
                    versions |-> [s \in Spans |-> newest(s)]]
<1>1. /\ queued \in [Writers -> Seq(Rows)] /\ rows \in Seq(Rows) /\ Len(rows) \in Nat
      /\ pending \in [Writers -> PendingSet]
  BY DEF TypeOK
<1>2. \A k \in places : /\ rows[k].op \in Operations /\ rows[k].op.span \in Spans
                        /\ rows[k].op.version \in Versions /\ LateId(rows[k].op) \in LateIds
  <2>1. \A k \in places : rows[k] \in Rows
    BY <1>1
  <2> HIDE DEF rows
  <2>2. \A k \in places : rows[k].op \in Operations
    BY <2>1 DEF Rows
  <2> QED BY <2>2, InputFacts
<1>3. queued' = [queued EXCEPT ![w] = queued[w] \o rows] /\ pending' = [pending EXCEPT ![w] = next]
  BY DEF Send
<1>4. /\ queued[w] \o rows \in Seq(Rows)
      /\ Len(queued[w] \o rows) = Len(queued[w]) + Len(rows)
      /\ \A k \in 1..Len(queued[w]) : (queued[w] \o rows)[k] = queued[w][k]
      /\ \A k \in 1..Len(rows) : (queued[w] \o rows)[Len(queued[w]) + k] = rows[k]
  <2>1. queued[w] \in Seq(Rows) /\ Len(queued[w]) \in Nat
    BY <1>1
  <2> QED BY <1>1, <2>1, ConcatProperties
<1>5. ASSUME NEW s \in Spans
      PROVE  newest(s) = pending[w].versions[s]
             \/ \E k \in places : rows[k].op.span = s /\ rows[k].op.version = newest(s)
  <2>1. DOMAIN given(s) = versioned(s) /\ versioned(s) \subseteq places
        /\ \A k \in versioned(s) : given(s)[k] = rows[k].op.version /\ rows[k].op.span = s
    OBVIOUS
  <2> HIDE DEF given, versioned
  <2>2. newest(s) = pending[w].versions[s]
        \/ \E k \in DOMAIN given(s) : newest(s) = given(s)[k]
    BY <1>1, <2>1, NewestIn
  <2> QED BY <2>1, <2>2
<1>6. next \in PendingSet
  <2>1. pending[w] \in PendingSet
    BY <1>1
  <2>2. ended \subseteq Spans /\ late \subseteq LateIds
    BY <1>2
  <2>3. \A s \in Spans : newest(s) \in Versions
    BY <1>2, <1>5, <2>1 DEF PendingSet
  <2> HIDE DEF ended, late, newest
  <2> QED BY <2>1, <2>2, <2>3 DEF PendingSet
<1>7. pending'[w] = next
  BY <1>1, <1>3, Zenon
<1>8. /\ \A s \in next.done : s \in pending[w].done \/ s \in ended
      /\ \A id \in next.late : id \in pending[w].late \/ id \in late
      /\ \A s \in Spans : next.versions[s] = newest(s)
  OBVIOUS
<1>9. /\ \A s \in ended : \E k \in places : rows[k].op.span = s /\ rows[k].op.ends
      /\ \A id \in late : \E k \in places : rows[k].op.key # NoKey /\ LateId(rows[k].op) = id
  OBVIOUS
<1>10. queued'[w] = queued[w] \o rows
  BY <1>1, <1>3, Zenon
<1>11. /\ Len(queued'[w]) = Len(queued[w]) + Len(rows)
       /\ \A k \in 1..Len(queued[w]) : queued'[w][k] = queued[w][k]
       /\ \A k \in 1..Len(rows) : queued'[w][Len(queued[w]) + k] = rows[k]
  BY <1>4, <1>10, Zenon
<1> HIDE DEF next, ended, late, newest
<1>12. pending' = [pending EXCEPT ![w] = pending'[w]] /\ pending'[w] \in PendingSet
  BY <1>3, <1>6, <1>7, Zenon
<1>13. /\ \A s \in pending'[w].done :
            s \in pending[w].done \/ \E k \in places : rows[k].op.span = s /\ rows[k].op.ends
       /\ \A id \in pending'[w].late :
            id \in pending[w].late \/ \E k \in places : rows[k].op.key # NoKey /\ LateId(rows[k].op) = id
  BY <1>7, <1>8, <1>9
<1>14. \A s \in Spans :
            pending'[w].versions[s] = pending[w].versions[s]
            \/ \E k \in places : rows[k].op.span = s /\ rows[k].op.version = pending'[w].versions[s]
  BY <1>5, <1>7, <1>8
<1> QED BY <1>3, <1>4, <1>11, <1>12, <1>13, <1>14, Zenon

(* Sending a batch.                                                           *)
LEMMA SendBase ==
  ASSUME Base, NEW w \in Writers, Send(w)
  PROVE  Base'
<1>1. TypeOK /\ Nobody \notin Writers
  BY LedgerAssumption DEF Base
<1>2. /\ queued' = [queued EXCEPT ![w] = queued[w] \o batch[w]]
      /\ queued[w] \o batch[w] \in Seq(Rows)
      /\ pending' = [pending EXCEPT ![w] = pending'[w]] /\ pending'[w] \in PendingSet
  BY <1>1, SendFacts, Zenon
<1>3. /\ at[w] = "send"
      /\ batch' = [batch EXCEPT ![w] = <<>>]
      /\ \/ at' = [at EXCEPT ![w] = "idle"]
         \/ at' = [at EXCEPT ![w] = "flush"]
      /\ UNCHANGED <<file, index, head, lock, read, births, seen, known, rejected, adrift,
                     run, backend, appended, faults, aborts, limits>>
  BY Zenon DEF Send, disk, bounds
<1>4. TypeOK'
  <2>1. queued' \in [Writers -> Seq(Rows)] /\ pending' \in [Writers -> PendingSet]
    BY <1>1, <1>2, Zenon DEF TypeOK
  <2>2. batch' \in [Writers -> Seq(Rows)]
    BY <1>1, <1>3, EmptySeq DEF TypeOK
  <2>t. at \in [Writers -> {"closed", "idle", "persist", "send", "flush", "commit",
                            "record", "ack", "finished"}]
    BY <1>1 DEF TypeOK
  <2>3. at' \in [Writers -> {"closed", "idle", "persist", "send", "flush", "commit",
                             "record", "ack", "finished"}]
    BY <1>3, <2>t
  <2> QED BY <1>1, <1>3, <2>1, <2>2, <2>3, Zenon DEF TypeOK
<1>5. StageInv'
  <2>1. ASSUME NEW v \in Writers
        PROVE  /\ at'[v] \in {"persist", "record"} <=> lock' = v
               /\ at'[v] \notin {"persist", "send"} => batch'[v] = <<>>
               /\ at'[v] = "closed" => read'[v] = head'[v]
    BY <1>1, <1>3, Zenon DEF Base, TypeOK, StageInv
  <2> QED BY <1>3, <2>1 DEF Base, StageInv
<1>6. SeenInv'
  BY <1>3 DEF Base, SeenInv
<1> QED BY <1>4, <1>5, <1>6 DEF Base

(* Asking for a flush, and the flush itself.                                  *)
LEMMA FlushBase ==
  ASSUME Base, NEW w \in Writers, RequestFlush(w) \/ Flush(w)
  PROVE  Base'
<1>1. /\ at[w] \in {"idle", "flush"}
      /\ \/ at' = [at EXCEPT ![w] = "flush"]
         \/ at' = [at EXCEPT ![w] = "commit"]
      /\ UNCHANGED <<file, index, head, lock, read, batch, births, seen, known, pending, queued,
                     rejected, adrift, run, backend, appended, faults, aborts, limits>>
  BY DEF RequestFlush, Flush, disk, sink, sdk, bounds
<1>2. TypeOK'
  BY <1>1, Zenon DEF Base, TypeOK
<1>3. StageInv'
  BY <1>1, Zenon DEF Base, TypeOK, StageInv
<1>4. SeenInv'
  BY <1>1 DEF Base, SeenInv
<1> QED BY <1>2, <1>3, <1>4 DEF Base

(* What a commit leaves to record.                                            *)
Left(w) == [done |-> pending[w].done \ Refreshed(w).done,
            late |-> pending[w].late \ Refreshed(w).late,
            versions |-> pending[w].versions]

(* What a commit finds left to record.                                        *)
LEMMA CommitFacts ==
  ASSUME TypeOK, NEW w \in Writers, Commit(w)
  PROVE  /\ at[w] = "commit" /\ lock = Nobody /\ Readable(w)
         /\ index' = Refreshed(w) /\ seen' = [seen EXCEPT ![w] = Through(w)]
         /\ known' = [known EXCEPT ![w] = KnownAfter(w)]
         /\ births' \in [Writers -> [Spans -> Origins]]
         /\ pending' = [pending EXCEPT ![w] = Left(w)] /\ Left(w) \in PendingSet
         /\ \/ at' = [at EXCEPT ![w] = "ack"] /\ lock' = Nobody
            \/ at' = [at EXCEPT ![w] = "record"] /\ lock' = w
         /\ UNCHANGED <<file, head, read, batch, queued, rejected, adrift, run, backend, appended,
                        faults, aborts, limits>>
<1>1. births' = [births EXCEPT ![w] =
         [s \in Spans |-> IF \E n \in Unread(w) : file[n].origins[s] # NoOrigin
                          THEN NoOrigin ELSE births[w][s]]]
  BY DEF Commit
<1>2. births' \in [Writers -> [Spans -> Origins]]
  BY <1>1, EmptyFacts DEF TypeOK
<1>3. Left(w) \in PendingSet
  <2>1. pending[w] \in PendingSet
    BY DEF TypeOK
  <2> QED BY <2>1 DEF Left, PendingSet
<1>4. /\ at[w] = "commit" /\ lock = Nobody /\ Readable(w)
      /\ index' = Refreshed(w) /\ seen' = [seen EXCEPT ![w] = Through(w)]
      /\ known' = [known EXCEPT ![w] = KnownAfter(w)]
      /\ pending' = [pending EXCEPT ![w] = Left(w)]
      /\ at' = [at EXCEPT ![w] = IF Left(w) = Nothing THEN "ack" ELSE "record"]
      /\ lock' = IF Left(w) = Nothing THEN Nobody ELSE w
      /\ UNCHANGED <<file, head, read, batch, queued, rejected, adrift, run, backend, appended,
                     faults, aborts, limits>>
  BY DEF Commit, Left, sdk, bounds
<1> HIDE DEF Left, Refreshed
<1>5. \/ at' = [at EXCEPT ![w] = "ack"] /\ lock' = Nobody
      \/ at' = [at EXCEPT ![w] = "record"] /\ lock' = w
  BY <1>4, Zenon
<1> QED BY <1>2, <1>3, <1>4, <1>5

(* The commit itself.                                                         *)
LEMMA CommitBase ==
  ASSUME Base, NEW w \in Writers, Commit(w)
  PROVE  Base'
<1>1. TypeOK /\ Nobody \notin Writers
  BY LedgerAssumption DEF Base
<1>2. /\ at[w] = "commit" /\ lock = Nobody /\ Readable(w)
      /\ index' = Refreshed(w) /\ seen' = [seen EXCEPT ![w] = Through(w)]
      /\ known' = [known EXCEPT ![w] = KnownAfter(w)]
      /\ births' \in [Writers -> [Spans -> Origins]]
      /\ pending' = [pending EXCEPT ![w] = Left(w)] /\ Left(w) \in PendingSet
      /\ \/ at' = [at EXCEPT ![w] = "ack"] /\ lock' = Nobody
         \/ at' = [at EXCEPT ![w] = "record"] /\ lock' = w
      /\ UNCHANGED <<file, head, read, batch, queued, rejected, adrift, run, backend, appended,
                     faults, aborts, limits>>
  BY <1>1, CommitFacts
<1>3. Refreshed(w) \in IndexSet /\ KnownAfter(w) \in [Spans -> Versions] /\ Through(w) \in Nat
  BY <1>1, RefreshFacts, ThroughFacts
<1>4. TypeOK'
  <2>1. seen' \in [Writers -> Nat] /\ known' \in [Writers -> [Spans -> Versions]]
        /\ pending' \in [Writers -> PendingSet] /\ index' \in IndexSet
    BY <1>1, <1>2, <1>3 DEF TypeOK
  <2>2. at' \in [Writers -> {"closed", "idle", "persist", "send", "flush", "commit",
                             "record", "ack", "finished"}] /\ lock' \in Writers \cup {Nobody}
    BY <1>1, <1>2, Zenon DEF TypeOK
  <2> QED BY <1>1, <1>2, <2>1, <2>2, Zenon DEF TypeOK, IndexSet
<1>5. StageInv'
  <2>1. ASSUME NEW v \in Writers
        PROVE  /\ at'[v] \in {"persist", "record"} <=> lock' = v
               /\ at'[v] \notin {"persist", "send"} => batch'[v] = <<>>
               /\ at'[v] = "closed" => read'[v] = head'[v]
    BY <1>1, <1>2 DEF Base, TypeOK, StageInv
  <2> QED BY <1>2, <2>1 DEF Base, StageInv
<1>6. SeenInv'
  BY <1>2, RefreshSeen, Zenon
<1> QED BY <1>4, <1>5, <1>6 DEF Base

(* Recording what was delivered.                                              *)
LEMMA RecordBase ==
  ASSUME Base, NEW w \in Writers, RecordDelivered(w)
  PROVE  Base'
<1>1. TypeOK /\ Nobody \notin Writers
  BY LedgerAssumption DEF Base
<1>2. /\ lock = w /\ Record(w) \in RecordSet /\ Record(w).form = "whole"
      /\ Writes(w, Record(w)) /\ index' \in IndexSet
      /\ seen' = [seen EXCEPT ![w] = seen[w] + 1] /\ seen' \in [Writers -> Nat]
      /\ appended' \subseteq RecordSet /\ lock' = Nobody
  BY AppendedFacts, Zenon DEF RecordDelivered
<1>3. /\ at[w] = "record"
      /\ known' = [known EXCEPT ![w] = Merged(known[w], pending[w].versions)]
      /\ pending' = [pending EXCEPT ![w] = Nothing]
      /\ at' = [at EXCEPT ![w] = "ack"]
      /\ UNCHANGED <<head, read, batch, births, queued, rejected, adrift, run, backend,
                     faults, aborts, limits>>
  BY DEF RecordDelivered, sdk, bounds
<1>4. TypeOK'
  <2>1. file' \in Seq(RecordSet)
    BY <1>2 DEF Writes
  <2>2. Merged(known[w], pending[w].versions) \in [Spans -> Versions]
    <3>1. known[w] \in [Spans -> Versions] /\ pending[w].versions \in [Spans -> Versions]
      BY <1>1, Zenon DEF TypeOK, PendingSet
    <3> QED BY <3>1, MergedIn
  <2>3. known' \in [Writers -> [Spans -> Versions]] /\ pending' \in [Writers -> PendingSet]
    BY <1>1, <1>3, <2>2, EmptyFacts DEF TypeOK
  <2> QED BY <1>1, <1>2, <1>3, <2>1, <2>3, Zenon DEF TypeOK, IndexSet
<1>5. StageInv'
  BY <1>1, <1>2, <1>3, Zenon DEF Base, TypeOK, StageInv
<1>6. SeenInv'
  BY <1>2, <1>3, WriteSeen, Zenon
<1> QED BY <1>4, <1>5, <1>6 DEF Base

(* Acknowledging it.                                                          *)
LEMMA AcknowledgeBase ==
  ASSUME Base, NEW w \in Writers, Acknowledge(w)
  PROVE  Base'
<1>1. /\ at[w] = "ack"
      /\ head' = IF w \in Routes THEN [head EXCEPT ![w] = read[w]] ELSE head
      /\ \/ at' = [at EXCEPT ![w] = "idle"]
         \/ at' = [at EXCEPT ![w] = "finished"]
      /\ UNCHANGED <<file, index, lock, read, batch, births, seen, known, pending, queued,
                     rejected, adrift, run, backend, appended, faults, aborts, limits>>
  BY Zenon DEF Acknowledge, disk, sink, sdk, bounds
<1>2. TypeOK'
  <2>1. head' \in [Writers -> Nat]
    BY <1>1 DEF Base, TypeOK
  <2> QED BY <1>1, <2>1, Zenon DEF Base, TypeOK
<1>3. StageInv'
  <2>1. \A v \in Writers : head'[v] = head[v] \/ head'[v] = read[v]
    BY <1>1 DEF Base, TypeOK
  <2>2. \A v \in Writers : head[v] \in Nat /\ read[v] \in Nat
    BY DEF Base, TypeOK
  <2> QED BY <1>1, <2>1, <2>2, SMTT(25) DEF Base, TypeOK, StageInv
<1>4. SeenInv'
  BY <1>1 DEF Base, SeenInv
<1> QED BY <1>2, <1>3, <1>4 DEF Base

(* Uploads, and rejected rows.                                                *)
LEMMA UploadBase ==
  ASSUME Base, NEW w \in Writers, Upload(w) \/ Reject(w)
  PROVE  Base'
<1>1. TypeOK
  BY DEF Base
<1>2. /\ queued[w] # <<>> /\ queued' = [queued EXCEPT ![w] = Tail(queued[w])]
      /\ UNCHANGED <<file, index, head, at, lock, read, batch, births, seen, known, pending,
                     adrift, run, appended, aborts, limits>>
      /\ \/ backend' = backend /\ rejected' = [rejected EXCEPT ![w] = TRUE] /\ faults' = faults + 1
         \/ /\ Upload(w) /\ rejected' = rejected /\ faults' = faults
  BY DEF Upload, Reject, Fault, disk, sink, bounds
<1>3. queued' \in [Writers -> Seq(Rows)] /\ rejected' \in [Writers -> BOOLEAN]
  <2>1. queued[w] \in Seq(Rows)
    BY <1>1 DEF TypeOK
  <2>2. Tail(queued[w]) \in Seq(Rows)
    BY <1>2, <2>1
  <2> QED BY <1>1, <1>2, <2>2, Zenon DEF TypeOK
<1>4. backend' \in [rows : SUBSET Operations, stamps : [Spans -> SUBSET Origins],
                    done : SUBSET Spans, late : SUBSET LateIds,
                    version : [Spans -> Versions]]
  <2>1. CASE backend' = backend
    BY <1>1, <2>1, Zenon DEF TypeOK
  <2>2. CASE Upload(w)
    <3> DEFINE row == Head(queued[w])
    <3>1. row \in Rows
      <4>1. queued[w] \in Seq(Rows) /\ queued[w] # <<>>
        BY <1>1, <1>2 DEF TypeOK
      <4> QED BY <4>1
    <3>2. /\ row.op \in Operations /\ row.origin \in Origins /\ row.op.span \in Spans
          /\ row.op.version \in Versions /\ LateId(row.op) \in LateIds
      BY <3>1, InputFacts DEF Rows
    <3>3. backend' = [backend EXCEPT
             !.rows = backend.rows \cup {row.op},
             !.stamps[row.op.span] = backend.stamps[row.op.span] \cup {row.origin},
             !.done = IF row.op.ends THEN backend.done \cup {row.op.span} ELSE backend.done,
             !.late = IF row.op.key = NoKey THEN backend.late
                      ELSE backend.late \cup {LateId(row.op)},
             !.version[row.op.span] = IF row.op.version = NoVersion
                                      THEN backend.version[row.op.span] ELSE row.op.version]
      BY <2>2 DEF Upload
    <3> HIDE DEF row
    <3>4. backend \in [rows : SUBSET Operations, stamps : [Spans -> SUBSET Origins],
                       done : SUBSET Spans, late : SUBSET LateIds,
                       version : [Spans -> Versions]]
      BY <1>1, Zenon DEF TypeOK
    <3> QED BY <3>2, <3>3, <3>4, ZenonT(40)
  <2> QED BY <1>2, <2>1, <2>2
<1>5. TypeOK'
  <2>1. faults' \in Nat
    BY <1>1, <1>2 DEF TypeOK
  <2> QED BY <1>1, <1>2, <1>3, <1>4, <2>1, Zenon DEF TypeOK
<1>6. StageInv' /\ SeenInv'
  BY <1>2 DEF Base, StageInv, SeenInv
<1> QED BY <1>5, <1>6 DEF Base

(* A sink that is lost leaves types and stages as they should be.             *)
LEMMA LoseBase ==
  ASSUME Base, NEW w \in Writers, Lose(w), head' = head, file' \in Seq(RecordSet),
         index' = index, backend' = backend, appended' = appended, limits' = limits,
         adrift' \in [Writers -> {<<>>} \cup (Nat \X RecordSet)],
         faults' \in Nat, aborts' \in Nat
  PROVE  TypeOK' /\ StageInv'
<1>1. TypeOK /\ Nobody \notin Writers
  BY LedgerAssumption DEF Base
<1>2. /\ at' = [at EXCEPT ![w] = "closed"]
      /\ lock' = (IF lock = w THEN Nobody ELSE lock)
      /\ read' = [read EXCEPT ![w] = head[w]]
      /\ batch' = [batch EXCEPT ![w] = <<>>] /\ batch' \in [Writers -> Seq(Rows)]
      /\ births' \in [Writers -> [Spans -> Origins]]
      /\ seen' = [seen EXCEPT ![w] = 0]
      /\ known' \in [Writers -> [Spans -> Versions]]
      /\ pending' \in [Writers -> PendingSet]
      /\ queued' \in [Writers -> Seq(Rows)]
      /\ rejected' = [rejected EXCEPT ![w] = FALSE]
      /\ run' \in [Writers -> Nat]
  BY LoseFacts
<1>3. TypeOK'
  <2>1. /\ at' \in [Writers -> {"closed", "idle", "persist", "send", "flush", "commit",
                                "record", "ack", "finished"}]
        /\ lock' \in Writers \cup {Nobody}
        /\ read' \in [Writers -> Nat] /\ seen' \in [Writers -> Nat]
        /\ rejected' \in [Writers -> BOOLEAN]
    BY <1>1, <1>2, Zenon DEF TypeOK
  <2> QED BY <1>1, <1>2, <2>1, Zenon DEF TypeOK
<1>4. StageInv'
  <2>1. \A v \in Writers : head[v] \in Nat /\ read[v] \in Nat
    BY <1>1 DEF TypeOK
  <2>2. ASSUME NEW v \in Writers
        PROVE  /\ at'[v] \in {"persist", "record"} <=> lock' = v
               /\ at'[v] \notin {"persist", "send"} => batch'[v] = <<>>
               /\ at'[v] = "closed" => read'[v] = head'[v]
    BY <1>1, <1>2, Zenon DEF Base, TypeOK, StageInv
  <2>3. ASSUME NEW v \in Writers
        PROVE  head[v] <= read'[v] /\ read'[v] <= Len(Input[v])
    <3>1. read'[v] = IF v = w THEN head[w] ELSE read[v]
      BY <1>1, <1>2 DEF TypeOK
    <3>2. head[v] <= read[v] /\ read[v] <= Len(Input[v])
      BY DEF Base, StageInv
    <3> QED BY <2>1, <3>1, <3>2, InputFacts
  <2> QED BY <2>2, <2>3 DEF StageInv
<1> QED BY <1>3, <1>4

(* The sink that is lost holds nothing of the file.                           *)
LEMMA LoseSeen ==
  ASSUME Base, NEW w \in Writers, Lose(w), file' = file,
         \A v \in Writers : adrift'[v] # <<>> => adrift'[v][2].form = "whole"
  PROVE  SeenInv'
<1>1. seen \in [Writers -> Nat] /\ Nobody \notin Writers /\ SeenInv
  BY LedgerAssumption DEF Base, TypeOK
<1>2. seen' = [seen EXCEPT ![w] = 0] /\ lock' = (IF lock = w THEN Nobody ELSE lock)
  BY LoseFacts
<1>3. \A v \in Writers : seen'[v] = IF v = w THEN 0 ELSE seen[v]
  BY <1>1, <1>2
<1>4. \A v \in Writers : seen[v] \in Nat /\ seen[v] <= Len(file)
                         /\ \A n \in 1..seen[v] : file[n].form # "torn"
  BY <1>1 DEF SeenInv
<1>5. \A v \in Writers : seen'[v] <= Len(file) /\ \A n \in 1..seen'[v] : file[n].form # "torn"
  <2>1. Len(file) \in Nat
    BY DEF Base, TypeOK
  <2> QED BY <1>3, <1>4, <2>1
<1>6. ASSUME NEW u \in Writers, lock' = u, NEW v \in Writers PROVE seen'[v] <= seen'[u]
  <2>1. lock = u /\ u # w
    BY <1>1, <1>2, <1>6
  <2>2. seen[v] <= seen[u]
    BY <1>1, <2>1 DEF SeenInv
  <2> QED BY <1>3, <1>4, <2>1, <2>2
<1> QED BY <1>5, <1>6 DEF SeenInv

(* Losing a sink to a rejected row or to a restart.                           *)
LEMMA RestartBase ==
  ASSUME Base, NEW w \in Writers, Resubmit(w) \/ Restart(w)
  PROVE  Base'
<1>1. TypeOK /\ SeenInv
  BY DEF Base
<1>2. /\ Lose(w) /\ faults' \in Nat
      /\ UNCHANGED <<file, index, head, adrift, backend, appended, aborts, limits>>
  BY <1>1 DEF Resubmit, Restart, Fault, disk, bounds, TypeOK
<1>3. TypeOK' /\ StageInv'
  <2>1. /\ file' \in Seq(RecordSet) /\ aborts' \in Nat
        /\ adrift' \in [Writers -> {<<>>} \cup (Nat \X RecordSet)]
    BY <1>1, <1>2 DEF TypeOK
  <2> QED BY <1>2, <2>1, LoseBase
<1>4. SeenInv'
  <2>1. \A v \in Writers : adrift'[v] # <<>> => adrift'[v][2].form = "whole"
    BY <1>1, <1>2 DEF SeenInv
  <2> QED BY <1>2, <2>1, LoseSeen
<1> QED BY <1>3, <1>4 DEF Base

(* Losing it to an abort.                                                     *)
LEMMA AbortBase ==
  ASSUME Base, NEW w \in Writers, Abort(w)
  PROVE  Base'
<1>1. TypeOK /\ SeenInv
  BY DEF Base
<1>2. /\ Lose(w) /\ aborts' = aborts + 1
      /\ adrift' = [adrift EXCEPT ![w] = <<seen[w], Record(w)>>]
      /\ UNCHANGED <<file, index, head, backend, appended, faults, limits>>
  BY DEF Abort, disk
<1>3. Record(w) \in RecordSet /\ Record(w).form = "whole"
  BY <1>1, RecordFacts
<1> HIDE DEF Record
<1>4. /\ adrift' \in [Writers -> {<<>>} \cup (Nat \X RecordSet)]
      /\ \A v \in Writers : adrift'[v] # <<>> => adrift'[v][2].form = "whole"
  <2>1. adrift \in [Writers -> {<<>>} \cup (Nat \X RecordSet)] /\ seen[w] \in Nat
    BY <1>1 DEF TypeOK
  <2> QED BY <1>1, <1>2, <1>3, <2>1 DEF SeenInv
<1>5. TypeOK' /\ StageInv'
  <2>1. file' \in Seq(RecordSet) /\ aborts' \in Nat /\ faults' \in Nat
    BY <1>1, <1>2 DEF TypeOK
  <2> QED BY <1>2, <1>4, <2>1, LoseBase
<1>6. SeenInv'
  BY <1>2, <1>4, LoseSeen
<1> QED BY <1>5, <1>6 DEF Base

(* A failed append leaves an incomplete line, or the record.                  *)
LEMMA FailFacts ==
  ASSUME Base, NEW w \in Writers, AppendFails(w)
  PROVE  /\ at[w] \in {"persist", "record"} /\ lock = w
         /\ \E written \in {Torn, Record(w)} :
               written \in RecordSet /\ Writes(w, written)
         /\ \/ /\ at[w] = "record" /\ w \in Routes
               /\ at' = [at EXCEPT ![w] = "flush"] /\ lock' = Nobody
               /\ UNCHANGED <<read, batch, births, seen, known, pending, queued, rejected, run>>
            \/ Lose(w)
         /\ UNCHANGED <<index, head, adrift, backend, appended, aborts, limits>>
         /\ faults' = faults + 1
<1>1. at[w] \in {"persist", "record"} /\ lock = w
  BY DEF AppendFails, Base, StageInv
<1>2. PICK written \in {Torn, Record(w)} : file' = Append(SubSeq(file, 1, seen[w]), written)
  BY Zenon DEF AppendFails
<1>3. written \in RecordSet
  <2>1. Record(w) \in RecordSet
    BY RecordFacts DEF Base
  <2> QED BY <1>2, <2>1, EmptyFacts
<1>4. Writes(w, written)
  BY <1>2, <1>3, WriteFacts, Zenon
<1>5. /\ \/ /\ at[w] = "record" /\ w \in Routes
            /\ at' = [at EXCEPT ![w] = "flush"] /\ lock' = Nobody
            /\ UNCHANGED <<read, batch, births, seen, known, pending, queued, rejected, run>>
         \/ Lose(w)
      /\ UNCHANGED <<index, head, adrift, backend, appended, aborts, limits>>
      /\ faults' = faults + 1
  <2> HIDE DEF Lose, Record
  <2> QED BY Zenon DEF AppendFails, Fault, sink, sdk
<1> QED BY <1>1, <1>2, <1>3, <1>4, <1>5

(* Failing to append.                                                         *)
LEMMA FailBase ==
  ASSUME Base, NEW w \in Writers, AppendFails(w)
  PROVE  Base'
<1>1. TypeOK /\ Nobody \notin Writers
  BY LedgerAssumption DEF Base
<1>2. PICK written \in {Torn, Record(w)} : written \in RecordSet /\ Writes(w, written)
  BY FailFacts
<1>3. /\ lock = w
      /\ UNCHANGED <<index, head, adrift, backend, appended, aborts, limits>>
      /\ file' \in Seq(RecordSet) /\ faults' \in Nat /\ aborts' \in Nat
      /\ adrift' \in [Writers -> {<<>>} \cup (Nat \X RecordSet)]
  <2>1. file' \in Seq(RecordSet)
    BY <1>2 DEF Writes
  <2>2. /\ lock = w /\ faults' = faults + 1
        /\ UNCHANGED <<index, head, adrift, backend, appended, aborts, limits>>
    BY FailFacts
  <2> QED BY <1>1, <2>1, <2>2 DEF TypeOK
<1>4. CASE Lose(w)
  <2>1. TypeOK' /\ StageInv'
    BY <1>3, <1>4, LoseBase
  <2>2. seen' = [seen EXCEPT ![w] = 0] /\ lock' = Nobody
    BY <1>3, <1>4, LoseFacts
  <2>3. SeenInv'
    BY <1>2, <1>3, <2>2, WriteSeen, Zenon
  <2> QED BY <2>1, <2>3 DEF Base
<1>5. CASE /\ at[w] = "record"
           /\ at' = [at EXCEPT ![w] = "flush"] /\ lock' = Nobody
           /\ UNCHANGED <<read, batch, births, seen, known, pending, queued, rejected, run>>
  <2>1. TypeOK'
    BY <1>1, <1>3, <1>5, Zenon DEF TypeOK
  <2>2. StageInv'
    BY <1>1, <1>3, <1>5, Zenon DEF Base, TypeOK, StageInv
  <2>3. SeenInv'
    BY <1>2, <1>3, <1>5, WriteSeen
  <2> QED BY <2>1, <2>2, <2>3 DEF Base
<1> QED BY <1>4, <1>5, FailFacts

(* A write that outlives its task.                                            *)
LEMMA LateWriteBase ==
  ASSUME Base, NEW w \in Writers, LateWrite(w)
  PROVE  Base'
<1>1. TypeOK /\ SeenInv
  BY DEF Base
<1> DEFINE place == adrift[w][1] + 1
<1>2. /\ adrift[w] # <<>> /\ adrift' = [adrift EXCEPT ![w] = <<>>]
      /\ \/ file' = Append(file, adrift[w][2])
         \/ ~(Len(file) < place)
            /\ \E line \in {adrift[w][2], Garbled} : file' = [file EXCEPT ![place] = line]
      /\ UNCHANGED <<index, head, at, lock, read, batch, births, seen, known, pending, queued,
                     rejected, run, backend, appended, faults, aborts, limits>>
  BY DEF LateWrite, sink, sdk, bounds
<1>3. adrift[w][2] \in RecordSet /\ adrift[w][2].form = "whole" /\ place \in Nat /\ 1 <= place
  <2>1. adrift[w] \in Nat \X RecordSet
    BY <1>1, <1>2 DEF TypeOK
  <2> QED BY <1>1, <1>2, <2>1 DEF SeenInv
<1>4. /\ file' \in Seq(RecordSet) /\ Len(file) <= Len(file')
      /\ \A n \in 1..Len(file) : file[n].form # "torn" => file'[n].form # "torn"
  <2>1. file \in Seq(RecordSet) /\ Len(file) \in Nat
    BY <1>1 DEF TypeOK
  <2>2. CASE file' = Append(file, adrift[w][2])
    <3> DEFINE record == adrift[w][2]
    <3> HIDE DEF record
    <3>1. record \in RecordSet /\ file' = Append(file, record)
      BY <1>3, <2>2 DEF record
    <3>2. Append(file, record) \in Seq(RecordSet) /\ Len(Append(file, record)) = Len(file) + 1
          /\ \A n \in 1..Len(file) : Append(file, record)[n] = file[n]
      BY <2>1, <3>1, AppendProperties
    <3> QED BY <2>1, <3>1, <3>2
  <2>3. ASSUME ~(Len(file) < place), NEW line \in {adrift[w][2], Garbled}, file' = [file EXCEPT ![place] = line]
        PROVE  /\ file' \in Seq(RecordSet) /\ Len(file) <= Len(file')
               /\ \A n \in 1..Len(file) : file[n].form # "torn" => file'[n].form # "torn"
    <3>1. line \in RecordSet /\ line.form # "torn"
      BY <1>3, EmptyFacts DEF Garbled, Torn
    <3> HIDE DEF place
    <3>p. place \in 1..Len(file)
      BY <1>3, <2>1, <2>3
    <3>2. file' \in Seq(RecordSet) /\ Len(file') = Len(file)
          /\ \A n \in 1..Len(file) : file'[n] = IF n = place THEN line ELSE file[n]
      BY <2>1, <2>3, <3>1, <3>p, ExceptSeq
    <3> QED BY <2>1, <3>1, <3>2
  <2> QED BY <1>2, <2>2, <2>3
<1>5. TypeOK'
  BY <1>1, <1>2, <1>4, Zenon DEF TypeOK
<1>6. StageInv'
  BY <1>2 DEF Base, StageInv
<1>7. SeenInv'
  <2>1. ASSUME NEW v \in Writers
        PROVE  seen[v] <= Len(file') /\ \A n \in 1..seen[v] : file'[n].form # "torn"
    <3>1. seen[v] \in Nat /\ Len(file) \in Nat /\ Len(file') \in Nat /\ seen[v] <= Len(file)
          /\ \A n \in 1..seen[v] : file[n].form # "torn"
      BY <1>1, <1>4, SMTT(60) DEF TypeOK, SeenInv
    <3> QED BY <1>4, <3>1
  <2>2. \A v \in Writers : adrift'[v] # <<>> => adrift'[v] = adrift[v]
    BY <1>1, <1>2 DEF TypeOK
  <2> QED BY <1>1, <1>2, <2>1, <2>2 DEF SeenInv
<1> QED BY <1>5, <1>6, <1>7 DEF Base

(* At the start nothing is read, and the file holds what a released version   *)
(* of the ledger delivered.                                                   *)
LEMMA StartFacts ==
  ASSUME Init
  PROVE  \E legacy \in Legacies :
           /\ legacy \subseteq Spans
           /\ \/ legacy = {} /\ file = <<>>
              \/ /\ legacy # {} /\ Len(file) = 1 /\ file \in Seq(RecordSet)
                 /\ file[1].form = "whole" /\ file[1].origins = NoBirths
                 /\ file[1].delivered.done = legacy /\ file[1].delivered.late = {}
                 /\ file[1].delivered.versions = Nothing.versions
           /\ file \in Seq(RecordSet)
           /\ backend.rows = {} /\ backend.done = legacy /\ backend.late = {}
           /\ \A s \in Spans : backend.stamps[s] = IF s \in legacy THEN {NoOrigin} ELSE {}
           /\ backend \in [rows : SUBSET Operations, stamps : [Spans -> SUBSET Origins],
                           done : SUBSET Spans, late : SUBSET LateIds,
                           version : [Spans -> Versions]]
<1>1. PICK legacy \in Legacies :
       /\ file = IF legacy = {} THEN <<>>
                 ELSE <<Update(NoBirths, [Nothing EXCEPT !.done = legacy])>>
       /\ backend = [rows |-> {},
                     stamps |-> [s \in Spans |->
                                   IF s \in legacy THEN {NoOrigin} ELSE {}],
                     done |-> legacy, late |-> {},
                     version |-> Nothing.versions]
  BY Zenon DEF Init
<1>2. legacy \subseteq Spans
  BY LedgerAssumption
<1>3. Nothing.versions \in [Spans -> Versions] /\ NoOrigin \in Origins
  BY EmptyFacts DEF PendingSet
<1>4. legacy = {} \/ /\ legacy # {} /\ Len(file) = 1 /\ file \in Seq(RecordSet)
                     /\ file[1].form = "whole" /\ file[1].origins = NoBirths
                     /\ file[1].delivered.done = legacy /\ file[1].delivered.late = {}
                     /\ file[1].delivered.versions = Nothing.versions
  <2> DEFINE given == [Nothing EXCEPT !.done = legacy]
  <2>1. given \in PendingSet /\ given.done = legacy /\ given.late = {}
        /\ given.versions = Nothing.versions
    BY <1>2, EmptyFacts DEF Nothing, PendingSet
  <2> HIDE DEF given
  <2> DEFINE record == Update(NoBirths, given)
  <2>2. record \in RecordSet /\ record.form = "whole" /\ record.origins = NoBirths
        /\ record.delivered = given
    BY <2>1, EmptyFacts DEF Update, RecordSet
  <2>3. file = IF legacy = {} THEN <<>> ELSE <<record>>
    BY <1>1 DEF given
  <2> HIDE DEF record
  <2> QED BY <2>1, <2>2, <2>3
<1>5. file \in Seq(RecordSet)
  BY <1>1, <1>4, EmptySeq
<1>6. /\ backend.rows = {} /\ backend.done = legacy /\ backend.late = {}
      /\ \A s \in Spans : backend.stamps[s] = IF s \in legacy THEN {NoOrigin} ELSE {}
  BY <1>1
<1>7. backend \in [rows : SUBSET Operations, stamps : [Spans -> SUBSET Origins],
                   done : SUBSET Spans, late : SUBSET LateIds,
                   version : [Spans -> Versions]]
  BY <1>1, <1>2, <1>3
<1> QED BY <1>1, <1>2, <1>4, <1>5, <1>6, <1>7

(* The invariant holds at the start,                                          *)
LEMMA BaseInit == ASSUME Init PROVE Base
<1>1. file \in Seq(RecordSet)
      /\ backend \in [rows : SUBSET Operations, stamps : [Spans -> SUBSET Origins],
                      done : SUBSET Spans, late : SUBSET LateIds,
                      version : [Spans -> Versions]]
  BY StartFacts
<1>2. TypeOK
  <2>1. Nothing.versions \in [Spans -> Versions] /\ <<>> \in Seq(Rows)
    BY EmptyFacts, EmptySeq DEF PendingSet
  <2> QED BY <1>1, <2>1, EmptyFacts DEF Init, TypeOK, NoIndex
<1>3. StageInv
  BY InputFacts, LedgerAssumption DEF Init, StageInv
<1>4. SeenInv
  <2>1. Len(file) \in Nat
    BY <1>1
  <2> QED BY <2>1, LedgerAssumption DEF Init, SeenInv
<1> QED BY <1>2, <1>3, <1>4 DEF Base

(* and every step keeps it.                                                   *)
LEMMA BaseStep == ASSUME Base, [Next]_vars PROVE Base'
<1>1. CASE UNCHANGED vars
  BY <1>1 DEF Base, TypeOK, StageInv, SeenInv, vars, disk, sink, sdk, bounds
<1>2. ASSUME NEW w \in Writers, Work(w) \/ Upload(w) \/ LateWrite(w)
      PROVE  Base'
  BY <1>2, OpenBase, SelectBase, PersistBase, SendBase, FlushBase, CommitBase, RecordBase,
     AcknowledgeBase, RestartBase, UploadBase, LateWriteBase DEF Work
<1>3. ASSUME NEW w \in Writers, Reject(w) \/ Restart(w) \/ AppendFails(w) \/ Abort(w)
      PROVE  Base'
  BY <1>3, UploadBase, RestartBase, FailBase, AbortBase
<1> QED BY <1>1, <1>2, <1>3 DEF Next

(* Types, and who may append: in every reachable state the holder of the lock *)
(* is the one writer in the middle of an append and has read all that any     *)
(* other has (DeliveryLedger::lock, refresh, append).                         *)
THEOREM StagesAreInvariant == Spec => []Base
<1>1. Init => Base
  BY BaseInit
<1>2. Base /\ [Next]_vars => Base'
  BY BaseStep
<1> QED BY <1>1, <1>2, PTL DEF Spec
------------------------------------------------------------------------------
(* Provenance: while no sink was aborted.                                     *)

(* The file is whole records with at most one incomplete line behind them;    *)
(* who appends has read all of them.                                          *)
Whole == {n \in 1..Len(file) : file[n].form = "whole"}
FileInv ==
    /\ \A w \in Writers : adrift[w] = <<>>
    /\ \A n \in 1..Len(file) : \/ file[n].form = "whole"
                               \/ file[n].form = "torn" /\ n = Len(file)
    /\ \A w \in Writers :
          /\ 1..seen[w] \subseteq Whole
          /\ at[w] \in {"persist", "record"} => Whole = 1..seen[w]
    /\ appended \subseteq {file[n] : n \in Whole}

(* The index says of spans what the file says, and all that any writer has    *)
(* read of it.                                                                *)
FileDone == UNION {file[n].delivered.done : n \in Whole}
Origin == [s \in Spans |-> FirstOrigin(s, Whole)]
IndexInv ==
    /\ index.done \subseteq FileDone
    /\ \A s \in Spans : index.origins[s] \in {NoOrigin, Origin[s]}
    /\ \A w \in Writers : \A n \in 1..seen[w] :
          /\ file[n].delivered.done \subseteq index.done
          /\ \A s \in Spans : file[n].origins[s] # NoOrigin => index.origins[s] # NoOrigin

(* Every row carries what the file says of its span for good: its origin, or  *)
(* none for a span that was delivered without one.  The rows of a batch whose *)
(* births are being persisted are ahead of the file.                          *)
Settled(s) == Origin[s] # NoOrigin \/ s \in FileDone
Right(s, o) == IF o = NoOrigin THEN Origin[s] = NoOrigin /\ s \in FileDone ELSE o = Origin[s]

StampOf(w) ==
    /\ \A k \in 1..Len(queued[w]) : Right(queued[w][k].op.span, queued[w][k].origin)
    /\ \A k \in 1..Len(batch[w]) :
          \/ Right(batch[w][k].op.span, batch[w][k].origin)
          \/ /\ at[w] = "persist"
             /\ batch[w][k].origin = births[w][batch[w][k].op.span]
             /\ batch[w][k].origin # NoOrigin
             /\ Origin[batch[w][k].op.span] = NoOrigin
    /\ at[w] = "persist" => \A s \in FileDone : births[w][s] = NoOrigin
    /\ \A s \in pending[w].done : Settled(s)
    /\ \A k \in 1..read[w] :
          Input[w][k].insert => \/ Settled(Input[w][k].span)
                                \/ /\ at[w] = "persist" /\ k > head[w]
                                   /\ births[w][Input[w][k].span] # NoOrigin
StampInv ==
    /\ \A s \in Spans : \A o \in backend.stamps[s] : Right(s, o)
    /\ \A w \in Writers : StampOf(w)

(* A sink that is closed has read nothing.                                    *)
ClosedInv == \A w \in Writers : at[w] = "closed" => seen[w] = 0

Prov == FileInv /\ IndexInv /\ StampInv
ProvenanceInv == ClosedInv /\ (aborts = 0 => Prov)

(* A closed sink has read nothing: every step keeps that.                     *)
LEMMA ClosedStep == ASSUME Base, ClosedInv, [Next]_vars PROVE ClosedInv'
<1>1. TypeOK
  BY DEF Base
<1>2. ASSUME at' = at, seen' = seen PROVE ClosedInv'
  BY <1>2 DEF ClosedInv
<1>3. ASSUME NEW w \in Writers, NEW stage, stage # "closed", at' = [at EXCEPT ![w] = stage],
             \A v \in Writers : v # w => seen'[v] = seen[v]
      PROVE  ClosedInv'
  BY <1>1, <1>3, Zenon DEF ClosedInv, TypeOK
<1>4. ASSUME NEW w \in Writers, Lose(w)
      PROVE  ClosedInv'
  <2>1. at' = [at EXCEPT ![w] = "closed"] /\ seen' = [seen EXCEPT ![w] = 0]
    BY <1>4 DEF Lose
  <2> QED BY <1>1, <2>1 DEF ClosedInv, TypeOK
<1>5. CASE UNCHANGED vars
  BY <1>2, <1>5 DEF vars, sink
<1>6. ASSUME NEW w \in Writers, Work(w)
      PROVE  ClosedInv'
  <2>1. ASSUME Open(w) \/ Commit(w) PROVE ClosedInv'
    <3>1. \E stage \in {"idle", "ack", "record"} : at' = [at EXCEPT ![w] = stage]
      BY <2>1 DEF Open, Commit
    <3>2. seen' = [seen EXCEPT ![w] = Through(w)]
      BY <2>1 DEF Open, Commit
    <3> QED BY <1>1, <1>3, <3>1, <3>2, Zenon DEF TypeOK
  <2>2. CASE Select(w)
    <3>1. seen' = [seen EXCEPT ![w] = Through(w)]
      BY <2>2 DEF Select
    <3>2. PICK n \in 1..MaxBatch : Selects(w, n)
      BY <1>1, <2>2, SelectFacts
    <3>3. \E stage \in {"idle", "persist", "send", "flush"} : at' = [at EXCEPT ![w] = stage]
      <4> HIDE DEF Kept, Unborn
      <4> QED BY <3>2, Zenon DEF Selects
    <3> QED BY <1>1, <1>3, <3>1, <3>3, Zenon DEF TypeOK
  <2>3. ASSUME PersistBirths(w) \/ RecordDelivered(w) PROVE ClosedInv'
    <3>1. seen' = [seen EXCEPT ![w] = seen[w] + 1]
      BY <2>3 DEF PersistBirths, RecordDelivered, Appended
    <3>2. \E stage \in {"send", "ack"} : at' = [at EXCEPT ![w] = stage]
      BY <2>3 DEF PersistBirths, RecordDelivered
    <3> QED BY <1>1, <1>3, <3>1, <3>2, Zenon DEF TypeOK
  <2>4. ASSUME Send(w) \/ RequestFlush(w) \/ Flush(w) \/ Acknowledge(w) PROVE ClosedInv'
    <3>1. seen' = seen
      BY <2>4, Zenon DEF Send, RequestFlush, Flush, Acknowledge, sink
    <3>2. \E stage \in {"idle", "flush", "commit", "finished"} : at' = [at EXCEPT ![w] = stage]
      BY <2>4, Zenon DEF Send, RequestFlush, Flush, Acknowledge
    <3> QED BY <1>3, <3>1, <3>2, Zenon
  <2>5. CASE Resubmit(w)
    BY <1>4, <2>5 DEF Resubmit
  <2> QED BY <1>6, <2>1, <2>2, <2>3, <2>4, <2>5 DEF Work
<1>7. ASSUME NEW w \in Writers, Upload(w) \/ LateWrite(w) \/ Reject(w)
      PROVE  ClosedInv'
  BY <1>2, <1>7 DEF Upload, LateWrite, Reject, sink
<1>8. ASSUME NEW w \in Writers, Restart(w) \/ Abort(w)
      PROVE  ClosedInv'
  BY <1>4, <1>8 DEF Restart, Abort
<1>9. ASSUME NEW w \in Writers, AppendFails(w)
      PROVE  ClosedInv'
  <2>1. \/ at' = [at EXCEPT ![w] = "flush"] /\ seen' = seen
        \/ Lose(w)
    BY <1>9, FailFacts
  <2> QED BY <1>3, <1>4, <2>1
<1> QED BY <1>5, <1>6, <1>7, <1>8, <1>9 DEF Next

(* The whole records are those up to a place; a refresh reads up to it.       *)
LEMMA WholeFacts ==
  ASSUME Base, FileInv
  PROVE  \E m \in Nat : /\ Whole = 1..m /\ m <= Len(file) /\ Len(file) <= m + 1
                        /\ Len(file) = m + 1 => file[m + 1].form = "torn"
<1>1. file \in Seq(RecordSet) /\ Len(file) \in Nat
  BY DEF Base, TypeOK
<1>2. CASE \A n \in 1..Len(file) : file[n].form = "whole"
  BY <1>1, <1>2 DEF Whole
<1>3. CASE ~\A n \in 1..Len(file) : file[n].form = "whole"
  <2>1. Len(file) \in 1..Len(file) /\ file[Len(file)].form = "torn"
        /\ \A n \in 1..Len(file) : n # Len(file) => file[n].form = "whole"
    BY <1>3 DEF FileInv
  <2>2. Len(file) - 1 \in Nat
    BY <1>1, <2>1
  <2>3. Whole = 1..(Len(file) - 1)
    BY <1>1, <2>1 DEF Whole
  <2> QED BY <1>1, <2>1, <2>2, <2>3
<1> QED BY <1>2, <1>3

(* Without an abort a refresh reads the whole file, and can.                  *)
LEMMA CleanFacts ==
  ASSUME Base, FileInv, NEW w \in Writers
  PROVE  /\ Whole = 1..Through(w) /\ Readable(w)
         /\ \A v \in Writers : seen[v] <= Through(w)
<1>1. PICK m \in Nat : /\ Whole = 1..m /\ m <= Len(file) /\ Len(file) <= m + 1
                       /\ Len(file) = m + 1 => file[m + 1].form = "torn"
  BY WholeFacts
<1>2. Len(file) \in Nat /\ seen[w] \in Nat /\ 1..seen[w] \subseteq 1..m
  BY <1>1 DEF Base, TypeOK, FileInv
<1>3. /\ Through(w) \in Nat /\ seen[w] <= Through(w) /\ Through(w) <= Len(file)
      /\ \A n \in seen[w] + 1..Through(w) : file[n].form = "whole"
      /\ Through(w) < Len(file) => file[Through(w) + 1].form # "whole"
  BY ThroughFacts
<1>4. seen[w] <= m
  BY <1>2
<1>5. \A n \in 1..m : file[n].form = "whole"
  BY <1>1 DEF Whole
<1>6. ~(Through(w) < m)
  BY <1>1, <1>2, <1>3, <1>5
<1>7. ~(m < Through(w))
  <2>1. SUFFICES ASSUME m < Through(w) PROVE FALSE
    OBVIOUS
  <2>2. m + 1 \in seen[w] + 1..Through(w) /\ Len(file) = m + 1
    BY <1>1, <1>2, <1>3, <1>4, <2>1
  <2> QED BY <1>1, <1>3, <2>2
<1>8. Through(w) = m
  BY <1>3, <1>6, <1>7
<1>9. Readable(w)
  <2>1. \A n \in seen[w] + 1..Len(file) : n \in 1..Len(file)
    BY <1>2
  <2> QED BY <2>1 DEF Readable, FileInv
<1>10. \A v \in Writers : seen[v] <= Through(w)
  BY <1>9, ThroughFacts
<1> QED BY <1>1, <1>8, <1>9, <1>10

(* What an index has after the rest of the file is remembered.                *)
LEMMA RememberRest ==
  ASSUME Base, FileInv, NEW w \in Writers, NEW idx \in IndexSet,
         idx.done \subseteq FileDone,
         \A s \in Spans : idx.origins[s] \in {NoOrigin, Origin[s]},
         \A n \in 1..seen[w] :
           /\ file[n].delivered.done \subseteq idx.done
           /\ \A s \in Spans : file[n].origins[s] # NoOrigin => idx.origins[s] # NoOrigin
  PROVE  /\ RememberAll(idx, Unread(w)).done = FileDone
         /\ \A s \in Spans : RememberAll(idx, Unread(w)).origins[s] = Origin[s]
<1> DEFINE r == RememberAll(idx, Unread(w))
<1>1. /\ Whole = 1..Through(w) /\ Unread(w) = seen[w] + 1..Through(w)
      /\ seen[w] \in Nat /\ Through(w) \in Nat /\ seen[w] <= Through(w)
  BY CleanFacts, ThroughFacts, Zenon DEF Base, TypeOK
<1>2. \A n \in Whole : n \in 1..seen[w] \/ n \in Unread(w)
  BY <1>1
<1>3. Unread(w) \subseteq Whole
  BY <1>1
<1>4. r.done = idx.done \cup UNION {file[n].delivered.done : n \in Unread(w)}
  BY DEF RememberAll
<1>5. r.done = FileDone
  BY <1>2, <1>3, <1>4 DEF FileDone
<1>6. ASSUME NEW s \in Spans PROVE r.origins[s] = Origin[s]
  <2>1. r.origins[s] = IF idx.origins[s] = NoOrigin
                       THEN FirstOrigin(s, Unread(w)) ELSE idx.origins[s]
    BY DEF RememberAll
  <2>2. CASE idx.origins[s] # NoOrigin
    BY <2>1, <2>2
  <2>3. CASE idx.origins[s] = NoOrigin
    <3>1. \A n \in 1..seen[w] : file[n].origins[s] = NoOrigin
      BY <2>3
    <3>2. First(s, file, seen[w] + 1..Through(w)) = First(s, file, 1..Through(w))
      BY <1>1, <3>1, FirstSkips
    <3>3. FirstOrigin(s, Unread(w)) = First(s, file, Unread(w))
          /\ Origin[s] = First(s, file, Whole)
      BY DEF Origin, FirstOrigin, First
    <3> QED BY <1>1, <2>1, <2>3, <3>2, <3>3
  <2> QED BY <2>2, <2>3
<1> QED BY <1>5, <1>6

(* A refresh leaves the index as the file.                                    *)
LEMMA RefreshIndex ==
  ASSUME Base, Prov, NEW w \in Writers
  PROVE  /\ Refreshed(w).done = FileDone
         /\ \A s \in Spans : Refreshed(w).origins[s] = Origin[s]
<1>1. index \in IndexSet
  BY Zenon DEF Base, TypeOK, IndexSet
<1> QED BY <1>1, RememberRest DEF Prov, IndexInv, Refreshed

(* An index rebuilt from the file says what the file says.                    *)
LEMMA OpenIndex ==
  ASSUME Base, Prov, ClosedInv, NEW w \in Writers, Open(w)
  PROVE  /\ index'.done = FileDone
         /\ \A s \in Spans : index'.origins[s] = Origin[s]
<1>1. index' = RememberAll(NoIndex, Unread(w)) /\ seen[w] = 0
  BY DEF Open, ClosedInv
<1>2. NoIndex \in IndexSet /\ NoIndex.done = {} /\ \A s \in Spans : NoIndex.origins[s] = NoOrigin
  BY EmptyFacts DEF NoIndex, IndexSet, NoBirths
<1>3. 1..seen[w] = {}
  BY <1>1
<1>4. FileInv
  BY DEF Prov
<1> QED BY <1>1, <1>2, <1>3, <1>4, RememberRest

(* The file and the index after a refresh of any kind.                        *)
LEMMA RefreshProv ==
  ASSUME Base, Prov, NEW w \in Writers, file' = file, adrift' = adrift, appended' = appended,
         seen' = [seen EXCEPT ![w] = Through(w)], index' \in IndexSet,
         index'.done = FileDone, \A s \in Spans : index'.origins[s] = Origin[s],
         \A v \in Writers : v # w => at'[v] = at[v]
  PROVE  /\ FileInv' /\ IndexInv' /\ Whole' = Whole /\ FileDone' = FileDone
         /\ Origin' = Origin
<1>1. Whole' = Whole /\ FileDone' = FileDone /\ Origin' = Origin
  BY DEF Whole, FileDone, Origin, FirstOrigin
<1>2. /\ Whole = 1..Through(w) /\ \A v \in Writers : seen[v] <= Through(w) /\ seen[v] \in Nat
      /\ Through(w) \in Nat
  BY CleanFacts, ThroughFacts, Zenon DEF Prov, Base, TypeOK
<1>3. \A v \in Writers : seen'[v] = IF v = w THEN Through(w) ELSE seen[v]
  BY DEF Base, TypeOK
<1>4. \A v \in Writers : 1..seen'[v] \subseteq Whole
  BY <1>2, <1>3
<1>5. ASSUME NEW v \in Writers, at'[v] \in {"persist", "record"} PROVE Whole = 1..seen'[v]
  BY <1>2, <1>3, <1>5 DEF Prov, FileInv
<1>6. FileInv'
  BY <1>1, <1>4, <1>5 DEF Prov, FileInv
<1>7. ASSUME NEW n \in Whole
      PROVE  /\ file[n].delivered.done \subseteq FileDone
             /\ \A s \in Spans : file[n].origins[s] # NoOrigin => Origin[s] # NoOrigin
  <2>1. file[n].delivered.done \subseteq FileDone
    BY DEF FileDone
  <2>2. ASSUME NEW s \in Spans, file[n].origins[s] # NoOrigin PROVE Origin[s] # NoOrigin
    <3>1. IsFirst(Origin[s], s, file, Whole)
      BY <1>2, FirstOriginFacts DEF Origin
    <3> QED BY <2>2, <3>1 DEF IsFirst
  <2> QED BY <2>1, <2>2
<1>8. IndexInv'
  <2>1. index'.done \subseteq FileDone' /\ \A s \in Spans : index'.origins[s] \in {NoOrigin, Origin'[s]}
    BY <1>1
  <2>2. \A v \in Writers : \A n \in 1..seen'[v] :
          /\ file[n].delivered.done \subseteq index'.done
          /\ \A s \in Spans : file[n].origins[s] # NoOrigin => index'.origins[s] # NoOrigin
    BY <1>4, <1>7
  <2> QED BY <2>1, <2>2 DEF IndexInv
<1> QED BY <1>1, <1>6, <1>8

(* What the file says of a span stays said.                                   *)
Keeps ==
  \A s \in Spans :
    /\ Origin[s] # NoOrigin => Origin'[s] = Origin[s]
    /\ s \in FileDone => s \in FileDone'
    /\ s \in FileDone /\ Origin[s] = NoOrigin => Origin'[s] = NoOrigin

(* The same after a step, of what is given.                                   *)
SettledNext(s) == Origin'[s] # NoOrigin \/ s \in FileDone'
RightNext(s, o) == IF o = NoOrigin THEN Origin'[s] = NoOrigin /\ s \in FileDone' ELSE o = Origin'[s]

(* Origins that stay right.                                                   *)
LEMMA KeepsRight ==
  ASSUME Keeps
  PROVE  \A s \in Spans : /\ Settled(s) => SettledNext(s)
                          /\ \A o : Right(s, o) => RightNext(s, o)
BY DEF Keeps, Settled, Right, SettledNext, RightNext

StampNext(w) ==
    /\ \A k \in 1..Len(queued'[w]) : RightNext(queued'[w][k].op.span, queued'[w][k].origin)
    /\ \A k \in 1..Len(batch'[w]) :
          \/ RightNext(batch'[w][k].op.span, batch'[w][k].origin)
          \/ /\ at'[w] = "persist"
             /\ batch'[w][k].origin = births'[w][batch'[w][k].op.span]
             /\ batch'[w][k].origin # NoOrigin
             /\ Origin'[batch'[w][k].op.span] = NoOrigin
    /\ at'[w] = "persist" => \A s \in FileDone' : births'[w][s] = NoOrigin
    /\ \A s \in pending'[w].done : SettledNext(s)
    /\ \A k \in 1..read'[w] :
          Input[w][k].insert => \/ SettledNext(Input[w][k].span)
                                \/ /\ at'[w] = "persist" /\ k > head'[w]
                                   /\ births'[w][Input[w][k].span] # NoOrigin

(* The invariant of stamps, from its parts.                                   *)
LEMMA StampPrime ==
  ASSUME \A s \in Spans : \A o \in backend'.stamps[s] : RightNext(s, o),
         \A w \in Writers : StampNext(w)
  PROVE  StampInv'
BY Zenon DEF StampNext, RightNext, SettledNext, StampInv, StampOf, Right, Settled

(* Spans of rows and of operations.                                           *)
LEMMA SpanFacts ==
  ASSUME Base, NEW w \in Writers
  PROVE  /\ \A k \in 1..Len(queued[w]) : queued[w][k].op \in Operations
                                         /\ queued[w][k].op.span \in Spans
         /\ \A k \in 1..Len(batch[w]) : batch[w][k].op \in Operations
                                        /\ batch[w][k].op.span \in Spans
         /\ pending[w].done \subseteq Spans
         /\ \A k \in 1..read[w] : k \in 1..Len(Input[w]) /\ Input[w][k].span \in Spans
         /\ head[w] \in Nat /\ read[w] \in Nat /\ head[w] <= read[w]
<1>1. queued[w] \in Seq(Rows) /\ batch[w] \in Seq(Rows) /\ pending[w] \in PendingSet
      /\ head[w] \in Nat /\ read[w] \in Nat /\ head[w] <= read[w] /\ read[w] <= Len(Input[w])
  BY DEF Base, TypeOK, StageInv
<1>2. \A row \in Rows : row.op \in Operations /\ row.op.span \in Spans
  BY InputFacts DEF Rows
<1>3. /\ \A k \in 1..Len(queued[w]) : queued[w][k] \in Rows
      /\ \A k \in 1..Len(batch[w]) : batch[w][k] \in Rows
  BY <1>1
<1>4. \A k \in 1..read[w] : k \in 1..Len(Input[w])
  BY <1>1, InputFacts
<1>5. pending[w].done \subseteq Spans
  BY <1>1 DEF PendingSet
<1> QED BY <1>1, <1>2, <1>3, <1>4, <1>5, InputFacts

(* The SDK's rows of a writer are some of what they were.                     *)
Fewer(w) == \A k \in 1..Len(queued'[w]) : \E j \in 1..Len(queued[w]) : queued'[w][k] = queued[w][j]

(* Rows that stay queued keep the right origin.                               *)
LEMMA FewerRight ==
  ASSUME Base, Keeps, NEW w \in Writers, StampOf(w), Fewer(w)
  PROVE  \A k \in 1..Len(queued'[w]) : RightNext(queued'[w][k].op.span, queued'[w][k].origin)
<1>1. SUFFICES ASSUME NEW k \in 1..Len(queued'[w])
               PROVE  RightNext(queued'[w][k].op.span, queued'[w][k].origin)
  OBVIOUS
<1>2. PICK j \in 1..Len(queued[w]) : queued'[w][k] = queued[w][j]
  BY DEF Fewer
<1>3. queued[w][j].op.span \in Spans /\ Right(queued[w][j].op.span, queued[w][j].origin)
  BY SpanFacts DEF StampOf
<1>4. RightNext(queued[w][j].op.span, queued[w][j].origin)
  BY <1>3, KeepsRight
<1> QED BY <1>2, <1>4

(* A writer that is not about to persist births, before and after.            *)
LEMMA FrameStamp ==
  ASSUME Base, Keeps, NEW w \in Writers, StampOf(w), Fewer(w),
         at[w] # "persist", at'[w] # "persist", batch'[w] \in {batch[w], <<>>},
         pending'[w].done \subseteq pending[w].done, read'[w] = read[w]
  PROVE  StampNext(w)
<1>1. \A k \in 1..Len(queued'[w]) : RightNext(queued'[w][k].op.span, queued'[w][k].origin)
  BY FewerRight
<1>2. \A k \in 1..Len(batch'[w]) : RightNext(batch'[w][k].op.span, batch'[w][k].origin)
  <2>1. \A k \in 1..Len(batch[w]) : RightNext(batch[w][k].op.span, batch[w][k].origin)
    <3>1. \A k \in 1..Len(batch[w]) : /\ Right(batch[w][k].op.span, batch[w][k].origin)
                                      /\ batch[w][k].op.span \in Spans
      BY SpanFacts DEF StampOf
    <3> QED BY <3>1, KeepsRight
  <2> QED BY <2>1
<1>3. \A s \in pending'[w].done : SettledNext(s)
  BY SpanFacts, KeepsRight DEF StampOf
<1>4. \A k \in 1..read'[w] : Input[w][k].insert => SettledNext(Input[w][k].span)
  <2>1. \A k \in 1..read[w] : /\ Input[w][k].span \in Spans
                              /\ Input[w][k].insert => Settled(Input[w][k].span)
    BY SpanFacts DEF StampOf
  <2> QED BY <2>1, KeepsRight
<1> QED BY <1>1, <1>2, <1>3, <1>4 DEF StampNext

(* A writer that does nothing while the file stays as it is.                  *)
LEMMA SameStamp ==
  ASSUME Base, Origin' = Origin, FileDone' = FileDone, NEW w \in Writers, StampOf(w), Fewer(w),
         at'[w] = at[w], batch'[w] = batch[w], births'[w] = births[w], pending'[w] = pending[w],
         read'[w] = read[w], head'[w] = head[w]
  PROVE  StampNext(w)
<1>1. Keeps
  BY DEF Keeps
<1>2. \A k \in 1..Len(queued'[w]) : RightNext(queued'[w][k].op.span, queued'[w][k].origin)
  BY <1>1, FewerRight
<1> QED BY <1>2 DEF StampOf, StampNext, Right, RightNext, Settled, SettledNext

(* A writer whose sink is lost.                                               *)
LEMMA LoseStamp ==
  ASSUME Base, Keeps, NEW w \in Writers, StampOf(w), Lose(w)
  PROVE  StampNext(w)
<1>1. /\ at'[w] = "closed" /\ read'[w] = head[w] /\ batch'[w] = <<>> /\ pending'[w].done = {}
      /\ Fewer(w)
  <2>1. /\ at' = [at EXCEPT ![w] = "closed"]
        /\ read' = [read EXCEPT ![w] = head[w]]
        /\ batch' = [batch EXCEPT ![w] = <<>>]
        /\ pending' = [pending EXCEPT ![w] = Nothing]
        /\ queued'[w] = queued[w] \/ queued'[w] = <<>>
    BY LoseFacts
  <2>2. at'[w] = "closed" /\ read'[w] = head[w] /\ batch'[w] = <<>> /\ pending'[w] = Nothing
    BY <2>1 DEF Base, TypeOK
  <2>3. Fewer(w)
    BY <2>1 DEF Fewer
  <2> QED BY <2>2, <2>3 DEF Nothing
<1>2. \A k \in 1..Len(queued'[w]) : RightNext(queued'[w][k].op.span, queued'[w][k].origin)
  BY <1>1, FewerRight
<1>3. ASSUME NEW k \in 1..read'[w], Input[w][k].insert PROVE SettledNext(Input[w][k].span)
  <2>1. k \in 1..read[w] /\ ~(k > head[w]) /\ Input[w][k].span \in Spans
    BY <1>1, SpanFacts
  <2>2. Settled(Input[w][k].span)
    BY <1>3, <2>1 DEF StampOf
  <2> QED BY <2>1, <2>2, KeepsRight
<1> QED BY <1>1, <1>2, <1>3 DEF StampNext

(* A writer that persists the births of its batch.                            *)
LEMMA PersistStamp ==
  ASSUME Base, Keeps, NEW w \in Writers, StampOf(w), Fewer(w),
         \A s \in Spans : Origin[s] = NoOrigin => Origin'[s] = births[w][s],
         at[w] = "persist", at'[w] # "persist", batch'[w] = batch[w],
         pending'[w] = pending[w], read'[w] = read[w]
  PROVE  StampNext(w)
<1>1. \A k \in 1..Len(queued'[w]) : RightNext(queued'[w][k].op.span, queued'[w][k].origin)
  BY FewerRight
<1>2. ASSUME NEW k \in 1..Len(batch[w]) PROVE RightNext(batch[w][k].op.span, batch[w][k].origin)
  <2>1. batch[w][k].op.span \in Spans
    BY SpanFacts
  <2>2. CASE Right(batch[w][k].op.span, batch[w][k].origin)
    BY <2>1, <2>2, KeepsRight
  <2>3. CASE /\ batch[w][k].origin = births[w][batch[w][k].op.span]
             /\ batch[w][k].origin # NoOrigin
             /\ Origin[batch[w][k].op.span] = NoOrigin
    BY <2>1, <2>3 DEF RightNext
  <2> QED BY <2>2, <2>3 DEF StampOf
<1>3. \A s \in pending[w].done : SettledNext(s)
  BY SpanFacts, KeepsRight DEF StampOf
<1>4. ASSUME NEW k \in 1..read[w], Input[w][k].insert PROVE SettledNext(Input[w][k].span)
  <2>1. Input[w][k].span \in Spans
    BY SpanFacts
  <2>2. CASE Settled(Input[w][k].span)
    BY <2>1, <2>2, KeepsRight
  <2>3. CASE ~Settled(Input[w][k].span)
    <3>1. births[w][Input[w][k].span] # NoOrigin /\ Origin[Input[w][k].span] = NoOrigin
      BY <1>4, <2>3 DEF StampOf, Settled
    <3> QED BY <2>1, <3>1 DEF SettledNext
  <2> QED BY <2>2, <2>3
<1> QED BY <1>1, <1>2, <1>3, <1>4 DEF StampNext

(* The file with one record more, or an incomplete line more.                 *)
LEMMA WriteProv ==
  ASSUME Base, Prov, NEW w \in Writers, at[w] \in {"persist", "record"},
         NEW record \in {Torn, Record(w)}, record \in RecordSet, Writes(w, record)
  PROVE  /\ Whole = 1..seen[w]
         /\ Whole' = IF record.form = "whole" THEN 1..(seen[w] + 1) ELSE 1..seen[w]
         /\ \A n \in 1..Len(file') : \/ file'[n].form = "whole"
                                     \/ file'[n].form = "torn" /\ n = Len(file')
         /\ \A s \in Spans : Origin'[s] = IF Origin[s] # NoOrigin THEN Origin[s]
                                          ELSE record.origins[s]
         /\ FileDone' = FileDone \cup record.delivered.done
         /\ Keeps
<1>1. Whole = 1..seen[w] /\ seen[w] \in Nat
  BY DEF Prov, FileInv, Base, TypeOK
<1>2. /\ Len(file') = seen[w] + 1 /\ file'[seen[w] + 1] = record
      /\ \A n \in 1..seen[w] : file'[n] = file[n]
  BY DEF Writes
<1>3. \A n \in 1..seen[w] : file[n].form = "whole"
  BY <1>1 DEF Whole
<1>4. \A n \in 1..(seen[w] + 1) : n \in 1..seen[w] \/ n = seen[w] + 1
  BY <1>1
<1>5. /\ record = Torn => record.form = "torn" /\ record.origins = NoBirths
                          /\ record.delivered.done = {}
      /\ record # Torn => record.form = "whole" /\ record = Record(w)
  <2>1. Record(w).form = "whole"
    BY RecordFacts DEF Base
  <2>2. Torn.form = "torn" /\ Torn.origins = NoBirths /\ Torn.delivered.done = {}
    BY DEF Torn, Nothing
  <2> HIDE DEF Torn, Record
  <2> QED BY <2>1, <2>2
<1> HIDE DEF Torn, Record
<1>6. Whole' = IF record.form = "whole" THEN 1..(seen[w] + 1) ELSE 1..seen[w]
  <2>1. Whole' = {n \in 1..Len(file') : file'[n].form = "whole"}
    BY DEF Whole
  <2>2. \A n \in 1..seen[w] : file'[n].form = "whole"
    BY <1>2, <1>3
  <2>3. seen[w] + 1 \notin 1..seen[w] /\ 1..seen[w] \subseteq 1..(seen[w] + 1)
        /\ seen[w] + 1 \in 1..(seen[w] + 1)
    BY <1>1
  <2> QED BY <1>2, <1>4, <2>1, <2>2, <2>3
<1>7. \A n \in 1..Len(file') : \/ file'[n].form = "whole"
                               \/ file'[n].form = "torn" /\ n = Len(file')
  BY <1>2, <1>3, <1>4, <1>5
<1>8. ASSUME NEW s \in Spans
      PROVE  Origin'[s] = IF Origin[s] # NoOrigin THEN Origin[s] ELSE record.origins[s]
  <2>1. Origin[s] = First(s, file, Whole) /\ Origin'[s] = First(s, file', Whole')
    BY DEF Origin, FirstOrigin, First
  <2>2. /\ First(s, file', 1..seen[w]) = First(s, file, 1..seen[w])
        /\ First(s, file', 1..(seen[w] + 1)) =
              IF First(s, file, 1..seen[w]) # NoOrigin THEN First(s, file, 1..seen[w])
              ELSE file'[seen[w] + 1].origins[s]
    <3> DEFINE m == seen[w]
               old == file
               new == file'
    <3>1. m \in Nat /\ \A n \in 1..m : new[n] = old[n]
      BY <1>1, <1>2
    <3> HIDE DEF m, old, new
    <3>2. /\ First(s, new, 1..m) = First(s, old, 1..m)
          /\ First(s, new, 1..(m + 1)) = IF First(s, old, 1..m) # NoOrigin THEN First(s, old, 1..m)
                                          ELSE new[m + 1].origins[s]
      BY <3>1, FirstExtends
    <3> QED BY <3>2 DEF m, old, new
  <2>3. CASE record.form = "whole"
    BY <1>1, <1>2, <1>6, <2>1, <2>2, <2>3
  <2>4. CASE record.form # "whole"
    <3>1. record.origins[s] = NoOrigin
      BY <1>5, <2>4 DEF NoBirths
    <3> QED BY <1>1, <1>6, <2>1, <2>2, <2>4, <3>1
  <2> QED BY <2>3, <2>4
<1>9. FileDone' = FileDone \cup record.delivered.done
  <2>1. FileDone' = UNION {file'[n].delivered.done : n \in Whole'}
    BY DEF FileDone
  <2>2. UNION {file'[n].delivered.done : n \in 1..seen[w]} = FileDone
    BY <1>1, <1>2 DEF FileDone
  <2>3. CASE record.form = "whole"
    <3>1. FileDone' = UNION {file'[n].delivered.done : n \in 1..(seen[w] + 1)}
      BY <1>6, <2>1, <2>3
    <3>2. \A n : n \in 1..(seen[w] + 1) <=> n \in 1..seen[w] \/ n = seen[w] + 1
      BY <1>1
    <3> QED BY <1>2, <2>2, <3>1, <3>2
  <2>4. CASE record.form # "whole"
    BY <1>5, <1>6, <2>1, <2>2, <2>4
  <2> QED BY <2>3, <2>4
<1>10. Keeps
  <2>1. ASSUME NEW s \in Spans, s \in FileDone PROVE record.origins[s] = NoOrigin
    <3>1. CASE record = Torn
      BY <1>5, <3>1 DEF NoBirths
    <3>2. CASE record # Torn /\ at[w] = "persist"
      <4>1. record.origins = births[w]
        BY <1>5, <3>2, RecordFacts DEF Base
      <4> QED BY <2>1, <3>2, <4>1 DEF Prov, StampInv, StampOf
    <3>3. CASE record # Torn /\ at[w] = "record"
      <4>1. record.origins = NoBirths
        BY <1>5, <3>3, RecordFacts DEF Base
      <4> QED BY <4>1 DEF NoBirths
    <3> QED BY <3>1, <3>2, <3>3
  <2> QED BY <1>8, <1>9, <2>1 DEF Keeps
<1> QED BY <1>1, <1>6, <1>7, <1>8, <1>9, <1>10

(* A file and an index that stay as they are.                                 *)
LEMMA SameFile ==
  ASSUME Base, Prov, UNCHANGED <<file, index, adrift, appended>>,
         \A v \in Writers : \/ seen'[v] = seen[v]
                            \/ seen'[v] = 0 /\ at'[v] \notin {"persist", "record"},
         \A v \in Writers : at'[v] \in {"persist", "record"} => at[v] \in {"persist", "record"}
  PROVE  FileInv' /\ IndexInv' /\ Keeps /\ Origin' = Origin /\ FileDone' = FileDone
<1>1. Whole' = Whole /\ FileDone' = FileDone /\ Origin' = Origin
  BY DEF Whole, FileDone, Origin, FirstOrigin
<1>2. \A v \in Writers : 1..seen'[v] \subseteq 1..seen[v] /\ 1..seen'[v] \subseteq Whole
  BY DEF Prov, FileInv
<1>3. FileInv'
  BY <1>1, <1>2 DEF Prov, FileInv
<1>4. IndexInv'
  BY <1>1, <1>2 DEF Prov, IndexInv
<1>5. Keeps
  BY <1>1 DEF Keeps
<1> QED BY <1>1, <1>3, <1>4, <1>5

(* A record that was appended.                                                *)
LEMMA AppendedProv ==
  ASSUME Base, Prov, NEW w \in Writers, at[w] \in {"persist", "record"},
         Appended(w, Record(w)), adrift' = adrift,
         \A v \in Writers : at'[v] \notin {"persist", "record"}
  PROVE  /\ FileInv' /\ IndexInv' /\ Keeps
         /\ \A s \in Spans : Origin'[s] = IF Origin[s] # NoOrigin THEN Origin[s]
                                          ELSE Record(w).origins[s]
<1> DEFINE record == Record(w)
<1>1. /\ lock = w /\ record \in RecordSet /\ record.form = "whole" /\ Writes(w, record)
      /\ seen' = [seen EXCEPT ![w] = seen[w] + 1]
      /\ appended' = appended \cup {record}
  BY AppendedFacts
<1>2. index' = Remember(index, record)
  BY DEF Appended
<1>3. /\ Whole = 1..seen[w]
      /\ Whole' = 1..(seen[w] + 1)
      /\ \A n \in 1..Len(file') : \/ file'[n].form = "whole"
                                  \/ file'[n].form = "torn" /\ n = Len(file')
      /\ \A s \in Spans : Origin'[s] = IF Origin[s] # NoOrigin THEN Origin[s] ELSE record.origins[s]
      /\ FileDone' = FileDone \cup record.delivered.done
      /\ Keeps
  BY <1>1, WriteProv
<1> HIDE DEF record
<1>4. /\ seen[w] \in Nat /\ \A v \in Writers : seen[v] \in Nat /\ seen[v] <= seen[w]
      /\ file'[seen[w] + 1] = record /\ \A n \in 1..seen[w] : file'[n] = file[n]
  BY <1>1 DEF Base, TypeOK, SeenInv, Writes
<1>5. \A v \in Writers : seen'[v] = IF v = w THEN seen[w] + 1 ELSE seen[v]
  BY <1>1 DEF Base, TypeOK
<1>6. \A v \in Writers : 1..seen'[v] \subseteq Whole'
  BY <1>3, <1>4, <1>5
<1>7. appended' \subseteq {file'[n] : n \in Whole'}
  <2>1. appended \subseteq {file[n] : n \in 1..seen[w]}
    BY <1>3 DEF Prov, FileInv
  <2>2. \A n \in 1..seen[w] : n \in Whole'
    BY <1>3, <1>4
  <2>3. seen[w] + 1 \in Whole'
    BY <1>3, <1>4
  <2> QED BY <1>1, <1>4, <2>1, <2>2, <2>3
<1>8. FileInv'
  BY <1>3, <1>6, <1>7 DEF Prov, FileInv
<1>9. /\ index'.done = index.done \cup record.delivered.done
      /\ \A s \in Spans : index'.origins[s] = IF index.origins[s] = NoOrigin
                                              THEN record.origins[s] ELSE index.origins[s]
  BY <1>2 DEF Remember
<1>10. ASSUME NEW s \in Spans, index.origins[s] = NoOrigin PROVE Origin[s] = NoOrigin
  <2>1. \A n \in Whole : file[n].origins[s] = NoOrigin
    BY <1>3, <1>10 DEF Prov, IndexInv
  <2>2. IsFirst(Origin[s], s, file, Whole)
    <3>1. Whole \subseteq Nat
      BY <1>3, <1>4
    <3> QED BY <3>1, FirstOriginFacts, Zenon DEF Origin
  <2> QED BY <2>1, <2>2 DEF IsFirst
<1>11. IndexInv'
  <2>1. index'.done \subseteq FileDone'
    BY <1>3, <1>9 DEF Prov, IndexInv
  <2>2. ASSUME NEW s \in Spans PROVE index'.origins[s] \in {NoOrigin, Origin'[s]}
    <3>1. index.origins[s] \in {NoOrigin, Origin[s]}
      BY DEF Prov, IndexInv
    <3> QED BY <1>3, <1>9, <1>10, <3>1
  <2>3. ASSUME NEW v \in Writers, NEW n \in 1..seen'[v]
        PROVE  /\ file'[n].delivered.done \subseteq index'.done
               /\ \A s \in Spans : file'[n].origins[s] # NoOrigin => index'.origins[s] # NoOrigin
    <3>1. n \in 1..seen[w] \/ n = seen[w] + 1
      BY <1>3, <1>4, <1>6
    <3>2. CASE n \in 1..seen[w]
      BY <1>4, <1>9, <3>2 DEF Prov, IndexInv
    <3>3. CASE n = seen[w] + 1
      BY <1>4, <1>9, <3>3
    <3> QED BY <3>1, <3>2, <3>3
  <2> QED BY <2>1, <2>2, <2>3 DEF IndexInv
<1> QED BY <1>3, <1>8, <1>11 DEF record

(* An append that failed.                                                     *)
LEMMA FailedProv ==
  ASSUME Base, Prov, NEW w \in Writers, AppendFails(w),
         \A v \in Writers : at'[v] \notin {"persist", "record"}
  PROVE  FileInv' /\ IndexInv' /\ Keeps
<1>1. PICK record \in {Torn, Record(w)} : record \in RecordSet /\ Writes(w, record)
  BY FailFacts
<1>2. /\ lock = w /\ at[w] \in {"persist", "record"}
      /\ UNCHANGED <<index, adrift, appended>>
  BY FailFacts
<1>3. \A v \in Writers : seen'[v] = seen[v] \/ seen'[v] = 0
  <2>1. CASE Lose(w)
    <3>1. seen' = [seen EXCEPT ![w] = 0]
      BY <2>1, LoseFacts
    <3> QED BY <3>1 DEF Base, TypeOK
  <2> QED BY <2>1, FailFacts
<1>4. /\ Whole = 1..seen[w]
      /\ Whole' = IF record.form = "whole" THEN 1..(seen[w] + 1) ELSE 1..seen[w]
      /\ \A n \in 1..Len(file') : \/ file'[n].form = "whole"
                                  \/ file'[n].form = "torn" /\ n = Len(file')
      /\ \A s \in Spans : Origin'[s] = IF Origin[s] # NoOrigin THEN Origin[s] ELSE record.origins[s]
      /\ FileDone' = FileDone \cup record.delivered.done
      /\ Keeps
  BY <1>1, <1>2, WriteProv
<1>5. /\ seen[w] \in Nat /\ \A v \in Writers : seen[v] \in Nat /\ seen[v] <= seen[w]
      /\ \A n \in 1..seen[w] : file'[n] = file[n]
  BY <1>1, <1>2 DEF Base, TypeOK, SeenInv, Writes
<1>6. \A n \in 1..seen[w] : n \in Whole'
  BY <1>4, <1>5
<1>7. \A v \in Writers : 1..seen'[v] \subseteq 1..seen[w] /\ 1..seen'[v] \subseteq 1..seen[v]
  BY <1>3, <1>5
<1>8. FileInv'
  <2>1. appended' \subseteq {file'[n] : n \in Whole'}
    <3>1. appended \subseteq {file[n] : n \in 1..seen[w]}
      BY <1>4 DEF Prov, FileInv
    <3> QED BY <1>2, <1>5, <1>6, <3>1
  <2>2. \A v \in Writers : 1..seen'[v] \subseteq Whole'
    BY <1>6, <1>7
  <2> QED BY <1>2, <1>4, <2>1, <2>2 DEF Prov, FileInv
<1>9. IndexInv'
  <2>1. index.done \subseteq FileDone'
    BY <1>4 DEF Prov, IndexInv
  <2>2. ASSUME NEW s \in Spans PROVE index.origins[s] \in {NoOrigin, Origin'[s]}
    <3>1. index.origins[s] \in {NoOrigin, Origin[s]}
      BY DEF Prov, IndexInv
    <3> QED BY <1>4, <3>1
  <2>3. ASSUME NEW v \in Writers, NEW n \in 1..seen'[v]
        PROVE  /\ file'[n].delivered.done \subseteq index.done
               /\ \A s \in Spans : file'[n].origins[s] # NoOrigin => index.origins[s] # NoOrigin
    <3>1. n \in 1..seen[v] /\ file'[n] = file[n]
      BY <1>5, <1>7
    <3> QED BY <3>1 DEF Prov, IndexInv
  <2> QED BY <1>2, <2>1, <2>2, <2>3 DEF IndexInv
<1> QED BY <1>4, <1>8, <1>9

(* Rows of a selection.                                                       *)
LEMMA SelectStamp ==
  ASSUME Base, Prov, NEW w \in Writers, Select(w), Origin' = Origin, FileDone' = FileDone
  PROVE  StampNext(w)
<1>1. TypeOK /\ at[w] = "idle" /\ StampOf(w)
  BY DEF Base, Select, Prov, StampInv
<1>2. PICK n \in 1..MaxBatch : Selects(w, n)
  BY <1>1, SelectFacts
<1> DEFINE ops == Taken(w, n)
           idx == Refreshed(w)
           kept == Kept(w, idx, ops)
           unborn == Unborn(w, idx, ops)
<1>3. /\ read[w] + n <= Len(Input[w])
      /\ read' = [read EXCEPT ![w] = read[w] + n]
      /\ births' = [births EXCEPT ![w] = unborn]
      /\ at' = [at EXCEPT ![w] = IF kept # {} /\ unborn # NoBirths THEN "persist"
                                 ELSE IF kept # {} THEN "send"
                                 ELSE IF w \in Imports THEN "idle" ELSE "flush"]
      /\ \A i \in 1..Len(batch'[w]) : \E k \in kept :
            batch'[w][i] = [op |-> ops[k], origin |-> Stamp(w, idx, ops, ops[k].span)]
  <2> HIDE DEF Kept, Unborn, Refreshed, Taken
  <2> QED BY <1>2, Zenon DEF Selects
<1>4. UNCHANGED <<head, pending, queued>>
  BY DEF Select, sdk
<1>5. /\ n \in Nat /\ DOMAIN ops = 1..n
      /\ \A k \in 1..n : /\ ops[k] = Input[w][read[w] + k]
                         /\ read[w] + k \in 1..Len(Input[w])
                         /\ ops[k].span \in Spans
  <2>1. /\ n \in Nat /\ DOMAIN ops = 1..n
        /\ \A k \in 1..n : /\ ops[k] = Input[w][read[w] + k]
                           /\ read[w] + k \in 1..Len(Input[w])
                           /\ ops[k] \in Operations
    BY <1>1, <1>3, TakenFacts
  <2> QED BY <2>1, InputFacts
<1>6. idx.done = FileDone /\ \A s \in Spans : idx.origins[s] = Origin[s]
  BY RefreshIndex
<1>7. kept \subseteq 1..n
  BY <1>5, KeptFacts
<1>8. read[w] \in Nat /\ head[w] \in Nat /\ head[w] <= read[w]
  BY SpanFacts
<1>9. /\ births'[w] = unborn /\ read'[w] = read[w] + n
      /\ kept # {} /\ unborn # NoBirths => at'[w] = "persist"
      /\ at'[w] = "persist" => unborn # NoBirths
  <2> HIDE DEF kept, unborn
  <2> QED BY <1>1, <1>3, Zenon DEF TypeOK
(* An operation that inserts a span with no origin, and not delivered.        *)
<1>10. ASSUME NEW s \in Spans, s \in Inserted(ops), Origin[s] = NoOrigin, s \notin FileDone
       PROVE  unborn[s] # NoOrigin
  <2>1. idx.origins[s] = NoOrigin /\ s \notin idx.done
    BY <1>6, <1>10
  <2>2. \A m \in Unread(w) : file[m].origins[s] = NoOrigin
    <3>1. Unread(w) \subseteq Whole
      BY UnreadFacts DEF Whole, Base
    <3>2. IsFirst(Origin[s], s, file, Whole)
      <4>1. Whole \subseteq Nat
        BY DEF Whole
      <4> QED BY <4>1, FirstOriginFacts, Zenon DEF Origin
    <3> QED BY <1>10, <3>1, <3>2 DEF IsFirst
  <2>3. Birth(w) # NoOrigin
    BY <1>1, BirthFacts
  <2>4. unborn[s] = IF births[w][s] = NoOrigin /\ s \in Inserted(ops)
                    THEN Birth(w) ELSE births[w][s]
    <3> HIDE DEF Birth, Inserted, Named, Unread, ops, idx
    <3> QED BY <2>1, <2>2 DEF Unborn
  <2> HIDE DEF unborn, Birth
  <2> QED BY <1>10, <2>3, <2>4
<1>11. \A s \in Spans : s \in FileDone => unborn[s] = NoOrigin
  <2> HIDE DEF Birth, Inserted, Named, Unread, ops, idx
  <2> QED BY <1>6 DEF Unborn
<1>12. \A s \in Spans : unborn[s] # NoOrigin => unborn # NoBirths
  BY DEF NoBirths
<1>13. ASSUME NEW k \in kept, NEW row, row = [op |-> ops[k], origin |-> Stamp(w, idx, ops, ops[k].span)]
       PROVE  \/ RightNext(row.op.span, row.origin)
              \/ /\ at'[w] = "persist"
                 /\ row.origin = births'[w][row.op.span]
                 /\ row.origin # NoOrigin
                 /\ Origin'[row.op.span] = NoOrigin
  <2> DEFINE s == ops[k].span
             o == Stamp(w, idx, ops, s)
  <2>1. s \in Spans /\ k \in 1..n /\ kept # {}
    BY <1>5, <1>7
  <2>2. row.op.span = s /\ row.origin = o
    BY <1>13
  <2>3. o = IF idx.origins[s] # NoOrigin THEN idx.origins[s]
            ELSE IF s \in Inserted(ops) THEN unborn[s] ELSE NoOrigin
    BY DEF Stamp
  <2>4. CASE Origin[s] # NoOrigin
    BY <1>6, <2>1, <2>2, <2>3, <2>4 DEF RightNext
  <2>5. CASE Origin[s] = NoOrigin /\ s \in FileDone
    <3>1. o = NoOrigin
      BY <1>6, <1>11, <2>1, <2>3, <2>5
    <3> QED BY <2>2, <2>5, <3>1 DEF RightNext
  <2>6. CASE Origin[s] = NoOrigin /\ s \notin FileDone /\ s \in Inserted(ops)
    <3>1. unborn[s] # NoOrigin
      BY <1>10, <2>1, <2>6
    <3>2. o = unborn[s] /\ at'[w] = "persist"
      BY <1>6, <1>9, <1>12, <2>1, <2>3, <2>6, <3>1
    <3> QED BY <1>9, <2>2, <2>6, <3>1, <3>2
  <2>7. CASE Origin[s] = NoOrigin /\ s \notin FileDone /\ s \notin Inserted(ops)
    <3>1. PICK j \in 1..(read[w] + k) : Input[w][j].span = s /\ Input[w][j].insert
      <4>1. read[w] + k \in DOMAIN Input[w] /\ s = Input[w][read[w] + k].span
        BY <1>5, <2>1, LedgerAssumption
      <4> QED BY <4>1, InputAssumption
    <3>2. CASE j \in 1..read[w]
      BY <1>1, <2>7, <3>1, <3>2 DEF StampOf, Settled
    <3>3. CASE j \notin 1..read[w]
      <4>1. j - read[w] \in 1..n /\ j = read[w] + (j - read[w])
        BY <1>8, <2>1, <1>5, <3>3
      <4>2. ops[j - read[w]] = Input[w][j]
        BY <1>5, <4>1
      <4>3. s \in Inserted(ops)
        BY <1>5, <3>1, <4>1, <4>2 DEF Inserted
      <4> QED BY <2>7, <4>3
    <3> QED BY <3>2, <3>3
  <2> QED BY <2>4, <2>5, <2>6, <2>7
<1>14. \A i \in 1..Len(batch'[w]) :
          \/ RightNext(batch'[w][i].op.span, batch'[w][i].origin)
          \/ /\ at'[w] = "persist"
             /\ batch'[w][i].origin = births'[w][batch'[w][i].op.span]
             /\ batch'[w][i].origin # NoOrigin
             /\ Origin'[batch'[w][i].op.span] = NoOrigin
  <2> HIDE DEF kept, ops, idx, Stamp
  <2> QED BY <1>3, <1>13, Zenon
<1>15. ASSUME NEW k \in 1..read'[w], Input[w][k].insert
       PROVE  \/ SettledNext(Input[w][k].span)
              \/ /\ at'[w] = "persist" /\ k > head'[w]
                 /\ births'[w][Input[w][k].span] # NoOrigin
  <2>1. CASE k \in 1..read[w]
    BY <1>1, <1>15, <2>1 DEF StampOf, Settled, SettledNext
  <2>2. CASE k \notin 1..read[w]
    <3> DEFINE j == k - read[w]
               s == ops[j].span
    <3>1. j \in 1..n /\ k = read[w] + j /\ k > head[w]
      BY <1>5, <1>8, <1>9, <2>2
    <3>2. ops[j] = Input[w][k] /\ s \in Spans /\ s = Input[w][k].span
      BY <1>5, <3>1
    <3>3. s \in Inserted(ops)
      BY <1>5, <1>15, <3>1, <3>2 DEF Inserted
    <3>4. ops[j].key = NoKey /\ ops[j].version = NoVersion
      <4>1. k \in DOMAIN Input[w]
        BY <1>5, <3>1, LedgerAssumption
      <4> QED BY <1>15, <3>2, <4>1, InputAssumption
    <3> HIDE DEF j
    <3>5. CASE Origin[s] # NoOrigin \/ s \in FileDone
      BY <3>2, <3>5 DEF SettledNext
    <3>6. CASE Origin[s] = NoOrigin /\ s \notin FileDone
      <4>1. unborn[s] # NoOrigin
        BY <1>10, <3>2, <3>3, <3>6
      <4>2. s \notin pending[w].done
        BY <1>1, <3>6 DEF StampOf, Settled
      <4>3. ShouldEmit(w, idx, ops[j])
        BY <1>6, <3>4, <3>6, <4>2 DEF ShouldEmit
      <4>4. j \in kept
        <5> HIDE DEF ShouldEmit, KnownAfter, ops, idx
        <5> QED BY <1>5, <3>1, <3>4, <4>3 DEF Kept, VersionAllowed
      <4>5. at'[w] = "persist"
        BY <1>9, <1>12, <3>2, <4>1, <4>4
      <4> QED BY <1>4, <1>9, <3>1, <3>2, <4>1, <4>5
    <3> QED BY <3>5, <3>6
  <2> QED BY <2>1, <2>2
<1>16. \A s \in FileDone' : births'[w][s] = NoOrigin
  <2>1. FileDone \subseteq Spans
    <3>1. \A m \in Whole : file[m] \in RecordSet
      BY <1>1 DEF TypeOK, Whole
    <3>2. \A record \in RecordSet : record.delivered.done \subseteq Spans
      BY DEF RecordSet, PendingSet
    <3> QED BY <3>1, <3>2 DEF FileDone
  <2> QED BY <1>9, <1>11, <2>1
<1>17. /\ \A k \in 1..Len(queued'[w]) : RightNext(queued'[w][k].op.span, queued'[w][k].origin)
       /\ \A s \in pending'[w].done : SettledNext(s)
  BY <1>1, <1>4 DEF StampOf, Right, RightNext, Settled, SettledNext
<1> QED BY <1>14, <1>15, <1>16, <1>17 DEF StampNext

(* The rows of a batch that is sent are right for good.                       *)
LEMMA SendStamp ==
  ASSUME Base, NEW w \in Writers, StampOf(w), Send(w), Origin' = Origin, FileDone' = FileDone
  PROVE  StampNext(w)
<1>1. /\ Len(queued'[w]) = Len(queued[w]) + Len(batch[w])
      /\ \A k \in 1..Len(queued[w]) : queued'[w][k] = queued[w][k]
      /\ \A k \in 1..Len(batch[w]) : queued'[w][Len(queued[w]) + k] = batch[w][k]
      /\ \A s \in pending'[w].done :
            s \in pending[w].done \/ \E k \in 1..Len(batch[w]) :
                                        batch[w][k].op.span = s /\ batch[w][k].op.ends
  BY SendFacts, Zenon DEF Base
<1>2. /\ at[w] = "send" /\ at'[w] # "persist" /\ batch'[w] = <<>>
      /\ UNCHANGED <<read, head>>
  BY DEF Send, Base, TypeOK
<1>3. Len(queued[w]) \in Nat /\ Len(batch[w]) \in Nat
  BY DEF Base, TypeOK
<1>4. \A k \in 1..Len(batch[w]) : /\ RightNext(batch[w][k].op.span, batch[w][k].origin)
                                  /\ Settled(batch[w][k].op.span)
  BY <1>2 DEF StampOf, Right, RightNext, Settled
<1>5. \A k \in 1..Len(queued[w]) : RightNext(queued[w][k].op.span, queued[w][k].origin)
  BY DEF StampOf, Right, RightNext
<1>6. ASSUME NEW k \in 1..Len(queued'[w])
      PROVE  RightNext(queued'[w][k].op.span, queued'[w][k].origin)
  <2>1. CASE k \in 1..Len(queued[w])
    BY <1>1, <1>5, <2>1
  <2>2. CASE k \notin 1..Len(queued[w])
    <3>1. k - Len(queued[w]) \in 1..Len(batch[w]) /\ k = Len(queued[w]) + (k - Len(queued[w]))
      <4> DEFINE a == Len(queued[w])
                 b == Len(batch[w])
      <4>1. a \in Nat /\ b \in Nat /\ k \in 1..(a + b) /\ k \notin 1..a
        BY <1>1, <1>3, <2>2, Zenon
      <4> HIDE DEF a, b
      <4>2. k - a \in 1..b /\ k = a + (k - a)
        BY <4>1
      <4> QED BY <4>2 DEF a, b
    <3>2. queued'[w][k] = batch[w][k - Len(queued[w])]
      BY <1>1, <3>1
    <3> QED BY <1>4, <3>1, <3>2
  <2> QED BY <2>1, <2>2
<1>7. \A s \in pending'[w].done : SettledNext(s)
  BY <1>1, <1>4 DEF StampOf, Settled, SettledNext
<1>8. \A k \in 1..read'[w] : Input[w][k].insert => SettledNext(Input[w][k].span)
  BY <1>2 DEF StampOf, Settled, SettledNext
<1> QED BY <1>2, <1>6, <1>7, <1>8 DEF StampNext

(* What the destination shows stays right.                                    *)
LEMMA BackendStamp ==
  ASSUME Base, StampInv, Keeps, backend' = backend
  PROVE  \A s \in Spans : \A o \in backend'.stamps[s] : RightNext(s, o)
BY KeepsRight DEF StampInv

(* Every step without an abort keeps provenance.                              *)
LEMMA ProvStep == ASSUME Base, Base', ClosedInv, Prov, [Next]_vars, aborts' = 0 PROVE Prov'
<1>1. TypeOK /\ FileInv /\ IndexInv /\ StampInv /\ \A w \in Writers : StampOf(w)
  BY DEF Base, Prov, StampInv
<1>2. CASE UNCHANGED vars
  <2>1. UNCHANGED <<file, index, head, at, read, batch, births, seen, pending, queued, adrift,
                    backend, appended>>
    BY <1>2 DEF vars, disk, sink, sdk
  <2>2. FileInv' /\ IndexInv' /\ Keeps /\ Origin' = Origin /\ FileDone' = FileDone
    BY <2>1, SameFile
  <2>3. \A w \in Writers : StampNext(w)
    BY <1>1, <2>1, <2>2, SameStamp DEF Fewer
  <2> QED BY <1>1, <2>1, <2>2, <2>3, BackendStamp, StampPrime DEF Prov
<1>3. ASSUME NEW w \in Writers, Open(w) \/ Commit(w)
      PROVE  Prov'
  <2>1. /\ UNCHANGED <<file, adrift, appended, backend, head, read, batch, queued>>
        /\ seen' = [seen EXCEPT ![w] = Through(w)]
        /\ \E stage \in {"idle", "ack", "record"} : at' = [at EXCEPT ![w] = stage]
        /\ at[w] \in {"closed", "commit"}
        /\ \A v \in Writers : v # w => births'[v] = births[v] /\ pending'[v] = pending[v]
        /\ pending'[w].done \subseteq pending[w].done
    <3>1. CASE Open(w)
      BY <3>1 DEF Open, sdk
    <3>2. CASE Commit(w)
      <4>1. /\ pending' = [pending EXCEPT ![w] = Left(w)]
            /\ Left(w).done \subseteq pending[w].done
        BY <1>1, <3>2, CommitFacts, Zenon DEF Left
      <4>2. pending'[w].done \subseteq pending[w].done
            /\ \A v \in Writers : v # w => pending'[v] = pending[v]
        <5> HIDE DEF Left
        <5> QED BY <1>1, <4>1, Zenon DEF TypeOK
      <4>3. \A v \in Writers : v # w => births'[v] = births[v]
        BY <1>1, <3>2 DEF Commit, TypeOK
      <4>4. UNCHANGED <<file, adrift, appended, backend, head, read, batch, queued>>
        BY <3>2 DEF Commit, sdk
      <4>5. /\ seen' = [seen EXCEPT ![w] = Through(w)] /\ at[w] = "commit"
            /\ \E stage \in {"idle", "ack", "record"} : at' = [at EXCEPT ![w] = stage]
        BY <1>1, <3>2, CommitFacts
      <4> QED BY <4>2, <4>3, <4>4, <4>5, Zenon
    <3> QED BY <1>3, <3>1, <3>2
  <2>2. /\ index' \in IndexSet /\ index'.done = FileDone
        /\ \A s \in Spans : index'.origins[s] = Origin[s]
    <3>1. index' \in IndexSet
      BY Zenon DEF Base, TypeOK, IndexSet
    <3>2. CASE Open(w)
      BY <3>1, <3>2, OpenIndex
    <3>3. CASE Commit(w)
      BY <1>1, <3>1, <3>3, CommitFacts, RefreshIndex
    <3> QED BY <1>3, <3>2, <3>3
  <2>4. \A v \in Writers : v # w => at'[v] = at[v]
    BY <1>1, <2>1 DEF TypeOK
  <2>5. FileInv' /\ IndexInv' /\ FileDone' = FileDone /\ Origin' = Origin
    BY <2>1, <2>2, <2>4, RefreshProv, Zenon
  <2>6. Keeps
    BY <2>5 DEF Keeps
  <2>7. StampNext(w)
    <3>1. at[w] # "persist" /\ at'[w] # "persist" /\ Fewer(w)
      BY <1>1, <2>1 DEF TypeOK, Fewer
    <3> QED BY <1>1, <2>1, <2>6, <3>1, FrameStamp
  <2>8. \A v \in Writers : v # w => StampNext(v)
    <3>1. \A v \in Writers : Fewer(v)
      BY <2>1 DEF Fewer
    <3> QED BY <1>1, <2>1, <2>4, <2>5, <3>1, SameStamp
  <2> QED BY <1>1, <2>1, <2>5, <2>6, <2>7, <2>8, BackendStamp, StampPrime DEF Prov
<1>4. ASSUME NEW w \in Writers, Select(w)
      PROVE  Prov'
  <2>1. /\ UNCHANGED <<file, adrift, appended, backend, head, pending, queued>>
        /\ seen' = [seen EXCEPT ![w] = Through(w)]
    BY <1>4 DEF Select, sdk
  <2>2. PICK n \in 1..MaxBatch : Selects(w, n)
    BY <1>1, <1>4, SelectFacts
  <2>3. /\ index' = Refreshed(w)
        /\ \A v \in Writers : v # w => /\ at'[v] = at[v] /\ births'[v] = births[v]
                                       /\ batch'[v] = batch[v] /\ read'[v] = read[v]
    <3>1. /\ index' = Refreshed(w)
          /\ read' = [read EXCEPT ![w] = read[w] + n]
          /\ births' = [births EXCEPT ![w] = Unborn(w, Refreshed(w), Taken(w, n))]
          /\ \E stage : at' = [at EXCEPT ![w] = stage]
          /\ \A v \in Writers : v # w => batch'[v] = batch[v]
      <4> HIDE DEF Kept, Unborn, Refreshed, Taken
      <4> QED BY <2>2, Zenon DEF Selects
    <3> HIDE DEF Unborn, Refreshed, Taken
    <3> QED BY <1>1, <3>1 DEF TypeOK
  <2>4. /\ index' \in IndexSet /\ index'.done = FileDone
        /\ \A s \in Spans : index'.origins[s] = Origin[s]
    BY <1>1, <2>3, RefreshFacts, RefreshIndex
  <2>5. FileInv' /\ IndexInv' /\ FileDone' = FileDone /\ Origin' = Origin
    BY <2>1, <2>3, <2>4, RefreshProv, Zenon
  <2>6. Keeps
    BY <2>5 DEF Keeps
  <2>7. StampNext(w)
    BY <1>4, <2>5, SelectStamp
  <2>8. \A v \in Writers : v # w => StampNext(v)
    <3>1. \A v \in Writers : Fewer(v)
      BY <2>1 DEF Fewer
    <3> QED BY <1>1, <2>1, <2>3, <2>5, <3>1, SameStamp
  <2> QED BY <1>1, <2>1, <2>5, <2>6, <2>7, <2>8, BackendStamp, StampPrime DEF Prov
<1>5. ASSUME NEW w \in Writers, PersistBirths(w) \/ RecordDelivered(w)
      PROVE  Prov'
  <2>1. /\ at[w] \in {"persist", "record"} /\ Appended(w, Record(w))
        /\ UNCHANGED <<head, read, batch, queued, adrift, backend>>
        /\ \/ at[w] = "persist" /\ pending' = pending
           \/ at[w] = "record" /\ pending' = [pending EXCEPT ![w] = Nothing]
    BY <1>5 DEF PersistBirths, RecordDelivered, sdk
  <2>2. lock = w /\ lock' = Nobody
    BY <2>1, AppendedFacts
  <2>3. \A v \in Writers : at'[v] \notin {"persist", "record"}
    BY <2>2, LedgerAssumption DEF Base, StageInv
  <2>4. /\ FileInv' /\ IndexInv' /\ Keeps
        /\ \A s \in Spans : Origin'[s] = IF Origin[s] # NoOrigin THEN Origin[s]
                                         ELSE Record(w).origins[s]
    BY <2>1, <2>3, AppendedProv
  <2>5. \A v \in Writers : Fewer(v)
    BY <2>1 DEF Fewer
  <2>6. ASSUME NEW v \in Writers, v # w \/ at[w] = "record"
        PROVE  StampNext(v)
    <3>1. at[v] # "persist"
      BY <2>2, <2>6 DEF Base, StageInv
    <3>2. pending'[v].done \subseteq pending[v].done
      <4>1. pending'[v] = pending[v] \/ pending'[v] = Nothing
        BY <1>1, <2>1, Zenon DEF TypeOK
      <4> QED BY <4>1 DEF Nothing
    <3> QED BY <1>1, <2>1, <2>3, <2>4, <2>5, <3>1, <3>2, FrameStamp
  <2>7. CASE at[w] = "persist"
    <3>1. Record(w).origins = births[w]
      BY <1>1, <2>7, RecordFacts
    <3>2. \A s \in Spans : Origin[s] = NoOrigin => Origin'[s] = births[w][s]
      BY <2>4, <3>1
    <3>3. pending' = pending
      BY <2>1, <2>7
    <3> QED BY <1>1, <2>1, <2>3, <2>4, <2>5, <2>7, <3>2, <3>3, PersistStamp, <2>6,
               BackendStamp, StampPrime DEF Prov
  <2>8. CASE at[w] = "record"
    BY <1>1, <2>1, <2>4, <2>6, <2>8, BackendStamp, StampPrime DEF Prov
  <2> QED BY <2>1, <2>7, <2>8
<1>6. ASSUME NEW w \in Writers, Send(w)
      PROVE  Prov'
  <2>1. /\ UNCHANGED <<file, index, head, read, births, seen, adrift, backend, appended>>
        /\ batch' = [batch EXCEPT ![w] = <<>>]
        /\ \E stage \in {"idle", "flush"} : at' = [at EXCEPT ![w] = stage]
    BY <1>6, Zenon DEF Send, disk
  <2>2. /\ queued' = [queued EXCEPT ![w] = queued[w] \o batch[w]]
        /\ pending' = [pending EXCEPT ![w] = pending'[w]]
    BY <1>1, <1>6, SendFacts, Zenon
  <2>3. \A v \in Writers : /\ at'[v] \in {"persist", "record"} => at[v] \in {"persist", "record"}
                           /\ v # w => /\ at'[v] = at[v] /\ batch'[v] = batch[v]
                                       /\ queued'[v] = queued[v] /\ pending'[v] = pending[v]
    BY <1>1, <2>1, <2>2 DEF TypeOK
  <2>4. FileInv' /\ IndexInv' /\ Keeps /\ Origin' = Origin /\ FileDone' = FileDone
    BY <2>1, <2>3, SameFile
  <2>5. StampNext(w)
    BY <1>1, <1>6, <2>4, SendStamp
  <2>6. \A v \in Writers : v # w => StampNext(v)
    <3>1. \A v \in Writers : v # w => Fewer(v)
      BY <2>3 DEF Fewer
    <3> QED BY <1>1, <2>1, <2>3, <2>4, <3>1, SameStamp
  <2> QED BY <1>1, <2>1, <2>4, <2>5, <2>6, BackendStamp, StampPrime DEF Prov
<1>7. ASSUME NEW w \in Writers, RequestFlush(w) \/ Flush(w) \/ Acknowledge(w)
      PROVE  Prov'
  <2>1. /\ UNCHANGED <<file, index, read, batch, births, seen, pending, queued, adrift,
                       backend, appended>>
        /\ at[w] \in {"idle", "flush", "ack"}
        /\ \E stage \in {"idle", "flush", "commit", "finished"} : at' = [at EXCEPT ![w] = stage]
        /\ head' = head \/ head' = [head EXCEPT ![w] = read[w]]
    BY <1>7 DEF RequestFlush, Flush, Acknowledge, disk, sink, sdk
  <2>2. \A v \in Writers : /\ at'[v] \in {"persist", "record"} => at[v] \in {"persist", "record"}
                           /\ v # w => at'[v] = at[v] /\ head'[v] = head[v]
    BY <1>1, <2>1 DEF TypeOK
  <2>3. at[w] # "persist" /\ at'[w] # "persist"
    BY <1>1, <2>1 DEF TypeOK
  <2>4. FileInv' /\ IndexInv' /\ Keeps /\ Origin' = Origin /\ FileDone' = FileDone
    BY <2>1, <2>2, SameFile
  <2>5. \A v \in Writers : Fewer(v)
    BY <2>1 DEF Fewer
  <2>6. StampNext(w)
    BY <1>1, <2>1, <2>3, <2>4, <2>5, FrameStamp
  <2>7. \A v \in Writers : v # w => StampNext(v)
    BY <1>1, <2>1, <2>2, <2>4, <2>5, SameStamp
  <2> QED BY <1>1, <2>1, <2>4, <2>6, <2>7, BackendStamp, StampPrime DEF Prov
<1>8. ASSUME NEW w \in Writers, Upload(w) \/ Reject(w)
      PROVE  Prov'
  <2>1. /\ UNCHANGED <<file, index, head, at, read, batch, births, seen, pending, adrift, appended>>
        /\ queued[w] # <<>> /\ queued' = [queued EXCEPT ![w] = Tail(queued[w])]
    BY <1>8 DEF Upload, Reject, disk, sink
  <2>2. FileInv' /\ IndexInv' /\ Keeps /\ Origin' = Origin /\ FileDone' = FileDone
    BY <2>1, SameFile
  <2>3. queued \in [Writers -> Seq(Rows)] /\ queued[w] \in Seq(Rows) /\ queued[w] # <<>>
        /\ Len(queued[w]) \in Nat /\ Len(queued[w]) > 0
    <3>1. queued \in [Writers -> Seq(Rows)] /\ queued[w] \in Seq(Rows) /\ queued[w] # <<>>
      BY <1>1, <2>1 DEF TypeOK
    <3> QED BY <3>1
  <2>4. \A v \in Writers : Fewer(v)
    <3>1. \A v \in Writers : v # w => queued'[v] = queued[v]
      BY <2>1, <2>3
    <3>2. queued'[w] = Tail(queued[w])
      BY <2>1, <2>3
    <3>3. Len(queued'[w]) = Len(queued[w]) - 1
          /\ \A k \in 1..Len(queued[w]) - 1 : queued'[w][k] = queued[w][k + 1]
                                              /\ k + 1 \in 1..Len(queued[w])
      BY <2>3, <3>2, HeadTailProperties
    <3>4. Fewer(w)
      BY <3>3 DEF Fewer
    <3> QED BY <3>1, <3>4 DEF Fewer
  <2>5. \A v \in Writers : StampNext(v)
    BY <1>1, <2>1, <2>2, <2>4, SameStamp
  <2>6. \A s \in Spans : \A o \in backend'.stamps[s] : RightNext(s, o)
    <3>1. CASE backend' = backend
      BY <1>1, <2>2, <3>1, BackendStamp
    <3>2. CASE Upload(w)
      <4> DEFINE row == Head(queued[w])
                 t == row.op.span
      <4>1. row = queued[w][1] /\ 1 \in 1..Len(queued[w])
        BY <2>3
      <4>2. RightNext(t, row.origin)
        <5>1. t \in Spans /\ Right(t, row.origin)
          BY <1>1, <4>1, SpanFacts DEF StampOf
        <5> HIDE DEF row
        <5> QED BY <2>2, <5>1, KeepsRight
      <4>3. backend' = [backend EXCEPT
               !.rows = backend.rows \cup {row.op},
               !.stamps[t] = backend.stamps[t] \cup {row.origin},
               !.done = IF row.op.ends THEN backend.done \cup {t} ELSE backend.done,
               !.late = IF row.op.key = NoKey THEN backend.late
                        ELSE backend.late \cup {LateId(row.op)},
               !.version[t] = IF row.op.version = NoVersion
                              THEN backend.version[t] ELSE row.op.version]
        BY <3>2 DEF Upload
      <4>4. \A s \in Spans : backend'.stamps[s] \subseteq
                                backend.stamps[s] \cup (IF s = t THEN {row.origin} ELSE {})
        <5>1. /\ backend \in [rows : SUBSET Operations, stamps : [Spans -> SUBSET Origins],
                              done : SUBSET Spans, late : SUBSET LateIds,
                              version : [Spans -> Versions]]
          BY <1>1, Zenon DEF TypeOK
        <5> HIDE DEF row, t
        <5>2. backend'.stamps = [backend.stamps EXCEPT ![t] = backend.stamps[t] \cup {row.origin}]
          BY <4>3, <5>1
        <5> QED BY <5>1, <5>2
      <4>5. \A s \in Spans : \A o \in backend.stamps[s] : RightNext(s, o)
        BY <1>1, <2>2, KeepsRight DEF StampInv
      <4> HIDE DEF row, t
      <4> QED BY <4>2, <4>4, <4>5
    <3> QED BY <1>8, <3>1, <3>2 DEF Reject
  <2> QED BY <2>2, <2>5, <2>6, StampPrime DEF Prov
<1>9. ASSUME NEW w \in Writers, Resubmit(w) \/ Restart(w)
      PROVE  Prov'
  <2>1. /\ Lose(w) /\ UNCHANGED <<file, index, head, adrift, backend, appended>>
    BY <1>9 DEF Resubmit, Restart, disk
  <2>2. /\ at' = [at EXCEPT ![w] = "closed"] /\ seen' = [seen EXCEPT ![w] = 0]
        /\ read' = [read EXCEPT ![w] = head[w]] /\ batch' = [batch EXCEPT ![w] = <<>>]
        /\ births' = [births EXCEPT ![w] = NoBirths] /\ pending' = [pending EXCEPT ![w] = Nothing]
        /\ \A v \in Writers : queued'[v] = queued[v] \/ (v = w /\ queued'[v] = <<>>)
    BY <2>1, LoseFacts
  <2>3. \A v \in Writers :
          /\ seen'[v] = seen[v] \/ (seen'[v] = 0 /\ at'[v] \notin {"persist", "record"})
          /\ at'[v] \in {"persist", "record"} => at[v] \in {"persist", "record"}
          /\ v # w => /\ at'[v] = at[v] /\ batch'[v] = batch[v] /\ births'[v] = births[v]
                      /\ pending'[v] = pending[v] /\ read'[v] = read[v] /\ queued'[v] = queued[v]
    <3>1. ASSUME NEW v \in Writers
          PROVE  /\ at'[v] = IF v = w THEN "closed" ELSE at[v]
                 /\ seen'[v] = IF v = w THEN 0 ELSE seen[v]
                 /\ v # w => /\ batch'[v] = batch[v] /\ births'[v] = births[v]
                             /\ pending'[v] = pending[v] /\ read'[v] = read[v]
      BY <1>1, <2>2 DEF TypeOK
    <3>2. \A v \in Writers : v # w => queued'[v] = queued[v]
      BY <2>2
    <3>3. ASSUME NEW v \in Writers, v # w
          PROVE  /\ at'[v] = at[v] /\ batch'[v] = batch[v] /\ births'[v] = births[v]
                 /\ pending'[v] = pending[v] /\ read'[v] = read[v] /\ queued'[v] = queued[v]
                 /\ seen'[v] = seen[v]
      BY <3>1, <3>2, <3>3
    <3>4. at'[w] = "closed" /\ seen'[w] = 0
      BY <3>1
    <3> QED BY <3>3, <3>4
  <2>4. FileInv' /\ IndexInv' /\ Keeps /\ Origin' = Origin /\ FileDone' = FileDone
    BY <2>1, <2>3, SameFile
  <2>5. StampNext(w)
    BY <1>1, <2>1, <2>4, LoseStamp
  <2>6. \A v \in Writers : v # w => StampNext(v)
    <3>1. \A v \in Writers : v # w => Fewer(v)
      BY <2>3 DEF Fewer
    <3> QED BY <1>1, <2>1, <2>3, <2>4, <3>1, SameStamp
  <2> QED BY <1>1, <2>1, <2>4, <2>5, <2>6, BackendStamp, StampPrime DEF Prov
<1>10. ASSUME NEW w \in Writers, AppendFails(w)
       PROVE  Prov'
  <2>1. /\ lock = w /\ UNCHANGED <<index, head, adrift, backend, appended>>
        /\ \/ /\ at[w] = "record"
              /\ at' = [at EXCEPT ![w] = "flush"] /\ lock' = Nobody
              /\ UNCHANGED <<read, batch, births, seen, known, pending, queued, rejected, run>>
           \/ Lose(w)
    BY <1>10, FailFacts
  <2>2. \A v \in Writers : at'[v] \notin {"persist", "record"}
    <3>1. lock' = Nobody
      BY <2>1, LoseFacts
    <3> QED BY <3>1, LedgerAssumption DEF Base, StageInv
  <2>3. FileInv' /\ IndexInv' /\ Keeps
    BY <1>10, <2>2, FailedProv
  <2>4. ASSUME NEW v \in Writers PROVE StampNext(v)
    <3>1. v # w => at[v] # "persist"
      BY <2>1 DEF Base, StageInv
    <3>2. CASE Lose(w)
      <4>1. CASE v = w
        BY <1>1, <2>3, <3>2, <4>1, LoseStamp
      <4>2. CASE v # w
        <5>1. /\ read' = [read EXCEPT ![w] = head[w]] /\ batch' = [batch EXCEPT ![w] = <<>>]
              /\ pending' = [pending EXCEPT ![w] = Nothing]
              /\ queued'[v] = queued[v]
          BY <3>2, <4>2, LoseFacts
        <5>2. read'[v] = read[v] /\ batch'[v] = batch[v] /\ pending'[v] = pending[v] /\ Fewer(v)
          BY <1>1, <4>2, <5>1 DEF TypeOK, Fewer
        <5> QED BY <1>1, <2>2, <2>3, <3>1, <4>2, <5>2, FrameStamp
      <4> QED BY <4>1, <4>2
    <3>3. CASE /\ at[w] = "record"
               /\ UNCHANGED <<read, batch, births, seen, known, pending, queued, rejected, run>>
      <4>1. at[v] # "persist" /\ Fewer(v)
        BY <3>1, <3>3 DEF Fewer
      <4> QED BY <1>1, <2>2, <2>3, <3>3, <4>1, FrameStamp
    <3> QED BY <2>1, <3>2, <3>3
  <2> QED BY <1>1, <2>1, <2>3, <2>4, BackendStamp, StampPrime DEF Prov
<1>11. ASSUME NEW w \in Writers, Abort(w) \/ LateWrite(w)
       PROVE  FALSE
  <2>1. CASE Abort(w)
    <3>1. aborts' = aborts + 1 /\ aborts \in Nat
      BY <1>1, <2>1 DEF Abort, TypeOK
    <3> QED BY <3>1
  <2>2. CASE LateWrite(w)
    BY <1>1, <2>2 DEF LateWrite, FileInv
  <2> QED BY <1>11, <2>1, <2>2
<1> QED BY <1>2, <1>3, <1>4, <1>5, <1>6, <1>7, <1>8, <1>9, <1>10, <1>11 DEF Next, Work

(* Provenance holds at the start.                                             *)
LEMMA ProvInit == ASSUME Init PROVE ProvenanceInv
<1>1. PICK legacy \in Legacies :
        /\ legacy \subseteq Spans
        /\ \/ legacy = {} /\ file = <<>>
           \/ /\ legacy # {} /\ Len(file) = 1 /\ file \in Seq(RecordSet)
              /\ file[1].form = "whole" /\ file[1].origins = NoBirths
              /\ file[1].delivered.done = legacy /\ file[1].delivered.late = {}
              /\ file[1].delivered.versions = Nothing.versions
        /\ \A s \in Spans : backend.stamps[s] = IF s \in legacy THEN {NoOrigin} ELSE {}
  BY StartFacts, Zenon
<1>2. /\ \A w \in Writers : /\ adrift[w] = <<>> /\ seen[w] = 0 /\ at[w] = "closed"
                            /\ queued[w] = <<>> /\ batch[w] = <<>> /\ read[w] = 0
                            /\ pending[w] = Nothing
      /\ appended = {} /\ index = NoIndex
  BY DEF Init
<1>3. \A n \in 1..Len(file) : /\ n = 1 /\ file[n].form = "whole" /\ file[n].origins = NoBirths
                              /\ file[n].delivered.done = legacy
  <2>1. CASE file = <<>>
    <3>1. 1..Len(file) = {}
      BY <2>1
    <3> QED BY <3>1, Zenon
  <2>2. CASE file # <<>>
    <3>1. /\ Len(file) = 1 /\ file[1].form = "whole" /\ file[1].origins = NoBirths
          /\ file[1].delivered.done = legacy
      BY <1>1, <2>2, Zenon
    <3>2. 1..Len(file) = {1}
      BY <3>1
    <3>3. \A n \in 1..Len(file) : n = 1
      BY <3>2, Zenon
    <3> QED BY <3>1, <3>3, Zenon
  <2> QED BY <2>1, <2>2, Zenon
<1>4. Whole = 1..Len(file) /\ Whole \subseteq Nat
  BY <1>3 DEF Whole
<1>5. FileDone = legacy
  <2>1. CASE legacy = {}
    <3>1. Len(file) = 0
      BY <1>1, <2>1
    <3> QED BY <1>4, <2>1, <3>1 DEF FileDone
  <2>2. CASE legacy # {}
    <3>0. Len(file) = 1
      BY <1>1, <2>2
    <3>1. 1..Len(file) = {1}
      BY <3>0
    <3> QED BY <1>3, <1>4, <3>1 DEF FileDone
  <2> QED BY <2>1, <2>2
<1>6. ASSUME NEW s \in Spans PROVE Origin[s] = NoOrigin
  <2>1. \A n \in Whole : file[n].origins[s] = NoOrigin
    BY <1>3, <1>4 DEF NoBirths
  <2>2. IsFirst(Origin[s], s, file, Whole)
    BY <1>4, FirstOriginFacts DEF Origin
  <2> QED BY <2>1, <2>2 DEF IsFirst
<1>7. ClosedInv
  BY <1>2 DEF ClosedInv
<1>8. FileInv
  BY <1>2, <1>3 DEF FileInv
<1>9. IndexInv
  BY <1>2 DEF IndexInv, NoIndex, NoBirths
<1>10. StampInv
  <2>1. \A s \in Spans : \A o \in backend.stamps[s] : Right(s, o)
    BY <1>1, <1>5, <1>6 DEF Right
  <2>2. \A w \in Writers : StampOf(w)
    BY <1>2 DEF StampOf, Nothing
  <2> QED BY <2>1, <2>2 DEF StampInv
<1> QED BY <1>7, <1>8, <1>9, <1>10 DEF ProvenanceInv, Prov

(* While no sink was aborted: the file is whole records with at most one torn *)
(* line behind them, the index agrees with it, and every row that is queued   *)
(* or accepted has the origin that the file gives its span                    *)
(* (DeliveryLedger::refresh, append, select_origins).                         *)
THEOREM ProvenanceIsInvariant == Spec => []ProvenanceInv
<1>1. Init => ProvenanceInv
  BY ProvInit
<1>2. Base /\ Base' /\ ProvenanceInv /\ [Next]_vars => ProvenanceInv'
  <2> SUFFICES ASSUME Base, Base', ProvenanceInv, [Next]_vars
               PROVE  ProvenanceInv'
    OBVIOUS
  <2>1. ClosedInv'
    BY ClosedStep DEF ProvenanceInv
  <2>2. ASSUME aborts' = 0 PROVE Prov'
    <3>1. aborts = 0
      <4>1. aborts \in Nat
        BY DEF Base, TypeOK
      <4>2. aborts' = aborts \/ aborts' = aborts + 1
        BY ZenonT(40) DEF Next, Work, vars, bounds, Open, Select, PersistBirths, Send, RequestFlush, Flush,
               Commit, RecordDelivered, Acknowledge, Resubmit, Upload, LateWrite, Reject, Restart,
               AppendFails, Abort, Fault
      <4> QED BY <2>2, <4>1, <4>2
    <3> QED BY <2>2, <3>1, ProvStep DEF ProvenanceInv
  <2> QED BY <2>1, <2>2 DEF ProvenanceInv
<1> QED BY <1>1, <1>2, StagesAreInvariant, PTL DEF Spec

(* "The delivery ledger persists each snapshot before export; later updates,  *)
(* resume, and replay reuse it unchanged": whatever writers, crashes, failed  *)
(* appends and upgrades do, the rows of a span never reach the destination    *)
(* with two different origins, nor some with and some without one, unless a   *)
(* sink was aborted (delivery_ledger.rs, delivery_ledger/origins.rs).         *)
THEOREM ProvenanceIsStable == Spec => []StableProvenance
<1>1. ProvenanceInv => StableProvenance
  <2> SUFFICES ASSUME ProvenanceInv, aborts = 0, NEW s \in Spans
               PROVE  Cardinality(backend.stamps[s]) <= 1
    BY DEF StableProvenance
  <2> DEFINE stamps == backend.stamps[s]
  <2>1. \A o \in stamps : o = Origin[s]
    BY DEF ProvenanceInv, Prov, StampInv, Right
  <2>2. stamps = {} \/ stamps = {Origin[s]}
    BY <2>1
  <2> HIDE DEF stamps
  <2>3. Cardinality({}) = 0 /\ Cardinality({Origin[s]}) = 1
    BY FS_EmptySet, FS_Singleton, Zenon
  <2>4. Cardinality(stamps) \in {0, 1}
    BY <2>2, <2>3
  <2>5. Cardinality(stamps) <= 1
    BY <2>4
  <2> QED BY <2>5 DEF stamps
<1> QED BY <1>1, ProvenanceIsInvariant, PTL
------------------------------------------------------------------------------
(* Faithfulness: what the ledger says was accepted was.                       *)

(* Of a version, of a record, and of what is remembered until it is recorded; *)
(* of an operation that was read.                                             *)
Accepts(v, s, B) == v = NoVersion \/ \E op \in B.rows : op.span = s /\ op.version = v
Honest(delivered, B) ==
    /\ delivered.done \subseteq B.done
    /\ delivered.late \subseteq B.late
    /\ \A s \in Spans : Accepts(delivered.versions[s], s, B)
Going(delivered, ops, B) ==
    /\ \A s \in delivered.done : s \in B.done \/ \E op \in ops : op.span = s /\ op.ends
    /\ \A id \in delivered.late :
          id \in B.late \/ \E op \in ops : op.key # NoKey /\ LateId(op) = id
    /\ \A s \in Spans :
          \/ Accepts(delivered.versions[s], s, B)
          \/ \E op \in ops : op.span = s /\ op.version = delivered.versions[s]
Shown(op, B) ==
    \/ op \in B.rows
    \/ op.key = NoKey /\ op.span \in B.done
    \/ op.key # NoKey /\ LateId(op) \in B.late
    \/ \E row \in B.rows : row.span = op.span /\ row.version.ts > op.version.ts
Covers(ops, op) ==
    \/ op \in ops
    \/ op.key = NoKey /\ \E o \in ops : o.ends /\ o.span = op.span
    \/ op.key # NoKey /\ \E o \in ops : o.key # NoKey /\ LateId(o) = LateId(op)
    \/ \E o \in ops : o.span = op.span /\ o.version.ts > op.version.ts

FileFaith == \A n \in 1..Len(file) : Honest(file[n].delivered, backend)
DriftFaith == \A w \in Writers : adrift[w] # <<>> => Honest(adrift[w][2].delivered, backend)
IndexFaith == index.done \subseteq backend.done /\ index.late \subseteq backend.late
KnownFaith == \A w \in Writers : \A s \in Spans : Accepts(known[w][s], s, backend)
PendingFaith == \A w \in Writers : at[w] \in {"commit", "record"} => Honest(pending[w], backend)
FaithInv == FileFaith /\ DriftFaith /\ IndexFaith /\ KnownFaith /\ PendingFaith

(* Unless a row was rejected, what a writer took and what it will record was  *)
(* accepted or is on its way; and what it acknowledges was accepted, or is    *)
(* covered by what was.                                                       *)
Sending(w) == {queued[w][k].op : k \in 1..Len(queued[w])}
Batch(w) == {batch[w][k].op : k \in 1..Len(batch[w])}
ReadOf(w) ==
    /\ rejected[w] \/ Going(pending[w], Sending(w), backend)
    /\ \/ rejected[w]
       \/ \A k \in 1..read[w] :
             Shown(Input[w][k], backend) \/ Covers(Sending(w) \cup Batch(w), Input[w][k])
    /\ at[w] \in {"commit", "record", "ack"} => \A k \in 1..read[w] : Shown(Input[w][k], backend)
    /\ \A k \in 1..head[w] : Shown(Input[w][k], backend)
ReadInv == \A w \in Writers : ReadOf(w)

(* The destination only accepts more.                                         *)
Grown == /\ backend.rows \subseteq backend'.rows /\ backend.done \subseteq backend'.done
         /\ backend.late \subseteq backend'.late

(* What was accepted, shown or on its way stays so.                           *)
LEMMA GrownFacts ==
  ASSUME Grown
  PROVE  /\ \A d : Honest(d, backend) => Honest(d, backend')
         /\ \A v, s : Accepts(v, s, backend) => Accepts(v, s, backend')
         /\ \A op : Shown(op, backend) => Shown(op, backend')
         /\ \A d, ops : Going(d, ops, backend) => Going(d, ops, backend')
<1>1. \A v, s : Accepts(v, s, backend) => Accepts(v, s, backend')
  BY DEF Grown, Accepts
<1>2. \A d : Honest(d, backend) => Honest(d, backend')
  BY <1>1 DEF Grown, Honest
<1>3. \A op : Shown(op, backend) => Shown(op, backend')
  BY DEF Grown, Shown
<1>4. \A d, ops : Going(d, ops, backend) => Going(d, ops, backend')
  BY <1>1 DEF Grown, Going
<1> QED BY <1>1, <1>2, <1>3, <1>4

(* An upload: the row is accepted, and so is all that it covers.              *)
LEMMA UploadFacts ==
  ASSUME Base, NEW w \in Writers, Upload(w)
  PROVE  /\ Grown /\ queued[w] # <<>> /\ queued' = [queued EXCEPT ![w] = Tail(queued[w])]
         /\ Head(queued[w]).op \in backend'.rows
         /\ Head(queued[w]).op.ends => Head(queued[w]).op.span \in backend'.done
         /\ Head(queued[w]).op.key # NoKey => LateId(Head(queued[w]).op) \in backend'.late
<1> DEFINE row == Head(queued[w])
           t == row.op.span
<1>1. /\ queued[w] # <<>> /\ queued' = [queued EXCEPT ![w] = Tail(queued[w])]
      /\ backend' = [backend EXCEPT
           !.rows = backend.rows \cup {row.op},
           !.stamps[t] = backend.stamps[t] \cup {row.origin},
           !.done = IF row.op.ends THEN backend.done \cup {t} ELSE backend.done,
           !.late = IF row.op.key = NoKey THEN backend.late
                    ELSE backend.late \cup {LateId(row.op)},
           !.version[t] = IF row.op.version = NoVersion
                          THEN backend.version[t] ELSE row.op.version]
  BY DEF Upload
<1>2. backend \in [rows : SUBSET Operations, stamps : [Spans -> SUBSET Origins],
                   done : SUBSET Spans, late : SUBSET LateIds, version : [Spans -> Versions]]
  BY Zenon DEF Base, TypeOK
<1> HIDE DEF row, t
<1>3. /\ backend'.rows = backend.rows \cup {row.op}
      /\ backend'.done = IF row.op.ends THEN backend.done \cup {t} ELSE backend.done
      /\ backend'.late = IF row.op.key = NoKey THEN backend.late
                         ELSE backend.late \cup {LateId(row.op)}
  BY <1>1, <1>2
<1>4. /\ Grown /\ row.op \in backend'.rows
      /\ row.op.ends => t \in backend'.done
      /\ row.op.key # NoKey => LateId(row.op) \in backend'.late
  BY <1>3 DEF Grown
<1> QED BY <1>1, <1>4 DEF row, t

(* Every step only adds to what the destination accepted.                     *)
LEMMA BackendGrows == ASSUME Base, [Next]_vars PROVE Grown
<1>1. ASSUME NEW w \in Writers, Upload(w) PROVE Grown
  BY <1>1, UploadFacts
<1>2. CASE backend' = backend
  BY <1>2 DEF Grown
<1> QED BY <1>1, <1>2, Zenon DEF Next, Work, vars, Open, Select, PersistBirths, Send, RequestFlush,
           Flush, Commit, RecordDelivered, Acknowledge, Resubmit, LateWrite, Reject, Restart,
           AppendFails, Abort

(* What stays as it is stays honest.                                          *)
LEMMA SameFaith ==
  ASSUME FaithInv, Grown
  PROVE  /\ file' = file => FileFaith'
         /\ adrift' = adrift => DriftFaith'
         /\ index' = index => IndexFaith'
         /\ known' = known => KnownFaith'
         /\ (\A w \in Writers : at'[w] \in {"commit", "record"} =>
                at[w] \in {"commit", "record"} /\ pending'[w] = pending[w]) => PendingFaith'
<1>1. /\ \A d : Honest(d, backend) => Honest(d, backend')
      /\ \A v, s : Accepts(v, s, backend) => Accepts(v, s, backend')
  BY GrownFacts
<1>2. file' = file => FileFaith'
  <2>1. SUFFICES ASSUME file' = file PROVE \A n \in 1..Len(file') : Honest(file'[n].delivered, backend')
    BY DEF FileFaith
  <2> QED BY <1>1, <2>1 DEF FaithInv, FileFaith
<1>3. adrift' = adrift => DriftFaith'
  BY <1>1 DEF FaithInv, DriftFaith
<1>4. index' = index => IndexFaith'
  BY DEF FaithInv, IndexFaith, Grown
<1>5. known' = known => KnownFaith'
  BY <1>1 DEF FaithInv, KnownFaith
<1>6. (\A w \in Writers : at'[w] \in {"commit", "record"} =>
          at[w] \in {"commit", "record"} /\ pending'[w] = pending[w]) => PendingFaith'
  BY <1>1 DEF FaithInv, PendingFaith
<1> QED BY <1>2, <1>3, <1>4, <1>5, <1>6

(* Nothing claims nothing.                                                    *)
LEMMA NothingHonest ==
  /\ \A B : Honest(Nothing, B) /\ \A ops : Going(Nothing, ops, B)
  /\ Torn.delivered = Nothing /\ Garbled.delivered = Nothing
BY DEF Honest, Going, Nothing, Accepts, Torn, Garbled

(* What is about to be appended.                                              *)
LEMMA RecordHonest ==
  ASSUME Base, FaithInv, NEW w \in Writers, at[w] \in {"persist", "record"}
  PROVE  Honest(Record(w).delivered, backend)
<1>1. CASE at[w] = "persist"
  BY <1>1, RecordFacts, NothingHonest DEF Base
<1>2. CASE at[w] = "record"
  <2>1. Record(w).delivered = Delivered(w)
    BY <1>2, RecordFacts DEF Base
  <2>2. Honest(pending[w], backend)
    BY <1>2 DEF FaithInv, PendingFaith
  <2>3. Honest(Delivered(w), backend)
    BY <2>2 DEF Honest, Delivered
  <2> QED BY <2>1, <2>3
<1> QED BY <1>1, <1>2

(* A file that gains an honest record stays honest.                           *)
LEMMA WriteFaith ==
  ASSUME Base, FaithInv, Grown, NEW w \in Writers, NEW record, Writes(w, record),
         Honest(record.delivered, backend)
  PROVE  FileFaith'
<1>1. /\ Len(file') = seen[w] + 1 /\ file'[seen[w] + 1] = record
      /\ \A n \in 1..seen[w] : file'[n] = file[n]
      /\ seen[w] \in Nat /\ seen[w] <= Len(file) /\ Len(file) \in Nat
  BY DEF Writes, Base, TypeOK, SeenInv
<1>2. ASSUME NEW n \in 1..Len(file') PROVE Honest(file'[n].delivered, backend)
  <2>1. n \in 1..seen[w] \/ n = seen[w] + 1
    BY <1>1
  <2>2. CASE n \in 1..seen[w]
    <3>1. n \in 1..Len(file) /\ file'[n] = file[n]
      BY <1>1, <2>2
    <3> QED BY <3>1 DEF FaithInv, FileFaith
  <2>3. CASE n = seen[w] + 1
    BY <1>1, <2>3
  <2> QED BY <2>1, <2>2, <2>3
<1>3. \A n \in 1..Len(file') : Honest(file'[n].delivered, backend')
  BY <1>2, GrownFacts
<1> QED BY <1>3 DEF FileFaith

(* What a refresh reads is honest.                                            *)
LEMMA RefreshFaith ==
  ASSUME Base, FaithInv, Grown, NEW w \in Writers
  PROVE  /\ \A idx \in {NoIndex, index} : index' = RememberAll(idx, Unread(w)) => IndexFaith'
         /\ known' = [known EXCEPT ![w] = KnownAfter(w)] => KnownFaith'
         /\ RememberAll(index, Unread(w)).done \subseteq backend.done
         /\ RememberAll(index, Unread(w)).late \subseteq backend.late
         /\ \A s \in Spans : Accepts(KnownAfter(w)[s], s, backend)
<1>1. \A n \in Unread(w) : Honest(file[n].delivered, backend)
  <2>1. Unread(w) \subseteq 1..Len(file)
    BY UnreadFacts DEF Base
  <2> QED BY <2>1 DEF FaithInv, FileFaith
<1>2. ASSUME NEW idx \in {NoIndex, index}
      PROVE  /\ RememberAll(idx, Unread(w)).done \subseteq backend.done
             /\ RememberAll(idx, Unread(w)).late \subseteq backend.late
  <2>1. idx.done \subseteq backend.done /\ idx.late \subseteq backend.late
    BY DEF FaithInv, IndexFaith, NoIndex
  <2>2. \A n \in Unread(w) : /\ file[n].delivered.done \subseteq backend.done
                             /\ file[n].delivered.late \subseteq backend.late
    BY <1>1 DEF Honest
  <2> QED BY <2>1, <2>2 DEF RememberAll
<1>3. \A idx \in {NoIndex, index} : index' = RememberAll(idx, Unread(w)) => IndexFaith'
  BY <1>2 DEF IndexFaith, Grown
<1>4. \A s \in Spans : Accepts(KnownAfter(w)[s], s, backend)
  <2>1. \A s \in Spans : Accepts(known[w][s], s, backend)
    BY DEF FaithInv, KnownFaith
  <2>2. \A s \in Spans, n \in Unread(w) : Accepts(file[n].delivered.versions[s], s, backend)
    BY <1>1 DEF Honest
  <2>3. \A s \in Spans : \/ KnownAfter(w)[s] = known[w][s]
                         \/ \E n \in Unread(w) : KnownAfter(w)[s] = file[n].delivered.versions[s]
    BY RefreshFacts DEF Base
  <2> QED BY <2>1, <2>2, <2>3
<1>5. known' = [known EXCEPT ![w] = KnownAfter(w)] => KnownFaith'
  <2>1. SUFFICES ASSUME known' = [known EXCEPT ![w] = KnownAfter(w)], NEW v \in Writers, NEW s \in Spans
                 PROVE  Accepts(known'[v][s], s, backend')
    BY DEF KnownFaith
  <2>2. known'[v] = IF v = w THEN KnownAfter(w) ELSE known[v]
    BY <2>1 DEF Base, TypeOK
  <2>3. Accepts(known'[v][s], s, backend)
    BY <1>4, <2>2 DEF FaithInv, KnownFaith
  <2> QED BY <2>3, GrownFacts
<1> QED BY <1>2, <1>3, <1>4, <1>5

(* A lost sink claims nothing.                                                *)
LEMMA LoseFaith ==
  ASSUME Base, FaithInv, Grown, NEW w \in Writers, Lose(w)
  PROVE  KnownFaith' /\ PendingFaith'
<1>1. /\ known' = [known EXCEPT ![w] = Nothing.versions]
      /\ pending' = [pending EXCEPT ![w] = Nothing]
      /\ at' = [at EXCEPT ![w] = "closed"]
  BY LoseFacts
<1>2. /\ \A v \in Writers : v # w => /\ known'[v] = known[v] /\ pending'[v] = pending[v]
                                     /\ at'[v] = at[v]
      /\ known'[w] = Nothing.versions /\ at'[w] = "closed"
  BY <1>1 DEF Base, TypeOK
<1>3. \A s \in Spans : Accepts(Nothing.versions[s], s, backend)
  BY DEF Nothing, Accepts
<1>4. \A v \in Writers, s \in Spans : Accepts(known'[v][s], s, backend)
  BY <1>2, <1>3 DEF FaithInv, KnownFaith
<1>5. KnownFaith'
  BY <1>4, GrownFacts DEF KnownFaith
<1>6. PendingFaith'
  BY <1>2, SameFaith
<1> QED BY <1>5, <1>6
------------------------------------------------------------------------------
(* What was read: a writer at rest, or one that moves on.                     *)
LEMMA StageRead ==
  ASSUME NEW w \in Writers, ReadOf(w), Grown, pending[w].done \subseteq Spans,
         queued'[w] = queued[w], batch'[w] = batch[w], rejected'[w] = rejected[w],
         read'[w] = read[w],
         pending'[w].done \subseteq pending[w].done, pending'[w].late \subseteq pending[w].late,
         \A s \in Spans : pending'[w].versions[s] \in {NoVersion, pending[w].versions[s]},
         at'[w] \in {"commit", "record", "ack"} => at[w] \in {"commit", "record", "ack"},
         head'[w] = head[w] \/ (at[w] = "ack" /\ head'[w] = read[w])
  PROVE  ReadOf(w)'
<1>1. /\ \A op : Shown(op, backend) => Shown(op, backend')
      /\ \A d, ops : Going(d, ops, backend) => Going(d, ops, backend')
  BY GrownFacts
<1>2. Sending(w)' = Sending(w) /\ Batch(w)' = Batch(w)
  BY DEF Sending, Batch
<1>3. ASSUME NEW ops, Going(pending[w], ops, backend) PROVE Going(pending'[w], ops, backend')
  <2>1. Going(pending[w], ops, backend')
    BY <1>1, <1>3
  <2>2. \A s \in Spans : \/ Accepts(pending'[w].versions[s], s, backend')
                         \/ \E op \in ops : op.span = s /\ op.version = pending'[w].versions[s]
    BY <2>1 DEF Going, Accepts
  <2>3. /\ \A s \in pending'[w].done : s \in backend'.done \/ \E op \in ops : op.span = s /\ op.ends
        /\ \A id \in pending'[w].late :
              id \in backend'.late \/ \E op \in ops : op.key # NoKey /\ LateId(op) = id
    BY <2>1 DEF Going
  <2> QED BY <2>2, <2>3 DEF Going
<1>4. (rejected[w] \/ Going(pending[w], Sending(w), backend))'
  BY <1>2, <1>3 DEF ReadOf
<1>5. (\/ rejected[w]
       \/ \A k \in 1..read[w] :
            Shown(Input[w][k], backend) \/ Covers(Sending(w) \cup Batch(w), Input[w][k]))'
  BY <1>1, <1>2, Zenon DEF ReadOf
<1>6. (at[w] \in {"commit", "record", "ack"} => \A k \in 1..read[w] : Shown(Input[w][k], backend))'
  BY <1>1 DEF ReadOf
<1>7. (\A k \in 1..head[w] : Shown(Input[w][k], backend))'
  BY <1>1 DEF ReadOf
<1> QED BY <1>4, <1>5, <1>6, <1>7, Zenon DEF ReadOf

(* One that did nothing.                                                      *)
LEMMA SameRead ==
  ASSUME Base, NEW w \in Writers, ReadOf(w), Grown,
         queued'[w] = queued[w], batch'[w] = batch[w], rejected'[w] = rejected[w],
         read'[w] = read[w], pending'[w] = pending[w], at'[w] = at[w], head'[w] = head[w]
  PROVE  ReadOf(w)'
BY StageRead, SpanFacts

(* One that lost its sink.                                                    *)
LEMMA LoseRead ==
  ASSUME Base, NEW w \in Writers, ReadOf(w), Grown, Lose(w), head' = head
  PROVE  ReadOf(w)'
<1>1. /\ at'[w] = "closed" /\ read'[w] = head[w] /\ pending'[w] = Nothing /\ head'[w] = head[w]
  BY LoseFacts DEF Base, TypeOK
<1>2. \A k \in 1..head[w] : Shown(Input[w][k], backend')
  BY GrownFacts DEF ReadOf
<1>3. Going(pending'[w], Sending(w)', backend')
  BY <1>1, NothingHonest
<1> QED BY <1>1, <1>2, <1>3 DEF ReadOf

(* One whose flush succeeded: nothing is on its way any more.                 *)
LEMMA FlushRead ==
  ASSUME Base, NEW w \in Writers, ReadOf(w), Flush(w)
  PROVE  ReadOf(w)' /\ Honest(pending[w], backend)
<1>1. /\ at[w] = "flush" /\ queued[w] = <<>> /\ ~rejected[w] /\ batch[w] = <<>>
      /\ UNCHANGED <<head, read, batch, pending, queued, rejected, backend>>
  BY DEF Flush, sink, sdk, Base, StageInv
<1>2. Sending(w) = {} /\ Batch(w) = {} /\ Sending(w)' = Sending(w) /\ Batch(w)' = Batch(w)
  BY <1>1 DEF Sending, Batch
<1>3. Going(pending[w], {}, backend)
  BY <1>1, <1>2 DEF ReadOf
<1>4. Honest(pending[w], backend)
  BY <1>3 DEF Going, Honest
<1>5. \A k \in 1..read[w] : Shown(Input[w][k], backend)
  <2>1. \A op : ~Covers({}, op)
    BY DEF Covers
  <2> QED BY <1>1, <1>2, <2>1 DEF ReadOf
<1>6. \A k \in 1..head[w] : Shown(Input[w][k], backend)
  BY DEF ReadOf
<1>7. ReadOf(w)'
  BY <1>1, <1>2, <1>3, <1>5, <1>6 DEF ReadOf
<1> QED BY <1>4, <1>7

(* One whose rows the SDK takes.                                              *)
LEMMA SendRead ==
  ASSUME Base, NEW w \in Writers, ReadOf(w), Send(w)
  PROVE  ReadOf(w)'
<1>1. /\ at'[w] \in {"idle", "flush"} /\ batch'[w] = <<>>
      /\ UNCHANGED <<head, read, rejected, backend>>
  BY DEF Send, Base, TypeOK
<1>2. /\ queued[w] \in Seq(Rows) /\ batch[w] \in Seq(Rows)
      /\ Len(queued[w]) \in Nat /\ Len(batch[w]) \in Nat
  BY DEF Base, TypeOK
<1>3. /\ Len(queued'[w]) = Len(queued[w]) + Len(batch[w])
      /\ \A k \in 1..Len(queued[w]) : queued'[w][k] = queued[w][k]
      /\ \A k \in 1..Len(batch[w]) : queued'[w][Len(queued[w]) + k] = batch[w][k]
  BY SendFacts, Zenon DEF Base
<1>4. Batch(w)' = {} /\ Sending(w)' = Sending(w) \cup Batch(w)
  <2>1. Batch(w)' = {}
    BY <1>1 DEF Batch
  <2> DEFINE a == Len(queued[w])
             b == Len(batch[w])
             c == Len(queued'[w])
             old(k) == queued[w][k].op
             add(k) == batch[w][k].op
             new(k) == queued'[w][k].op
  <2>2. /\ a \in Nat /\ b \in Nat /\ c = a + b
        /\ \A k \in 1..a : new(k) = old(k)
        /\ \A k \in 1..b : new(a + k) = add(k)
    BY <1>2, <1>3, Zenon
  <2>3. /\ Sending(w) = {old(k) : k \in 1..a} /\ Batch(w) = {add(k) : k \in 1..b}
        /\ Sending(w)' = {new(k) : k \in 1..c}
    BY DEF Sending, Batch
  <2>4. {new(k) : k \in 1..c} = {old(k) : k \in 1..a} \cup {add(k) : k \in 1..b}
    <3> HIDE DEF a, b, c, old, add, new
    <3>1. \A k \in 1..c : k \in 1..a \/ (k - a \in 1..b /\ a + (k - a) = k)
      BY <2>2
    <3>2. \A k \in 1..b : a + k \in 1..c
      BY <2>2
    <3>3. \A k \in 1..a : k \in 1..c
      BY <2>2
    <3>4. \A k \in 1..c : (\E j \in 1..a : new(k) = old(j)) \/ (\E j \in 1..b : new(k) = add(j))
      BY <2>2, <3>1
    <3> QED BY <2>2, <3>2, <3>3, <3>4
  <2> QED BY <2>1, <2>3, <2>4, Zenon
<1>5. Going(pending[w], Sending(w), backend) => Going(pending'[w], Sending(w)', backend')
  <2>0. \A k \in 1..Len(batch[w]) : batch[w][k].op \in Batch(w)
    BY DEF Batch
  <2>t. TypeOK
    BY DEF Base
  <2>1. ASSUME NEW s \in pending'[w].done
        PROVE  s \in pending[w].done \/ \E op \in Batch(w) : op.span = s /\ op.ends
    <3>0. \A x \in pending'[w].done :
             x \in pending[w].done \/ \E k \in 1..Len(batch[w]) :
                                         batch[w][k].op.span = x /\ batch[w][k].op.ends
      BY <2>t, SendFacts, Zenon
    <3>1. s \in pending[w].done
          \/ \E k \in 1..Len(batch[w]) : batch[w][k].op.span = s /\ batch[w][k].op.ends
      BY <3>0
    <3> QED BY <2>0, <3>1
  <2>2. ASSUME NEW id \in pending'[w].late
        PROVE  id \in pending[w].late \/ \E op \in Batch(w) : op.key # NoKey /\ LateId(op) = id
    <3>1. id \in pending[w].late
          \/ \E k \in 1..Len(batch[w]) : batch[w][k].op.key # NoKey /\ LateId(batch[w][k].op) = id
      BY <2>t, SendFacts, Zenon
    <3> QED BY <2>0, <3>1
  <2>3. ASSUME NEW s \in Spans
        PROVE  \/ pending'[w].versions[s] = pending[w].versions[s]
               \/ \E op \in Batch(w) : op.span = s /\ op.version = pending'[w].versions[s]
    <3>1. pending'[w].versions[s] = pending[w].versions[s]
          \/ \E k \in 1..Len(batch[w]) : batch[w][k].op.span = s
                                         /\ batch[w][k].op.version = pending'[w].versions[s]
      BY <2>t, SendFacts, Zenon
    <3> QED BY <2>0, <3>1
  <2> QED BY <1>1, <1>4, <2>1, <2>2, <2>3 DEF Going, Accepts
<1>6. /\ Sending(w)' \cup Batch(w)' = Sending(w) \cup Batch(w)
      /\ backend' = backend /\ read'[w] = read[w] /\ rejected'[w] = rejected[w] /\ head'[w] = head[w]
  BY <1>1, <1>4
<1>7. (rejected[w] \/ Going(pending[w], Sending(w), backend))'
  BY <1>5, <1>6 DEF ReadOf
<1>8. (\/ rejected[w]
       \/ \A k \in 1..read[w] :
            Shown(Input[w][k], backend) \/ Covers(Sending(w) \cup Batch(w), Input[w][k]))'
  BY <1>6, Zenon DEF ReadOf
<1>9. (\A k \in 1..head[w] : Shown(Input[w][k], backend))'
  BY <1>6 DEF ReadOf
<1> QED BY <1>1, <1>7, <1>8, <1>9, Zenon DEF ReadOf

(* One whose row is accepted: it shows what the row covered.                  *)
LEMMA UploadRead ==
  ASSUME Base, NEW w \in Writers, ReadOf(w), Upload(w)
  PROVE  ReadOf(w)'
<1> DEFINE op == Head(queued[w]).op
<1>1. /\ Grown /\ queued[w] # <<>> /\ queued'[w] = Tail(queued[w])
      /\ op \in backend'.rows /\ (op.ends => op.span \in backend'.done)
      /\ (op.key # NoKey => LateId(op) \in backend'.late)
  BY UploadFacts DEF Base, TypeOK
<1>2. UNCHANGED <<at, head, read, batch, pending, rejected>>
  BY DEF Upload, sink
<1>3. Batch(w)' = Batch(w) /\ \A o \in Sending(w) : o = op \/ o \in Sending(w)'
  <2>1. Batch(w)' = Batch(w)
    BY <1>2 DEF Batch
  <2>2. queued[w] \in Seq(Rows)
    BY DEF Base, TypeOK
  <2>3. ASSUME NEW o \in Sending(w) PROVE o = op \/ o \in Sending(w)'
    <3>1. PICK k \in 1..Len(queued[w]) : o = queued[w][k].op
      BY <2>3 DEF Sending
    <3>2. CASE k = 1
      BY <1>1, <2>2, <3>1, <3>2
    <3>3. CASE k # 1
      <4>1. k - 1 \in 1..Len(queued'[w]) /\ queued'[w][k - 1] = queued[w][k]
        BY <1>1, <2>2, <3>1, <3>3
      <4> QED BY <3>1, <4>1, Zenon DEF Sending
    <3> QED BY <3>2, <3>3
  <2> QED BY <2>1, <2>3
<1> HIDE DEF op
<1>4. /\ \A o : Shown(o, backend) => Shown(o, backend')
      /\ \A d, ops : Going(d, ops, backend) => Going(d, ops, backend')
  BY <1>1, GrownFacts
<1>5. Going(pending[w], Sending(w), backend) => Going(pending'[w], Sending(w)', backend')
  <2>1. SUFFICES ASSUME Going(pending[w], Sending(w), backend')
                 PROVE  Going(pending[w], Sending(w)', backend')
    BY <1>2, <1>4
  <2>2. \A s \in pending[w].done : s \in backend'.done \/ \E o \in Sending(w)' : o.span = s /\ o.ends
    BY <1>1, <1>3, <2>1 DEF Going
  <2>3. \A id \in pending[w].late :
           id \in backend'.late \/ \E o \in Sending(w)' : o.key # NoKey /\ LateId(o) = id
    BY <1>1, <1>3, <2>1 DEF Going
  <2>4. \A s \in Spans :
          \/ Accepts(pending[w].versions[s], s, backend')
          \/ \E o \in Sending(w)' : o.span = s /\ o.version = pending[w].versions[s]
    BY <1>1, <1>3, <2>1 DEF Going, Accepts
  <2> QED BY <2>2, <2>3, <2>4 DEF Going
<1>6. ASSUME NEW o, Covers(Sending(w) \cup Batch(w), o)
      PROVE  Shown(o, backend') \/ Covers(Sending(w)' \cup Batch(w)', o)
  <2> DEFINE old == Sending(w) \cup Batch(w)
             new == Sending(w)' \cup Batch(w)'
  <2>1. \A x \in old : x = op \/ x \in new
    BY <1>3
  <2>2. Covers(old, o)
    BY <1>6
  <2>3. Shown(o, backend') \/ Covers(new, o)
    <3> HIDE DEF old, new
    <3>1. CASE o \in old
      BY <1>1, <2>1, <3>1 DEF Shown, Covers
    <3>2. CASE o.key = NoKey /\ \E x \in old : x.ends /\ x.span = o.span
      BY <1>1, <2>1, <3>2 DEF Shown, Covers
    <3>3. CASE o.key # NoKey /\ \E x \in old : x.key # NoKey /\ LateId(x) = LateId(o)
      BY <1>1, <2>1, <3>3 DEF Shown, Covers
    <3>4. CASE \E x \in old : x.span = o.span /\ x.version.ts > o.version.ts
      BY <1>1, <2>1, <3>4 DEF Shown, Covers
    <3> QED BY <2>2, <3>1, <3>2, <3>3, <3>4 DEF Covers
  <2> QED BY <2>3
<1>7. (\/ rejected[w]
       \/ \A k \in 1..read[w] :
            Shown(Input[w][k], backend) \/ Covers(Sending(w) \cup Batch(w), Input[w][k]))'
  BY <1>2, <1>4, <1>6, Zenon DEF ReadOf
<1>8. (rejected[w] \/ Going(pending[w], Sending(w), backend))'
  BY <1>2, <1>5 DEF ReadOf
<1>9. (at[w] \in {"commit", "record", "ack"} => \A k \in 1..read[w] : Shown(Input[w][k], backend))'
      /\ (\A k \in 1..head[w] : Shown(Input[w][k], backend))'
  BY <1>2, <1>4 DEF ReadOf
<1> QED BY <1>7, <1>8, <1>9, Zenon DEF ReadOf

(* One whose row is rejected.                                                 *)
LEMMA RejectRead ==
  ASSUME Base, NEW w \in Writers, ReadOf(w), Reject(w)
  PROVE  ReadOf(w)'
<1>1. rejected'[w] = TRUE /\ UNCHANGED <<at, head, read, backend>>
  BY DEF Reject, sink, Base, TypeOK
<1> QED BY <1>1 DEF ReadOf
(* Of several versions the newest is as new as each.                          *)
LEMMA NewestBest ==
  ASSUME NEW n \in Nat, NEW old, NEW versions, DOMAIN versions \subseteq 1..n
  PROVE  \/ Newest(old, versions) = old
         \/ \E k \in DOMAIN versions :
               /\ Newest(old, versions) = versions[k] /\ versions[k].ts >= old.ts
               /\ \A m \in DOMAIN versions : versions[m].ts <= versions[k].ts
<1> DEFINE latest == {k \in DOMAIN versions : /\ versions[k].ts >= old.ts
                                              /\ \A m \in DOMAIN versions :
                                                    versions[m].ts <= versions[k].ts}
<1>1. CASE latest = {}
  BY <1>1 DEF Newest
<1>2. CASE latest # {}
  <2> DEFINE k == CHOOSE k \in latest : \A m \in latest : m <= k
  <2>1. \E j \in latest : \A m \in latest : m <= j
    <3>1. latest \subseteq 1..n
      OBVIOUS
    <3> HIDE DEF latest
    <3> QED BY <1>2, <3>1, Greatest, Zenon
  <2>2. k \in latest
    <3> HIDE DEF latest
    <3> QED BY <2>1
  <2>3. Newest(old, versions) = versions[k]
    BY <1>2 DEF Newest
  <2> HIDE DEF k
  <2> QED BY <2>2, <2>3
<1> QED BY <1>1, <1>2

(* An operation whose version is too old is older than one that is sent, or   *)
(* than what was known before.                                                *)
LEMMA KeptCovers ==
  ASSUME Base, NEW w \in Writers, NEW idx, NEW ops, NEW n \in Nat, DOMAIN ops = 1..n,
         \A k \in 1..n : ops[k] \in Operations,
         NEW k \in 1..n, ShouldEmit(w, idx, ops[k]), k \notin Kept(w, idx, ops)
  PROVE  \/ \E j \in Kept(w, idx, ops) : /\ ops[j].span = ops[k].span
                                         /\ ops[j].version.ts > ops[k].version.ts
         \/ Merged(KnownAfter(w), pending[w].versions)[ops[k].span].ts > ops[k].version.ts
<1> DEFINE owed == {i \in DOMAIN ops : ShouldEmit(w, idx, ops[i])}
           start == Merged(KnownAfter(w), pending[w].versions)
           before(i) == {j \in owed : j < i /\ ops[j].span = ops[i].span
                                      /\ ops[j].version # NoVersion}
           previous(i) == Newest(start[ops[i].span], [j \in before(i) |-> ops[j].version])
<1>1. Kept(w, idx, ops) = {i \in owed : VersionAllowed(previous(i), ops[i])}
  BY DEF Kept
<1>2. k \in owed /\ ~VersionAllowed(previous(k), ops[k]) /\ owed \subseteq 1..n
  BY <1>1
<1>3. \A i \in 1..n : ops[i].span \in Spans /\ ops[i].version.ts \in Nat
  BY InputFacts
<1>4. \A s \in Spans : start[s].ts \in Nat
  <2>1. KnownAfter(w) \in [Spans -> Versions] /\ pending[w].versions \in [Spans -> Versions]
    BY RefreshFacts, Zenon DEF Base, TypeOK, PendingSet
  <2>2. start \in [Spans -> Versions]
    BY <2>1, MergedIn
  <2> QED BY <2>2, InputFacts
<1>5. \A i \in 1..n : before(i) \subseteq 1..n
  BY <1>2
<1>6. \A i \in 1..n : \A j \in before(i) :
         /\ j \in owed /\ ops[j].span = ops[i].span
         /\ \A m \in before(j) : m \in before(i)
  BY <1>2
<1>7. \A i \in 1..n :
        \/ previous(i) = start[ops[i].span]
        \/ \E j \in before(i) : /\ previous(i) = ops[j].version
                                /\ ops[j].version.ts >= start[ops[i].span].ts
                                /\ \A m \in before(i) : ops[m].version.ts <= ops[j].version.ts
  <2>1. SUFFICES ASSUME NEW i \in 1..n
                 PROVE  \/ previous(i) = start[ops[i].span]
                        \/ \E j \in before(i) :
                              /\ previous(i) = ops[j].version
                              /\ ops[j].version.ts >= start[ops[i].span].ts
                              /\ \A m \in before(i) : ops[m].version.ts <= ops[j].version.ts
    BY Zenon
  <2> DEFINE versions == [j \in before(i) |-> ops[j].version]
             old == start[ops[i].span]
  <2>2. DOMAIN versions \subseteq 1..n /\ DOMAIN versions = before(i)
    BY <1>5
  <2>3. \A j \in before(i) : versions[j] = ops[j].version
    OBVIOUS
  <2>4. previous(i) = Newest(old, versions)
    OBVIOUS
  <2> HIDE DEF versions, old, previous, before
  <2>5. \/ Newest(old, versions) = old
        \/ \E j \in DOMAIN versions :
              /\ Newest(old, versions) = versions[j] /\ versions[j].ts >= old.ts
              /\ \A m \in DOMAIN versions : versions[m].ts <= versions[j].ts
    BY <2>2, NewestBest, Zenon
  <2> QED BY <2>2, <2>3, <2>4, <2>5 DEF old
<1> HIDE DEF owed, start, before, previous
<1>8. previous(k).ts \in Nat => previous(k).ts > ops[k].version.ts
  BY <1>2, <1>3 DEF VersionAllowed
<1>9. CASE previous(k) = start[ops[k].span]
  BY <1>3, <1>4, <1>8, <1>9 DEF start
<1>10. ASSUME NEW j \in before(k), previous(k) = ops[j].version,
              ops[j].version.ts >= start[ops[k].span].ts,
              \A m \in before(k) : ops[m].version.ts <= ops[j].version.ts
       PROVE  \E i \in Kept(w, idx, ops) : /\ ops[i].span = ops[k].span
                                           /\ ops[i].version.ts > ops[k].version.ts
  <2>1. j \in owed /\ j \in 1..n /\ ops[j].span = ops[k].span
    BY <1>2, <1>6, <1>10, Zenon
  <2>2. previous(j).ts \in Nat /\ previous(j).ts <= ops[j].version.ts
    <3>1. CASE previous(j) = start[ops[j].span]
      BY <1>3, <1>4, <1>10, <2>1, <3>1
    <3>2. ASSUME NEW i \in before(j), previous(j) = ops[i].version
          PROVE  previous(j).ts \in Nat /\ previous(j).ts <= ops[j].version.ts
      <4>1. i \in before(k) /\ i \in 1..n
        BY <1>5, <1>6, <2>1, <3>2
      <4> QED BY <1>3, <1>10, <3>2, <4>1
    <3> QED BY <1>7, <2>1, <3>1, <3>2
  <2>3. VersionAllowed(previous(j), ops[j])
    BY <1>3, <2>1, <2>2 DEF VersionAllowed
  <2>4. j \in Kept(w, idx, ops)
    BY <1>1, <2>1, <2>3
  <2>5. ops[j].version.ts > ops[k].version.ts
    BY <1>3, <1>8, <1>10, <2>1
  <2> QED BY <2>1, <2>4, <2>5
<1> QED BY <1>7, <1>9, <1>10

(* One that takes more of its input: what is not sent was accepted, or is on  *)
(* its way, or is covered by what is.                                         *)
LEMMA SelectRead ==
  ASSUME Base, FaithInv, NEW w \in Writers, ReadOf(w), Select(w)
  PROVE  ReadOf(w)'
<1>1. PICK n \in 1..MaxBatch : Selects(w, n)
  BY SelectFacts DEF Base
<1> DEFINE ops == Taken(w, n)
           idx == Refreshed(w)
           kept == Kept(w, idx, ops)
<1>2. /\ at[w] = "idle" /\ UNCHANGED <<head, pending, queued, rejected, backend>>
      /\ batch[w] = <<>> /\ read[w] \in Nat /\ at'[w] \in {"persist", "send", "idle", "flush"}
  <2>1. at[w] = "idle" /\ UNCHANGED <<head, pending, queued, rejected, backend>>
    BY DEF Select, sdk
  <2>2. batch[w] = <<>> /\ read[w] \in Nat
    BY <2>1, Zenon DEF Base, TypeOK, StageInv
  <2>3. at'[w] \in {"persist", "send", "idle", "flush"}
    BY <1>1 DEF Selects, Base, TypeOK
  <2> QED BY <2>1, <2>2, <2>3
<1>3. /\ read[w] + n <= Len(Input[w]) /\ read'[w] = read[w] + n
      /\ \A k \in kept : \E i \in 1..Len(batch'[w]) : batch'[w][i].op = ops[k]
  BY <1>1 DEF Selects, Base, TypeOK
<1>4. /\ n \in Nat /\ DOMAIN ops = 1..n
      /\ \A k \in 1..n : ops[k] = Input[w][read[w] + k] /\ ops[k] \in Operations
  BY <1>3, TakenFacts DEF Base
<1> HIDE DEF ops, idx, kept
<1>5. Sending(w)' = Sending(w) /\ Batch(w) = {}
  BY <1>2 DEF Sending, Batch
<1>6. \A k \in kept : ops[k] \in Batch(w)'
  BY <1>3 DEF Batch
<1>7. ASSUME ~rejected[w], NEW k \in 1..n
      PROVE  Shown(ops[k], backend) \/ Covers(Sending(w) \cup Batch(w)', ops[k])
  <2> DEFINE op == ops[k]
             s == op.span
  <2>0. op \in Operations /\ s \in Spans /\ op.version.ts \in Nat /\ LateId(op) \in LateIds
    BY <1>4, InputFacts
  <2>1. Going(pending[w], Sending(w), backend)
    BY <1>7 DEF ReadOf
  <2>2. idx.done \subseteq backend.done /\ idx.late \subseteq backend.late
        /\ \A x \in Spans : Accepts(KnownAfter(w)[x], x, backend)
    <3>2. Grown
      BY <1>2 DEF Grown
    <3> QED BY <3>2, RefreshFaith DEF Refreshed, idx
  <2> HIDE DEF op, s
  <2>3. CASE k \in kept
    BY <1>6, <2>3 DEF Covers, op
  <2>4. CASE ~ShouldEmit(w, idx, op)
    <3>1. CASE op.key = NoKey
      <4>1. s \in idx.done \/ s \in pending[w].done
        BY <2>4, <3>1 DEF ShouldEmit, s
      <4>2. s \in backend.done \/ \E o \in Sending(w) : o.span = s /\ o.ends
        BY <2>1, <2>2, <4>1 DEF Going
      <4> QED BY <3>1, <4>2 DEF Shown, Covers, op, s
    <3>2. CASE op.key # NoKey
      <4>1. LateId(op) \in idx.late \/ LateId(op) \in pending[w].late
        BY <2>4, <3>2 DEF ShouldEmit
      <4>2. LateId(op) \in backend.late
            \/ \E o \in Sending(w) : o.key # NoKey /\ LateId(o) = LateId(op)
        BY <2>1, <2>2, <4>1 DEF Going
      <4> QED BY <3>2, <4>2 DEF Shown, Covers, op, s
    <3> QED BY <3>1, <3>2
  <2>5. CASE k \notin kept /\ ShouldEmit(w, idx, op)
    <3> DEFINE v == Merged(KnownAfter(w), pending[w].versions)[s]
    <3>1. (\E j \in kept : ops[j].span = s /\ ops[j].version.ts > op.version.ts)
          \/ v.ts > op.version.ts
      BY <1>4, <2>5, KeptCovers, Zenon DEF kept, op, s
    <3>2. ASSUME NEW j \in kept, ops[j].span = s, ops[j].version.ts > op.version.ts
          PROVE  Covers(Sending(w) \cup Batch(w)', op)
      BY <1>6, <3>2 DEF Covers, s
    <3>3. ASSUME v.ts > op.version.ts
          PROVE  Shown(op, backend) \/ Covers(Sending(w) \cup Batch(w)', op)
      <4>1. v \in {KnownAfter(w)[s], pending[w].versions[s]}
        <5>1. KnownAfter(w) \in [Spans -> Versions] /\ pending[w].versions \in [Spans -> Versions]
          BY RefreshFacts, Zenon DEF Base, TypeOK, PendingSet
        <5> QED BY <2>0, <5>1, MergedIn
      <4> HIDE DEF v
      <4>2. v # NoVersion
        BY <2>0, <3>3 DEF NoVersion
      <4>3. CASE v = KnownAfter(w)[s]
        <5>1. \E row \in backend.rows : row.span = s /\ row.version = v
          BY <2>0, <2>2, <4>2, <4>3 DEF Accepts
        <5>2. \E row \in backend.rows : row.span = op.span /\ row.version.ts > op.version.ts
          BY <3>3, <5>1 DEF s
        <5> QED BY <5>2 DEF Shown
      <4>4. CASE v = pending[w].versions[s]
        <5>1. \/ \E row \in backend.rows : row.span = s /\ row.version = v
              \/ \E o \in Sending(w) : o.span = s /\ o.version = v
          BY <2>0, <2>1, <4>2, <4>4 DEF Accepts, Going
        <5>2. \/ \E row \in backend.rows : row.span = op.span /\ row.version.ts > op.version.ts
              \/ \E o \in Sending(w) : o.span = op.span /\ o.version.ts > op.version.ts
          BY <3>3, <5>1 DEF s
        <5> QED BY <5>2 DEF Shown, Covers
      <4> QED BY <4>1, <4>3, <4>4
    <3> HIDE DEF v
    <3>4. Shown(op, backend) \/ Covers(Sending(w) \cup Batch(w)', op)
      BY <3>1, <3>2, <3>3
    <3> QED BY <3>4 DEF op
  <2>6. Shown(op, backend) \/ Covers(Sending(w) \cup Batch(w)', op)
    BY <2>3, <2>4, <2>5 DEF op
  <2> QED BY <2>6 DEF op
<1>8. ASSUME ~rejected[w], NEW k \in 1..read'[w]
      PROVE  Shown(Input[w][k], backend) \/ Covers(Sending(w) \cup Batch(w)', Input[w][k])
  <2>1. CASE k <= read[w]
    <3>0. k \in 1..read[w]
      BY <1>2, <1>3, <1>4, <1>8, <2>1
    <3>1. Shown(Input[w][k], backend) \/ Covers(Sending(w) \cup Batch(w), Input[w][k])
      BY <1>8, <3>0 DEF ReadOf
    <3> QED BY <1>5, <3>1 DEF Covers
  <2>2. CASE k > read[w]
    <3>1. k - read[w] \in 1..n /\ read[w] + (k - read[w]) = k
      BY <1>2, <1>3, <1>4, <1>8, <2>2
    <3>2. ops[k - read[w]] = Input[w][k]
      BY <1>4, <3>1
    <3> QED BY <1>7, <1>8, <3>1, <3>2, Zenon
  <2> QED BY <1>2, <1>3, <1>4, <1>8, <2>1, <2>2
<1>9. (rejected[w] \/ Going(pending[w], Sending(w), backend))'
  BY <1>2, <1>5 DEF ReadOf
<1>10. (\/ rejected[w]
        \/ \A k \in 1..read[w] :
             Shown(Input[w][k], backend) \/ Covers(Sending(w) \cup Batch(w), Input[w][k]))'
  BY <1>2, <1>5, <1>8, Zenon
<1>11. (\A k \in 1..head[w] : Shown(Input[w][k], backend))'
  BY <1>2 DEF ReadOf
<1> QED BY <1>2, <1>9, <1>10, <1>11, Zenon DEF ReadOf
------------------------------------------------------------------------------
(* Every step keeps the ledger faithful.                                      *)

(* Opening, selecting and committing read the ledger.                         *)
LEMMA ReaderFaith ==
  ASSUME Base, FaithInv, NEW w \in Writers, Open(w) \/ Select(w) \/ Commit(w)
  PROVE  FaithInv'
<1>1. Grown /\ UNCHANGED <<file, adrift, backend>>
  BY DEF Open, Select, Commit, Grown
<1>2. /\ \E idx \in {NoIndex, index} : index' = RememberAll(idx, Unread(w))
      /\ known' = [known EXCEPT ![w] = KnownAfter(w)]
  BY DEF Open, Select, Commit, Refreshed
<1>3. FileFaith' /\ DriftFaith' /\ IndexFaith' /\ KnownFaith'
  BY <1>1, <1>2, SameFaith, RefreshFaith, Zenon
<1>4. PendingFaith'
  <2>1. CASE Open(w)
    <3>1. at' = [at EXCEPT ![w] = "idle"] /\ pending' = pending
      BY <2>1 DEF Open
    <3>2. \A v \in Writers : at'[v] \in {"commit", "record"} =>
             at[v] \in {"commit", "record"} /\ pending'[v] = pending[v]
      BY <3>1 DEF Base, TypeOK
    <3> QED BY <1>1, <3>2, SameFaith
  <2>2. CASE Select(w)
    <3>1. PICK n \in 1..MaxBatch : Selects(w, n)
      BY <2>2, SelectFacts DEF Base
    <3>2. /\ at'[w] \notin {"commit", "record"} /\ pending' = pending
          /\ \A v \in Writers : v # w => at'[v] = at[v]
      BY <2>2, <3>1, ZenonT(40) DEF Selects, Select, Base, TypeOK
    <3> QED BY <1>1, <3>2, SameFaith
  <2>3. CASE Commit(w)
    <3>0. /\ at[w] = "commit" /\ pending' = [pending EXCEPT ![w] = Left(w)]
          /\ at' = [at EXCEPT ![w] = "ack"] \/ at' = [at EXCEPT ![w] = "record"]
      BY <2>3, CommitFacts DEF Base
    <3>1. /\ at[w] = "commit" /\ pending' = [pending EXCEPT ![w] = Left(w)]
          /\ \A v \in Writers : v # w => at'[v] = at[v]
      BY <3>0, Zenon DEF Base, TypeOK
    <3>2. \A v \in Writers : pending'[v] = IF v = w THEN Left(w) ELSE pending[v]
      BY <3>1 DEF Base, TypeOK
    <3>3. Honest(pending[w], backend)
      BY <3>1 DEF FaithInv, PendingFaith
    <3>4. Honest(Left(w), backend)
      BY <3>3 DEF Honest, Left
    <3>5. \A v \in Writers : at'[v] \in {"commit", "record"} => Honest(pending'[v], backend)
      BY <3>1, <3>2, <3>4 DEF FaithInv, PendingFaith
    <3> QED BY <1>1, <3>5 DEF PendingFaith
  <2> QED BY <2>1, <2>2, <2>3
<1> QED BY <1>3, <1>4 DEF FaithInv

(* A record is appended.                                                      *)
LEMMA AppenderFaith ==
  ASSUME Base, FaithInv, NEW w \in Writers, PersistBirths(w) \/ RecordDelivered(w)
  PROVE  FaithInv'
<1>1. /\ Grown /\ adrift' = adrift /\ backend' = backend
      /\ at[w] \in {"persist", "record"} /\ Appended(w, Record(w))
  BY DEF PersistBirths, RecordDelivered, Grown
<1>2. Honest(Record(w).delivered, backend)
  BY <1>1, RecordHonest
<1>3. FileFaith'
  BY <1>1, <1>2, AppendedFacts, WriteFaith
<1>4. DriftFaith'
  BY <1>1, SameFaith
<1>5. IndexFaith'
  <2>1. index' = Remember(index, Record(w))
    BY <1>1 DEF Appended
  <2>2. /\ index'.done = index.done \cup Record(w).delivered.done
        /\ index'.late = index.late \cup Record(w).delivered.late
    BY <2>1 DEF Remember
  <2> QED BY <1>1, <1>2, <2>2 DEF FaithInv, IndexFaith, Honest
<1>6. KnownFaith'
  <2>1. CASE PersistBirths(w)
    <3>1. known' = known
      BY <2>1 DEF PersistBirths
    <3> QED BY <1>1, <3>1, SameFaith
  <2>2. CASE RecordDelivered(w)
    <3>1. /\ at[w] = "record"
          /\ known' = [known EXCEPT ![w] = Merged(known[w], pending[w].versions)]
      BY <2>2 DEF RecordDelivered
    <3>2. Honest(pending[w], backend)
      BY <3>1 DEF FaithInv, PendingFaith
    <3>3. known[w] \in [Spans -> Versions] /\ pending[w].versions \in [Spans -> Versions]
      BY Zenon DEF Base, TypeOK, PendingSet
    <3>4. \A s \in Spans : Merged(known[w], pending[w].versions)[s]
                             \in {known[w][s], pending[w].versions[s]}
      BY <3>3, MergedIn
    <3>5. \A s \in Spans : Accepts(Merged(known[w], pending[w].versions)[s], s, backend)
      BY <3>2, <3>4 DEF FaithInv, KnownFaith, Honest
    <3>6. \A v \in Writers : known'[v] = IF v = w THEN Merged(known[w], pending[w].versions)
                                         ELSE known[v]
      BY <3>1 DEF Base, TypeOK
    <3>7. \A v \in Writers, s \in Spans : Accepts(known'[v][s], s, backend)
      BY <3>5, <3>6 DEF FaithInv, KnownFaith
    <3> QED BY <1>1, <3>7 DEF KnownFaith
  <2> QED BY <2>1, <2>2
<1>7. PendingFaith'
  <2>1. /\ at'[w] \notin {"commit", "record"}
        /\ \A v \in Writers : v # w => at'[v] = at[v] /\ pending'[v] = pending[v]
    BY DEF PersistBirths, RecordDelivered, Base, TypeOK
  <2> QED BY <1>1, <2>1, SameFaith
<1> QED BY <1>3, <1>4, <1>5, <1>6, <1>7 DEF FaithInv

(* Sending, flushing, acknowledging and uploading leave the ledger alone.     *)
LEMMA SenderFaith ==
  ASSUME Base, FaithInv, NEW w \in Writers, ReadOf(w),
         \/ Send(w) \/ RequestFlush(w) \/ Flush(w) \/ Acknowledge(w)
         \/ Upload(w) \/ Reject(w)
  PROVE  FaithInv'
<1>1. Grown
  BY UploadFacts, Zenon DEF Grown, Send, RequestFlush, Flush, Acknowledge, Reject
<1>2. UNCHANGED <<file, adrift, index, known>>
  BY Zenon DEF Send, RequestFlush, Flush, Acknowledge, Upload, Reject, sink, disk
<1>3. PendingFaith'
  <2>1. CASE Flush(w)
    <3>1. /\ Honest(pending[w], backend) /\ pending' = pending /\ backend' = backend
          /\ \A v \in Writers : v # w => at'[v] = at[v]
      BY <2>1, FlushRead, Zenon DEF Flush, sink, Base, TypeOK
    <3> QED BY <3>1 DEF FaithInv, PendingFaith
  <2>2. CASE Send(w)
    <3>1. /\ at'[w] \notin {"commit", "record"}
          /\ \A v \in Writers : v # w => at'[v] = at[v] /\ pending'[v] = pending[v]
      BY <2>2 DEF Send, Base, TypeOK
    <3> QED BY <1>1, <3>1, SameFaith
  <2>3. CASE RequestFlush(w) \/ Acknowledge(w)
    <3>1. /\ at'[w] \notin {"commit", "record"} /\ pending' = pending
          /\ \A v \in Writers : v # w => at'[v] = at[v]
      BY <2>3 DEF RequestFlush, Acknowledge, sink, Base, TypeOK
    <3> QED BY <1>1, <3>1, SameFaith
  <2>4. CASE Upload(w) \/ Reject(w)
    <3>1. at' = at /\ pending' = pending
      BY <2>4 DEF Upload, Reject, sink
    <3> QED BY <1>1, <3>1, SameFaith
  <2> QED BY <2>1, <2>2, <2>3, <2>4
<1> QED BY <1>1, <1>2, <1>3, SameFaith DEF FaithInv

(* Failures.                                                                  *)
LEMMA FailureFaith ==
  ASSUME Base, FaithInv, NEW w \in Writers,
         \/ Resubmit(w) \/ Restart(w) \/ AppendFails(w) \/ Abort(w) \/ LateWrite(w)
  PROVE  FaithInv'
<1>1. Grown
  BY DEF Grown, Resubmit, Restart, AppendFails, Abort, LateWrite
<1>2. CASE Resubmit(w) \/ Restart(w)
  <2>1. Lose(w) /\ UNCHANGED <<file, index, adrift>>
    BY <1>2 DEF Resubmit, Restart, disk
  <2> QED BY <1>1, <2>1, LoseFaith, SameFaith DEF FaithInv
<1>3. CASE AppendFails(w)
  <2>1. /\ at[w] \in {"persist", "record"} /\ UNCHANGED <<index, adrift>>
        /\ \E written \in {Torn, Record(w)} : Writes(w, written)
    BY <1>3, FailFacts
  <2>2. PICK written \in {Torn, Record(w)} : Writes(w, written)
    BY <2>1
  <2>3. Honest(written.delivered, backend)
    BY <2>1, RecordHonest, NothingHonest
  <2>4. FileFaith'
    BY <1>1, <2>2, <2>3, WriteFaith
  <2>5. IndexFaith' /\ DriftFaith'
    BY <1>1, <2>1, SameFaith
  <2>6. KnownFaith' /\ PendingFaith'
    <3>1. CASE Lose(w)
      BY <1>1, <3>1, LoseFaith
    <3>2. CASE at' = [at EXCEPT ![w] = "flush"] /\ known' = known /\ pending' = pending
      <4>1. \A v \in Writers : at'[v] \in {"commit", "record"} =>
               at[v] \in {"commit", "record"} /\ pending'[v] = pending[v]
        BY <3>2 DEF Base, TypeOK
      <4> QED BY <1>1, <3>2, <4>1, SameFaith
    <3> QED BY <1>3, <3>1, <3>2, FailFacts
  <2> QED BY <2>4, <2>5, <2>6 DEF FaithInv
<1>4. CASE Abort(w)
  <2>1. /\ at[w] \in {"persist", "record"} /\ Lose(w) /\ UNCHANGED <<file, index>>
        /\ adrift' = [adrift EXCEPT ![w] = <<seen[w], Record(w)>>]
        /\ backend' = backend
    BY <1>4 DEF Abort, disk
  <2>2. Honest(Record(w).delivered, backend)
    BY <2>1, RecordHonest
  <2>3. \A v \in Writers : adrift'[v] = IF v = w THEN <<seen[w], Record(w)>> ELSE adrift[v]
    BY <2>1 DEF Base, TypeOK
  <2>4. DriftFaith'
    <3>1. SUFFICES ASSUME NEW v \in Writers, adrift'[v] # <<>>
                   PROVE  Honest(adrift'[v][2].delivered, backend')
      BY DEF DriftFaith
    <3>2. CASE v = w
      <4>1. adrift'[v][2] = Record(w)
        BY <2>3, <3>2
      <4> QED BY <2>1, <2>2, <4>1
    <3>3. CASE v # w
      BY <2>1, <2>3, <3>1, <3>3 DEF FaithInv, DriftFaith
    <3> QED BY <3>2, <3>3
  <2> QED BY <1>1, <2>1, <2>4, LoseFaith, SameFaith DEF FaithInv
<1>5. CASE LateWrite(w)
  <2> DEFINE place == adrift[w][1] + 1
             line == adrift[w][2]
  <2>1. /\ adrift[w] # <<>> /\ adrift' = [adrift EXCEPT ![w] = <<>>]
        /\ \/ Len(file) < place /\ file' = Append(file, line)
           \/ ~(Len(file) < place) /\ \E l \in {line, Garbled} : file' = [file EXCEPT ![place] = l]
        /\ UNCHANGED <<index, at, known, pending, backend>>
    BY <1>5 DEF LateWrite, sink
  <2>2. Honest(line.delivered, backend) /\ Honest(Garbled.delivered, backend)
    BY <2>1, NothingHonest DEF FaithInv, DriftFaith
  <2>3. file \in Seq(RecordSet) /\ Len(file) \in Nat /\ place \in Nat \ {0}
    <3>1. adrift[w] \in Nat \X RecordSet /\ file \in Seq(RecordSet)
      BY <2>1 DEF Base, TypeOK
    <3>2. adrift[w][1] \in Nat
      BY <3>1
    <3> QED BY <3>1, <3>2
  <2> HIDE DEF place, line
  <2>4. \A n \in 1..Len(file') : Honest(file'[n].delivered, backend)
    <3>1. CASE Len(file) < place /\ file' = Append(file, line)
      <4>1. /\ Len(file') = Len(file) + 1 /\ file'[Len(file) + 1] = line
            /\ \A n \in 1..Len(file) : file'[n] = file[n]
        BY <2>3, <3>1
      <4>2. \A n \in 1..Len(file') : n \in 1..Len(file) \/ n = Len(file) + 1
        BY <2>3, <4>1
      <4> QED BY <2>2, <4>1, <4>2 DEF FaithInv, FileFaith
    <3>2. ASSUME NEW l \in {line, Garbled}, file' = [file EXCEPT ![place] = l]
          PROVE  \A n \in 1..Len(file') : Honest(file'[n].delivered, backend)
      <4>1. Len(file') = Len(file) /\ \A n \in 1..Len(file) : file'[n] = IF n = place THEN l ELSE file[n]
        BY <2>3, <3>2
      <4> QED BY <2>2, <4>1 DEF FaithInv, FileFaith
    <3> QED BY <2>1, <3>1, <3>2
  <2>5. FileFaith'
    BY <2>1, <2>4 DEF FileFaith
  <2>6. \A v \in Writers : adrift'[v] = IF v = w THEN <<>> ELSE adrift[v]
    BY <2>1 DEF Base, TypeOK
  <2>7. DriftFaith'
    BY <2>1, <2>6 DEF FaithInv, DriftFaith
  <2> QED BY <1>1, <2>1, <2>5, <2>7, SameFaith DEF FaithInv
<1> QED BY <1>2, <1>3, <1>4, <1>5

(* Every step keeps the ledger faithful.                                      *)
LEMMA FaithStep ==
  ASSUME Base, FaithInv, ReadInv, [Next]_vars
  PROVE  FaithInv'
<1>1. CASE UNCHANGED vars
  BY <1>1 DEF vars, disk, sink, FaithInv, FileFaith, DriftFaith, IndexFaith, KnownFaith, PendingFaith
<1>2. ASSUME NEW w \in Writers, Open(w) \/ Select(w) \/ Commit(w) PROVE FaithInv'
  BY <1>2, ReaderFaith
<1>3. ASSUME NEW w \in Writers, PersistBirths(w) \/ RecordDelivered(w) PROVE FaithInv'
  BY <1>3, AppenderFaith
<1>4. ASSUME NEW w \in Writers, \/ Send(w) \/ RequestFlush(w) \/ Flush(w) \/ Acknowledge(w)
                                \/ Upload(w) \/ Reject(w)
      PROVE  FaithInv'
  BY <1>4, SenderFaith DEF ReadInv
<1>5. ASSUME NEW w \in Writers, \/ Resubmit(w) \/ Restart(w) \/ AppendFails(w) \/ Abort(w)
                                \/ LateWrite(w)
      PROVE  FaithInv'
  BY <1>5, FailureFaith
<1> QED BY <1>1, <1>2, <1>3, <1>4, <1>5 DEF Next, Work

(* What the other writers read is as it was.                                  *)
Idle(v) ==
  /\ queued'[v] = queued[v] /\ batch'[v] = batch[v] /\ rejected'[v] = rejected[v]
  /\ read'[v] = read[v] /\ pending'[v] = pending[v] /\ at'[v] = at[v] /\ head'[v] = head[v]

(* A step of one writer leaves the others where they are.                     *)
LEMMA OthersIdle ==
  ASSUME Base, NEW w \in Writers,
         \/ Work(w) \/ Upload(w) \/ LateWrite(w) \/ Reject(w) \/ Restart(w)
         \/ AppendFails(w) \/ Abort(w)
  PROVE  \A v \in Writers \ {w} : Idle(v)
<1>1. CASE Open(w) \/ PersistBirths(w) \/ Send(w) \/ RequestFlush(w) \/ Flush(w)
           \/ RecordDelivered(w) \/ Acknowledge(w) \/ Upload(w) \/ Reject(w) \/ LateWrite(w)
  BY <1>1, ZenonT(40) DEF Idle, Open, PersistBirths, Send, RequestFlush, Flush, RecordDelivered, Acknowledge,
     Upload, Reject, LateWrite, sink, sdk, disk, Base, TypeOK
<1>2. CASE Select(w)
  <2>1. PICK n \in 1..MaxBatch : Selects(w, n)
    BY <1>2, SelectFacts DEF Base
  <2> QED BY <1>2, <2>1 DEF Idle, Selects, Select, sdk, Base, TypeOK
<1>3. CASE Commit(w)
  <2>1. /\ pending' = [pending EXCEPT ![w] = Left(w)]
        /\ at' = [at EXCEPT ![w] = "ack"] \/ at' = [at EXCEPT ![w] = "record"]
        /\ UNCHANGED <<head, read, batch, queued, rejected>>
    BY <1>3, CommitFacts DEF Base
  <2> QED BY <2>1 DEF Idle, Base, TypeOK
<1>4. ASSUME Lose(w), head' = head PROVE \A v \in Writers \ {w} : Idle(v)
  <2>1. \A v \in Writers : v # w => queued'[v] = queued[v]
    BY <1>4, LoseFacts
  <2>2. /\ at' = [at EXCEPT ![w] = "closed"] /\ read' = [read EXCEPT ![w] = head[w]]
        /\ batch' = [batch EXCEPT ![w] = <<>>] /\ pending' = [pending EXCEPT ![w] = Nothing]
        /\ rejected' = [rejected EXCEPT ![w] = FALSE]
    BY <1>4, LoseFacts
  <2> QED BY <1>4, <2>1, <2>2 DEF Idle, Base, TypeOK
<1>5. CASE Resubmit(w) \/ Restart(w) \/ Abort(w)
  BY <1>4, <1>5 DEF Resubmit, Restart, Abort
<1>6. CASE AppendFails(w)
  <2>1. CASE Lose(w)
    BY <1>4, <1>6, <2>1, FailFacts
  <2>2. CASE ~Lose(w)
    <3>1. /\ at' = [at EXCEPT ![w] = "flush"]
          /\ UNCHANGED <<read, batch, pending, queued, rejected, head>>
      BY <1>6, <2>2, FailFacts
    <3> QED BY <3>1 DEF Idle, Base, TypeOK
  <2> QED BY <2>1, <2>2
<1> QED BY <1>1, <1>2, <1>3, <1>5, <1>6 DEF Work

(* Every step keeps what was read accepted or on its way.                     *)
LEMMA ReadStep ==
  ASSUME Base, FaithInv, ReadInv, [Next]_vars
  PROVE  ReadInv'
<1>1. Grown
  BY BackendGrows
<1>2. \A v \in Writers : Idle(v) => ReadOf(v)'
  BY <1>1, SameRead DEF ReadInv, Idle
<1>3. CASE UNCHANGED vars
  <2>1. \A v \in Writers : Idle(v)
    BY <1>3 DEF Idle, vars, sink, sdk
  <2> QED BY <1>2, <2>1 DEF ReadInv
<1>4. ASSUME NEW w \in Writers,
             \/ Work(w) \/ Upload(w) \/ LateWrite(w) \/ Reject(w) \/ Restart(w)
             \/ AppendFails(w) \/ Abort(w)
      PROVE  ReadOf(w)'
  <2>0. ReadOf(w) /\ pending[w].done \subseteq Spans
    BY SpanFacts DEF ReadInv
  <2>1. CASE Select(w)
    BY <2>0, <2>1, SelectRead
  <2>2. CASE Send(w)
    BY <2>0, <2>2, SendRead
  <2>3. CASE Flush(w)
    BY <2>0, <2>3, FlushRead
  <2>4. CASE Upload(w)
    BY <2>0, <2>4, UploadRead
  <2>5. CASE Reject(w)
    BY <2>0, <2>5, RejectRead
  <2>6. CASE LateWrite(w)
    <3>1. Idle(w)
      BY <2>6 DEF Idle, LateWrite, sink, sdk
    <3> QED BY <1>2, <3>1
  <2>7. CASE Resubmit(w) \/ Restart(w) \/ Abort(w)
    <3>1. Lose(w) /\ head' = head
      BY <2>7 DEF Resubmit, Restart, Abort
    <3> QED BY <1>1, <2>0, <3>1, LoseRead
  <2>8. CASE AppendFails(w)
    <3>1. CASE Lose(w)
      BY <1>1, <2>0, <2>8, <3>1, FailFacts, LoseRead
    <3>2. CASE ~Lose(w)
      <4>1. /\ at'[w] = "flush" /\ UNCHANGED <<read, batch, pending, queued, rejected, head>>
        BY <2>8, <3>2, FailFacts, Zenon DEF Base, TypeOK
      <4> QED BY <1>1, <2>0, <4>1, StageRead
    <3> QED BY <3>1, <3>2
  <2>9. CASE Open(w) \/ PersistBirths(w) \/ RequestFlush(w)
    <3>1. /\ at'[w] \in {"idle", "send", "flush"}
          /\ UNCHANGED <<read, batch, pending, queued, rejected, head>>
      BY <2>9 DEF Open, PersistBirths, RequestFlush, sink, sdk, Base, TypeOK
    <3> QED BY <1>1, <2>0, <3>1, StageRead
  <2>10. CASE Acknowledge(w)
    <3>1. /\ at[w] = "ack" /\ at'[w] \in {"finished", "idle"}
          /\ UNCHANGED <<read, batch, pending, queued, rejected>>
          /\ head'[w] \in {head[w], read[w]}
      BY <2>10 DEF Acknowledge, sink, sdk, Base, TypeOK
    <3> QED BY <1>1, <2>0, <3>1, StageRead
  <2>11. CASE Commit(w)
    <3>1. /\ at[w] = "commit" /\ pending' = [pending EXCEPT ![w] = Left(w)]
          /\ UNCHANGED <<read, batch, queued, rejected, head>>
      BY <2>11, CommitFacts DEF Base
    <3>2. pending'[w] = Left(w)
      BY <3>1 DEF Base, TypeOK
    <3>3. /\ pending'[w].done \subseteq pending[w].done /\ pending'[w].late \subseteq pending[w].late
          /\ pending'[w].versions = pending[w].versions
      BY <3>2 DEF Left
    <3> QED BY <1>1, <2>0, <3>1, <3>3, StageRead
  <2>12. CASE RecordDelivered(w)
    <3>1. /\ at[w] = "record" /\ pending'[w] = Nothing
          /\ UNCHANGED <<read, batch, queued, rejected, head>>
      BY <2>12 DEF RecordDelivered, sdk, Base, TypeOK
    <3>2. /\ pending'[w].done = {} /\ pending'[w].late = {}
          /\ \A s \in Spans : pending'[w].versions[s] = NoVersion
      BY <3>1 DEF Nothing
    <3> QED BY <1>1, <2>0, <3>1, <3>2, StageRead
  <2> QED BY <1>4, <2>1, <2>2, <2>3, <2>4, <2>5, <2>6, <2>7, <2>8, <2>9, <2>10, <2>11, <2>12 DEF Work
<1>5. CASE Next
  <2>1. PICK w \in Writers : \/ Work(w) \/ Upload(w) \/ LateWrite(w) \/ Reject(w) \/ Restart(w)
                             \/ AppendFails(w) \/ Abort(w)
    BY <1>5 DEF Next
  <2>2. \A v \in Writers \ {w} : Idle(v)
    BY <2>1, OthersIdle
  <2>3. ReadOf(w)'
    BY <1>4, <2>1
  <2> QED BY <1>2, <2>2, <2>3 DEF ReadInv
<1> QED BY <1>3, <1>5

(* Both hold at the start.                                                    *)
LEMMA FaithInit == ASSUME Init PROVE FaithInv /\ ReadInv
<1>1. PICK legacy \in Legacies :
        /\ legacy \subseteq Spans
        /\ \/ legacy = {} /\ file = <<>>
           \/ /\ legacy # {} /\ Len(file) = 1 /\ file \in Seq(RecordSet)
              /\ file[1].form = "whole" /\ file[1].origins = NoBirths
              /\ file[1].delivered.done = legacy /\ file[1].delivered.late = {}
              /\ file[1].delivered.versions = Nothing.versions
        /\ backend.done = legacy
  BY StartFacts
<1>2. \A s \in Spans : Accepts(Nothing.versions[s], s, backend)
  BY DEF Nothing, Accepts
<1>3. FileFaith
  <2>1. CASE file = <<>>
    BY <2>1 DEF FileFaith
  <2>2. CASE file # <<>>
    <3>1. Len(file) = 1 /\ Honest(file[1].delivered, backend)
      BY <1>1, <1>2, <2>2 DEF Honest
    <3> QED BY <3>1 DEF FileFaith
  <2> QED BY <2>1, <2>2
<1>4. DriftFaith /\ IndexFaith /\ KnownFaith /\ PendingFaith
  BY <1>2 DEF Init, DriftFaith, IndexFaith, NoIndex, KnownFaith, PendingFaith
<1>5. ASSUME NEW w \in Writers PROVE ReadOf(w)
  <2>1. /\ pending[w] = Nothing /\ read[w] = 0 /\ head[w] = 0 /\ at[w] = "closed"
    BY DEF Init
  <2> QED BY <2>1, NothingHonest DEF ReadOf
<1> QED BY <1>3, <1>4, <1>5 DEF FaithInv, ReadInv

(* What the ledger, its index and its writers say was accepted was accepted,  *)
(* and what a writer read is accepted or on its way: see FaithInv and ReadInv *)
(* (delivery_ledger.rs: refresh, emit_shared, commit, append).                *)
THEOREM FaithIsInvariant == Spec => [](FaithInv /\ ReadInv)
<1>1. Init => FaithInv /\ ReadInv
  BY FaithInit
<1>2. Base /\ FaithInv /\ ReadInv /\ [Next]_vars => FaithInv' /\ ReadInv'
  BY FaithStep, ReadStep
<1> QED BY <1>1, <1>2, StagesAreInvariant, PTL DEF Spec

(* The ledger claims nothing that the destination has not accepted, and       *)
(* unless a sink was aborted it loses none of its records, whatever crashes,  *)
(* failed and torn appends and other writers do.                              *)
THEOREM LedgerStaysFaithful == Spec => []LedgerIsFaithful
<1>1. ASSUME Base, FaithInv, ProvenanceInv PROVE LedgerIsFaithful
  <2>1. ASSUME NEW record \in Intact
        PROVE  /\ record.delivered.done \subseteq backend.done
               /\ record.delivered.late \subseteq backend.late
    <3>1. PICK n \in 1..Len(file) : record = file[n]
      BY DEF Intact
    <3> QED BY <1>1, <3>1 DEF FaithInv, FileFaith, Honest
  <2>2. ASSUME aborts = 0 PROVE RecordsArePermanent
    BY <1>1, <2>2 DEF ProvenanceInv, Prov, FileInv, RecordsArePermanent, Intact, Whole
  <2> QED BY <2>1, <2>2 DEF LedgerIsFaithful
<1> QED BY <1>1, StagesAreInvariant, FaithIsInvariant, ProvenanceIsInvariant, PTL

(* No operation is acknowledged to the span journal before the destination    *)
(* has accepted it, or what covers it: across every failure, retry and writer *)
(* the head of a route never passes an operation that would be lost.          *)
THEOREM AcknowledgedIsNotLost == Spec => []NothingLost
<1>1. ReadInv => NothingLost
  BY Zenon DEF ReadInv, ReadOf, NothingLost, Shown, Reflected, Writers
<1> QED BY <1>1, FaithIsInvariant, PTL
------------------------------------------------------------------------------
(* The order of aggregate updates: of finitely many times there is a latest.  *)
LEMMA LatestExists ==
  ASSUME NEW n \in Nat, NEW D, D \subseteq 1..n, D # {}, NEW f \in [D -> Nat]
  PROVE  \E k \in D : \A m \in D : f[m] <= f[k]
<1> DEFINE Has(T) == \E k \in T : \A m \in T : f[m] <= f[k]
           Bad == {i \in Nat : \E T \in SUBSET D : T \subseteq 1..i /\ T # {} /\ ~Has(T)}
<1>1. ASSUME Bad # {} PROVE FALSE
  <2>1. PICK i \in Bad : \A j \in Bad : i <= j
    <3>1. Bad \subseteq Nat
      OBVIOUS
    <3> HIDE DEF Bad
    <3> QED BY <1>1, <3>1, Least, Zenon
  <2>2. PICK T \in SUBSET D : T \subseteq 1..i /\ T # {} /\ ~Has(T)
    BY <2>1
  <2>3. i \in Nat /\ \A U \in SUBSET D : U \subseteq 1..(i - 1) /\ i - 1 \in Nat /\ U # {} => Has(U)
    <3>1. i \in Nat
      BY <2>1
    <3>2. ASSUME NEW U \in SUBSET D, U \subseteq 1..(i - 1), i - 1 \in Nat, U # {}, ~Has(U) PROVE FALSE
      <4>1. i - 1 \in Bad
        BY <3>2
      <4>2. i <= i - 1
        BY <2>1, <4>1, Zenon
      <4> QED BY <3>1, <4>2
    <3> QED BY <3>1, <3>2, Zenon
  <2> HIDE DEF Bad
  <2>4. \A k \in T : f[k] \in Nat /\ k \in 1..i
    BY <2>2
  <2>5. CASE i \notin T
    <3>0. PICK x \in T : x \in 1..i
      BY <2>2, <2>4
    <3>1. i - 1 \in Nat /\ T \subseteq 1..(i - 1)
      BY <2>2, <2>3, <2>5, <3>0
    <3>2. Has(T)
      BY <2>2, <2>3, <3>1, Zenon
    <3> QED BY <2>2, <3>2, Zenon
  <2>6. CASE i \in T
    <3> DEFINE U == T \ {i}
    <3>1. i - 1 \in Nat /\ U \subseteq 1..(i - 1) /\ U \subseteq D
      BY <2>2, <2>3, <2>6
    <3>2. CASE U = {}
      <4>1. \A m \in T : m = i
        BY <3>2
      <4> QED BY <2>2, <2>4, <2>6, <4>1
    <3>3. CASE U # {}
      <4>1. Has(U)
        BY <2>3, <3>1, <3>3, Zenon
      <4>2. PICK k \in U : \A m \in U : f[m] <= f[k]
        BY <4>1, Zenon
      <4>3. k \in T /\ \A m \in T : m = i \/ f[m] <= f[k]
        BY <4>2
      <4>4. CASE f[i] <= f[k]
        <5>1. \A m \in T : f[m] <= f[k]
          BY <4>3, <4>4, Zenon
        <5> QED BY <2>2, <4>3, <5>1, Zenon
      <4>5. CASE ~(f[i] <= f[k])
        <5>1. \A m \in T : f[m] <= f[i]
          BY <2>4, <2>6, <4>3, <4>5
        <5> QED BY <2>2, <2>6, <5>1, Zenon
      <4> QED BY <4>4, <4>5
    <3> QED BY <3>2, <3>3
  <2> QED BY <2>5, <2>6
<1>2. n \notin Bad
  BY <1>1, Zenon
<1>3. Has(D)
  BY <1>2
<1> QED BY <1>3

(* The newest version is as new as those it was chosen from.                  *)
LEMMA NewestUpper ==
  ASSUME NEW n \in Nat, NEW old, NEW versions, DOMAIN versions \subseteq 1..n,
         old.ts \in Nat, \A k \in DOMAIN versions : versions[k].ts \in Nat
  PROVE  /\ Newest(old, versions).ts \in Nat
         /\ Newest(old, versions).ts >= old.ts
         /\ \A k \in DOMAIN versions : Newest(old, versions).ts >= versions[k].ts
<1> DEFINE D == DOMAIN versions
           latest == {k \in D : /\ versions[k].ts >= old.ts
                                /\ \A m \in D : versions[m].ts <= versions[k].ts}
<1>1. CASE latest # {}
  <2>1. \/ Newest(old, versions) = old
        \/ \E k \in D : /\ Newest(old, versions) = versions[k] /\ versions[k].ts >= old.ts
                        /\ \A m \in D : versions[m].ts <= versions[k].ts
    BY NewestBest
  <2>2. PICK k \in D : versions[k].ts >= old.ts /\ \A m \in D : versions[m].ts <= versions[k].ts
    BY <1>1
  <2>3. \E j \in latest : Newest(old, versions) = versions[j]
    <3> DEFINE j == CHOOSE j \in latest : \A m \in latest : m <= j
    <3>1. \E i \in latest : \A m \in latest : m <= i
      <4>1. latest \subseteq 1..n
        OBVIOUS
      <4> HIDE DEF latest
      <4> QED BY <1>1, <4>1, Greatest, Zenon
    <3>2. j \in latest
      <4> HIDE DEF latest
      <4> QED BY <3>1
    <3>3. Newest(old, versions) = versions[j]
      BY <1>1 DEF Newest
    <3> HIDE DEF j, latest
    <3> QED BY <3>2, <3>3
  <2> QED BY <2>3
<1>2. CASE latest = {}
  <2>1. Newest(old, versions) = old
    BY <1>2 DEF Newest
  <2>2. ASSUME NEW m \in D PROVE versions[m].ts <= old.ts
    <3> DEFINE f == [k \in D |-> versions[k].ts]
    <3>1. f \in [D -> Nat] /\ \A k \in D : f[k] = versions[k].ts
      OBVIOUS
    <3>2. D \subseteq 1..n /\ D # {}
      BY <2>2
    <3> HIDE DEF f
    <3>3. PICK k \in D : \A i \in D : f[i] <= f[k]
      BY <3>1, <3>2, LatestExists, Zenon
    <3>4. \A i \in D : versions[i].ts <= versions[k].ts
      BY <3>1, <3>3
    <3>5. ~(versions[k].ts >= old.ts)
      BY <1>2, <3>4
    <3> QED BY <2>2, <3>4, <3>5
  <2> QED BY <2>1, <2>2
<1> QED BY <1>1, <1>2

(* So is what two are merged to.                                              *)
LEMMA MergedUpper ==
  ASSUME NEW versions \in [Spans -> Versions], NEW more \in [Spans -> Versions], NEW s \in Spans
  PROVE  /\ Merged(versions, more)[s].ts >= versions[s].ts
         /\ Merged(versions, more)[s].ts >= more[s].ts
<1>1. versions[s].ts \in Nat /\ more[s].ts \in Nat
  BY InputFacts
<1>2. Merged(versions, more)[s] = IF more[s] = NoVersion THEN versions[s]
                                                         ELSE Newer(versions[s], more[s])
  BY DEF Merged
<1>3. CASE more[s] = NoVersion
  <2>1. more[s].ts = 0
    BY <1>3 DEF NoVersion
  <2> QED BY <1>1, <1>2, <1>3, <2>1
<1>4. CASE more[s] # NoVersion
  <2>1. Merged(versions, more)[s] = IF more[s].ts >= versions[s].ts THEN more[s] ELSE versions[s]
    BY <1>2, <1>4 DEF Newer
  <2> QED BY <1>1, <2>1
<1> QED BY <1>3, <1>4

(* And so are the versions that a refresh leaves known.                       *)
LEMMA KnownUpper ==
  ASSUME Base, NEW w \in Writers, NEW s \in Spans
  PROVE  /\ KnownAfter(w)[s].ts \in Nat /\ KnownAfter(w)[s].ts >= known[w][s].ts
         /\ \A n \in Unread(w) : KnownAfter(w)[s].ts >= file[n].delivered.versions[s].ts
<1> DEFINE D == {n \in Unread(w) : file[n].delivered.versions[s] # NoVersion}
           v == [n \in D |-> file[n].delivered.versions[s]]
           new == KnownAfter(w)[s]
<1>1. new = Newest(known[w][s], v)
  BY DEF KnownAfter
<1>2. /\ Unread(w) \subseteq 1..Len(file) /\ Len(file) \in Nat
      /\ \A n \in Unread(w) : file[n] \in RecordSet
  BY UnreadFacts DEF Base
<1>3. \A n \in Unread(w) : file[n].delivered.versions[s].ts \in Nat
  <2>1. \A n \in Unread(w) : file[n].delivered.versions[s] \in Versions
    BY <1>2 DEF RecordSet, PendingSet
  <2> QED BY <2>1, InputFacts
<1>4. known[w][s].ts \in Nat
  <2>1. known[w][s] \in Versions
    BY DEF Base, TypeOK
  <2> QED BY <2>1, InputFacts
<1>5. DOMAIN v \subseteq 1..Len(file) /\ DOMAIN v = D /\ \A n \in D : v[n] = file[n].delivered.versions[s]
  BY <1>2
<1>6. \A n \in Unread(w) : n \in D \/ file[n].delivered.versions[s].ts = 0
  BY DEF NoVersion
<1>7. D \subseteq Unread(w)
  OBVIOUS
<1> HIDE DEF v, D, new
<1>8. \A k \in DOMAIN v : v[k].ts \in Nat
  BY <1>3, <1>5, <1>7
<1> DEFINE old == known[w][s]
<1>0. old.ts \in Nat /\ new = Newest(old, v)
  BY <1>1, <1>4
<1> HIDE DEF old
<1>9. new.ts \in Nat /\ new.ts >= old.ts /\ \A k \in DOMAIN v : new.ts >= v[k].ts
  BY <1>2, <1>0, <1>5, <1>8, NewestUpper
<1>10. \A n \in Unread(w) : new.ts >= file[n].delivered.versions[s].ts
  BY <1>5, <1>6, <1>9
<1> QED BY <1>9, <1>10 DEF new, old
------------------------------------------------------------------------------
(* Aggregate updates, while no sink was aborted.                              *)

(* What a writer sends is of its input.                                       *)
Ours(w) == {Input[w][k] : k \in 1..Len(Input[w])}
VersionsIn(ops, s) == {NoVersion} \cup {op.version : op \in {o \in ops : o.span = s}}
Own(w) ==
    /\ \A k \in 1..Len(queued[w]) : queued[w][k].op \in Ours(w)
    /\ \A k \in 1..Len(batch[w]) : batch[w][k].op \in Ours(w)
    /\ \A s \in Spans : pending[w].versions[s] \in VersionsIn(Ours(w), s)

(* Nothing is on its way while a delivery is recorded; then all is recorded.  *)
Quiet(w) ==
    /\ at[w] \in {"commit", "record"} => queued[w] = <<>> /\ ~rejected[w]
    /\ at[w] = "ack" => pending[w] = Nothing

(* A version of time t or later is recorded.                                  *)
Filed(s, t) == t = 0 \/ \E n \in Whole : file[n].delivered.versions[s].ts >= t

(* An operation, if it is an update, is no older than time t.                 *)
Follows(op, t) == op.version # NoVersion => UpToDate(op.version, t, op.span)

(* Rows on their way, and what is shown, are no older than what is recorded.  *)
FollowsFile(op) == \A n \in Whole : Follows(op, file[n].delivered.versions[op.span].ts)
FileOrder(w) ==
    /\ \A k \in 1..Len(queued[w]) : FollowsFile(queued[w][k].op)
    /\ \A k \in 1..Len(batch[w]) : FollowsFile(batch[w][k].op)
BackendOrder ==
    \A s \in Spans : \A n \in Whole :
       UpToDate(backend.version[s], file[n].delivered.versions[s].ts, s)

(* Nor are those of a batch older than what waits to be recorded, or those    *)
(* before them in the batch.                                                  *)
BatchOrder(w) ==
    \A k \in 1..Len(batch[w]) :
       /\ Follows(batch[w][k].op, pending[w].versions[batch[w][k].op.span].ts)
       /\ \A j \in 1..Len(batch[w]) :
             j < k /\ batch[w][j].op.span = batch[w][k].op.span
                => Follows(batch[w][k].op, batch[w][j].op.version.ts)

(* Once the rows q are uploaded the destination, which shows v, shows nothing *)
(* older than t: from some update on they are all of that time or later.      *)
Settles(q, v, s, t) ==
    \E k \in 0..Len(q) :
       /\ k = 0 => UpToDate(v, t, s)
       /\ k > 0 => /\ q[k].op.span = s /\ q[k].op.version # NoVersion
                   /\ UpToDate(q[k].op.version, t, s)
       /\ \A j \in k + 1..Len(q) : q[j].op.span = s => Follows(q[j].op, t)
SendOrder(w) ==
    \/ rejected[w]
    \/ \A s \in Spans : Settles(queued[w], backend.version[s], s, pending[w].versions[s].ts)

(* What a writer knows is the newest it has read, and is recorded.            *)
KnownInv(w) ==
    \A s \in Spans :
       /\ \A n \in 1..seen[w] : known[w][s].ts >= file[n].delivered.versions[s].ts
       /\ Filed(s, known[w][s].ts)

(* An update that counts as delivered is recorded or waits to be, and so is   *)
(* one that was read unless it is about to be sent; what was acknowledged is  *)
(* recorded.                                                                  *)
LateFiled(ids) == \A op \in Operations : LateId(op) \in ids => Filed(op.span, op.version.ts)
LateInv ==
    /\ LateFiled(index.late)
    /\ \A n \in Whole : LateFiled(file[n].delivered.late)
Remembered(delivered, op) == delivered.versions[op.span].ts >= op.version.ts
LatePending(w) ==
    \A op \in Operations : LateId(op) \in pending[w].late => Remembered(pending[w], op)
Batched(rows, op) ==
    \E j \in 1..Len(rows) : rows[j].op.span = op.span /\ rows[j].op.version.ts >= op.version.ts
ReadFiled(w) ==
    \A k \in 1..read[w] :
       Input[w][k].version # NoVersion =>
          \/ Filed(Input[w][k].span, Input[w][k].version.ts)
          \/ Remembered(pending[w], Input[w][k])
          \/ Batched(batch[w], Input[w][k])
HeadFiled(w) ==
    \A k \in 1..head[w] :
       Input[w][k].version # NoVersion => Filed(Input[w][k].span, Input[w][k].version.ts)

OrderOf(w) == /\ Own(w) /\ Quiet(w) /\ FileOrder(w) /\ BatchOrder(w) /\ SendOrder(w)
              /\ KnownInv(w) /\ LatePending(w) /\ ReadFiled(w) /\ HeadFiled(w)
Order == (\A w \in Writers : OrderOf(w)) /\ BackendOrder /\ LateInv
OrderInv == aborts = 0 /\ OneVersionedWriter => Order

(* Times are numbers, and versions those of operations.                       *)
LEMMA OursFacts ==
  ASSUME NEW w \in Writers
  PROVE  /\ Ours(w) \subseteq Operations
         /\ \A op \in Ours(w) : /\ op.span \in Spans /\ op.version \in VersionsIn(Ours(w), op.span)
                                /\ op.version.ts \in Nat
         /\ \A s \in Spans : VersionsIn(Ours(w), s) \subseteq VersionsIn(Operations, s)
         /\ \A k \in 1..Len(Input[w]) : Input[w][k] \in Ours(w)
<1>1. Ours(w) \subseteq Operations
  BY DEF Ours, Operations
<1>2. \A op \in Ours(w) : op.span \in Spans /\ op.version.ts \in Nat
  BY <1>1, InputFacts
<1>3. \A op \in Ours(w) : op.version \in VersionsIn(Ours(w), op.span)
  BY DEF VersionsIn
<1>4. \A s \in Spans : VersionsIn(Ours(w), s) \subseteq VersionsIn(Operations, s)
  BY <1>1 DEF VersionsIn
<1>5. \A k \in 1..Len(Input[w]) : Input[w][k] \in Ours(w)
  BY DEF Ours
<1> QED BY <1>1, <1>2, <1>3, <1>4, <1>5

(* Everything is of time 0 or later.                                          *)
LEMMA FollowsZero ==
  /\ \A v \in Versions : \A s : UpToDate(v, 0, s)
  /\ \A op \in Operations : Follows(op, 0)
<1>1. \A v \in Versions : v.ts \in Nat
  BY InputFacts
<1>2. \A v \in Versions : v.ts >= 0
  BY <1>1
<1>3. \A v \in Versions : \A s : UpToDate(v, 0, s)
  BY <1>2, Zenon DEF UpToDate
<1>4. \A op \in Operations : op.version \in Versions
  BY InputFacts
<1> QED BY <1>3, <1>4, Zenon DEF Follows

(* What is as new as something is as new as all that is older.                *)
LEMMA UpToDateEarlier ==
  ASSUME NEW v \in Versions, NEW s, NEW t \in Nat, UpToDate(v, t, s), NEW u \in Nat, u <= t
  PROVE  UpToDate(v, u, s)
<1>1. v.ts \in Nat
  BY InputFacts
<1>2. CASE v.ts >= t
  BY <1>1, <1>2 DEF UpToDate
<1>3. CASE ~(v.ts >= t)
  <2>1. v.native # "none"
    BY <1>3 DEF UpToDate
  <2>0. PICK w \in Writers : \E k \in DOMAIN Input[w] : /\ Input[w][k].span = s
                                                        /\ Input[w][k].version.native = v.native
                                                        /\ Input[w][k].version.ts >= t
    BY <1>3 DEF UpToDate
  <2>2. PICK k \in DOMAIN Input[w] : /\ Input[w][k].span = s
                                      /\ Input[w][k].version.native = v.native
                                      /\ Input[w][k].version.ts >= t
    BY <2>0
  <2>3. Input[w][k].version.ts \in Nat
    BY LedgerAssumption
  <2>4. Input[w][k].version.ts >= u
    BY <2>2, <2>3
  <2> QED BY <2>1, <2>2, <2>4 DEF UpToDate
<1> QED BY <1>2, <1>3

(* A version that is let through because of an older one is as new as that.   *)
LEMMA AllowedFollows ==
  ASSUME NEW s \in Spans, NEW p \in VersionsIn(Operations, s), NEW op \in Operations,
         VersionAllowed(p, op), op.span = s, NEW t \in Nat, t <= p.ts
  PROVE  Follows(op, t)
<1>1. SUFFICES ASSUME op.version # NoVersion PROVE UpToDate(op.version, t, s)
  BY DEF Follows
<1>2. op.version.ts \in Nat /\ NoVersion.ts = 0
  BY InputFacts DEF NoVersion
<1>3. CASE op.version.ts >= p.ts
  <2>1. p.ts \in Nat
    BY <1>2, InputFacts DEF VersionsIn
  <2> QED BY <1>2, <1>3, <2>1 DEF UpToDate
<1>4. CASE ~(op.version.ts >= p.ts)
  <2>1. op.version.native # "none" /\ op.version.native = p.native
    BY <1>1, <1>4 DEF VersionAllowed
  <2>2. p # NoVersion
    BY <2>1 DEF NoVersion
  <2>3. PICK o \in Operations : o.span = s /\ o.version = p
    BY <2>2 DEF VersionsIn
  <2>4. PICK w \in Writers : \E k \in 1..Len(Input[w]) : o = Input[w][k]
    BY <2>3 DEF Operations
  <2>5. PICK k \in DOMAIN Input[w] : o = Input[w][k]
    BY <2>4, LedgerAssumption
  <2>6. p.ts >= t
    <3>1. p.ts \in Nat
      BY <2>3, InputFacts
    <3> QED BY <3>1
  <2> QED BY <2>1, <2>3, <2>5, <2>6 DEF UpToDate
<1> QED BY <1>3, <1>4

(* Nothing is without versions.                                               *)
LEMMA NothingVersions ==
  /\ \A s \in Spans : Nothing.versions[s] = NoVersion
  /\ NoVersion.ts = 0 /\ Nothing.late = {}
  /\ \A op \in Operations : op.version.ts \in Nat
BY InputFacts DEF Nothing, NoVersion

(* Of the updates of a span there is one writer.                              *)
LEMMA OneWriter ==
  ASSUME OneVersionedWriter, NEW v \in Writers, NEW w \in Writers, NEW s \in Spans,
         NEW a \in Ours(v), a.span = s, a.version # NoVersion,
         NEW b \in VersionsIn(Ours(w), s), b # NoVersion
  PROVE  v = w
<1>1. PICK j \in 1..Len(Input[v]) : a = Input[v][j]
  BY DEF Ours
<1>2. PICK o \in Ours(w) : o.span = s /\ o.version = b
  BY DEF VersionsIn
<1>3. PICK k \in 1..Len(Input[w]) : o = Input[w][k]
  BY <1>2 DEF Ours
<1>4. j \in DOMAIN Input[v] /\ k \in DOMAIN Input[w]
  BY LedgerAssumption
<1> QED BY <1>1, <1>2, <1>3, <1>4 DEF OneVersionedWriter
------------------------------------------------------------------------------
(* How the file grows.                                                        *)
Steps(w) == Work(w) \/ Upload(w) \/ Reject(w) \/ Restart(w) \/ AppendFails(w)
Longer == \A n \in Whole : n \in Whole' /\ file'[n] = file[n]
Added(w) ==
    \A n \in Whole' :
       \/ n \in Whole /\ file'[n] = file[n]
       \/ file'[n].delivered = Nothing
       \/ /\ at[w] = "record" /\ file'[n].delivered.versions = pending[w].versions
          /\ file'[n].delivered.late \subseteq pending[w].late

(* A record that is appended, whole or not.                                   *)
LEMMA WriteGrows ==
  ASSUME Base, FileInv, NEW w \in Writers, at[w] \in {"persist", "record"},
         NEW record \in {Torn, Record(w)}, Writes(w, record)
  PROVE  Longer /\ Added(w)
<1>1. /\ Whole = 1..seen[w] /\ seen[w] \in Nat /\ Len(file') = seen[w] + 1
      /\ file'[seen[w] + 1] = record /\ \A n \in 1..seen[w] : file'[n] = file[n]
  BY DEF FileInv, Writes, Base, TypeOK
<1>2. \A n \in Whole : file[n].form = "whole"
  BY DEF Whole
<1>3. Longer
  <2>1. ASSUME NEW n \in Whole PROVE n \in 1..Len(file') /\ file'[n] = file[n]
    BY <1>1
  <2>2. \A n \in Whole : n \in 1..Len(file') /\ file'[n].form = "whole"
    BY <1>2, <2>1
  <2>3. Whole' = {n \in 1..Len(file') : file'[n].form = "whole"}
    BY DEF Whole
  <2> QED BY <2>1, <2>2, <2>3 DEF Longer
<1>4. ASSUME NEW n \in Whole'
      PROVE  \/ n \in Whole /\ file'[n] = file[n]
             \/ file'[n].delivered = Nothing
             \/ /\ at[w] = "record" /\ file'[n].delivered.versions = pending[w].versions
                /\ file'[n].delivered.late \subseteq pending[w].late
  <2>1. n \in 1..Len(file') /\ file'[n].form = "whole"
    BY DEF Whole
  <2>2. n \in 1..seen[w] \/ n = seen[w] + 1
    BY <1>1, <2>1
  <2>3. CASE n \in 1..seen[w]
    BY <1>1, <2>3
  <2>4. CASE n = seen[w] + 1
    <3>1. file'[n] = record /\ record.form = "whole"
      BY <1>1, <2>1, <2>4
    <3>2. record = Record(w)
      BY <3>1 DEF Torn
    <3>3. record.delivered = IF at[w] = "persist" THEN Nothing ELSE Delivered(w)
      BY <3>2, RecordFacts DEF Base
    <3>4. Delivered(w).versions = pending[w].versions /\ Delivered(w).late \subseteq pending[w].late
      BY DEF Delivered
    <3> QED BY <3>1, <3>3, <3>4
  <2> QED BY <2>2, <2>3, <2>4
<1>5. Added(w)
  BY <1>4 DEF Added
<1> QED BY <1>3, <1>5

(* Every step leaves the records; what it adds is what its writer remembers   *)
(* of what was accepted.                                                      *)
LEMMA FileGrows ==
  ASSUME Base, FileInv, NEW w \in Writers, Steps(w)
  PROVE  Longer /\ Added(w)
<1>1. ASSUME file' = file PROVE Longer /\ Added(w)
  <2>1. Whole' = Whole
    BY <1>1 DEF Whole
  <2> QED BY <1>1, <2>1 DEF Longer, Added
<1>2. CASE PersistBirths(w) \/ RecordDelivered(w)
  <2>1. at[w] \in {"persist", "record"} /\ Appended(w, Record(w))
    BY <1>2 DEF PersistBirths, RecordDelivered
  <2>2. Writes(w, Record(w))
    BY <2>1, AppendedFacts
  <2> QED BY <2>1, <2>2, WriteGrows
<1>3. CASE AppendFails(w)
  <2>1. at[w] \in {"persist", "record"} /\ \E written \in {Torn, Record(w)} : Writes(w, written)
    BY <1>3, FailFacts
  <2> QED BY <2>1, WriteGrows
<1>4. CASE \/ Open(w) \/ Select(w) \/ Send(w) \/ RequestFlush(w) \/ Flush(w) \/ Commit(w)
           \/ Acknowledge(w) \/ Resubmit(w) \/ Upload(w) \/ Reject(w) \/ Restart(w)
  <2>1. file' = file
    BY <1>4, Zenon DEF Open, Select, Send, RequestFlush, Flush, Commit, Acknowledge, Resubmit,
         Upload, Reject, Restart, disk
  <2> QED BY <1>1, <2>1
<1> QED BY <1>2, <1>3, <1>4 DEF Steps, Work

(* What is recorded stays recorded.                                           *)
LEMMA FiledStays ==
  ASSUME Longer
  PROVE  \A s, t : Filed(s, t) => Filed(s, t)'
BY DEF Longer, Filed

(* Something recorded at a later time counts for an earlier one.              *)
LEMMA FiledEarlier ==
  ASSUME Base, NEW s \in Spans, NEW t \in Nat, NEW u \in Nat, u <= t, Filed(s, t)
  PROVE  Filed(s, u)
<1>1. CASE t = 0
  BY <1>1 DEF Filed
<1>2. CASE t # 0
  <2>1. PICK n \in Whole : file[n].delivered.versions[s].ts >= t
    BY <1>2 DEF Filed
  <2>2. file[n].delivered.versions[s].ts \in Nat
    <3>1. n \in 1..Len(file) /\ file[n] \in RecordSet
      BY DEF Whole, Base, TypeOK
    <3>2. file[n].delivered.versions[s] \in Versions
      BY <3>1 DEF RecordSet, PendingSet
    <3> QED BY <3>2, InputFacts
  <2> QED BY <2>1, <2>2 DEF Filed
<1> QED BY <1>1, <1>2

(* The versions of the file.                                                  *)
LEMMA FileVersions ==
  ASSUME Base
  PROVE  /\ \A n \in Whole : \A s \in Spans : /\ file[n].delivered.versions[s] \in Versions
                                              /\ file[n].delivered.versions[s].ts \in Nat
         /\ \A w \in Writers : \A s \in Spans : /\ pending[w].versions[s] \in Versions
                                                /\ pending[w].versions[s].ts \in Nat
                                                /\ known[w][s] \in Versions
                                                /\ known[w][s].ts \in Nat
         /\ \A s \in Spans : backend.version[s] \in Versions
<1>1. ASSUME NEW n \in Whole, NEW s \in Spans PROVE file[n].delivered.versions[s] \in Versions
  <2>1. n \in 1..Len(file) /\ file[n] \in RecordSet
    BY DEF Whole, Base, TypeOK
  <2> QED BY <2>1 DEF RecordSet, PendingSet
<1>2. ASSUME NEW w \in Writers, NEW s \in Spans
      PROVE  pending[w].versions[s] \in Versions /\ known[w][s] \in Versions
  BY DEF Base, TypeOK, PendingSet
<1>3. \A s \in Spans : backend.version[s] \in Versions
  BY DEF Base, TypeOK
<1> QED BY <1>1, <1>2, <1>3, InputFacts

(* Rows that are no older than the file stay so: what another writer adds     *)
(* says nothing of their spans.                                               *)
LEMMA FollowsAdded ==
  ASSUME Base, OneVersionedWriter, NEW w \in Writers, NEW v \in Writers, Added(w), Own(w),
         v # w \/ at[w] # "record", NEW op \in Ours(v), FollowsFile(op)
  PROVE  FollowsFile(op)'
<1>1. SUFFICES ASSUME NEW n \in Whole', op.version # NoVersion
               PROVE  UpToDate(op.version, file'[n].delivered.versions[op.span].ts, op.span)
  BY DEF FollowsFile, Follows
<1>2. op \in Operations /\ op.span \in Spans /\ op.version \in Versions
  BY OursFacts, InputFacts
<1>3. CASE n \in Whole /\ file'[n] = file[n]
  BY <1>1, <1>3 DEF FollowsFile, Follows
<1>z. ASSUME file'[n].delivered.versions[op.span] = NoVersion
      PROVE  UpToDate(op.version, file'[n].delivered.versions[op.span].ts, op.span)
  <2>1. file'[n].delivered.versions[op.span].ts = 0
    BY <1>z DEF NoVersion
  <2>2. UpToDate(op.version, 0, op.span)
    BY <1>2, FollowsZero
  <2> QED BY <2>1, <2>2
<1>4. CASE file'[n].delivered = Nothing
  <2>1. file'[n].delivered.versions[op.span] = NoVersion
    BY <1>2, <1>4, NothingVersions
  <2> QED BY <1>z, <2>1
<1>5. CASE at[w] = "record" /\ file'[n].delivered.versions = pending[w].versions
  <2>1. v # w
    BY <1>5
  <2>2. pending[w].versions[op.span] \in VersionsIn(Ours(w), op.span)
    BY <1>2 DEF Own
  <2>3. pending[w].versions[op.span] = NoVersion
    BY <1>1, <1>2, <2>1, <2>2, OneWriter
  <2> QED BY <1>z, <1>5, <2>3
<1> QED BY <1>3, <1>4, <1>5 DEF Added

(* Rows of a writer, after a step of w.                                       *)
LEMMA FileOrderStep ==
  ASSUME Base, OneVersionedWriter, NEW w \in Writers, NEW v \in Writers, Added(w), Own(w), Own(v),
         FileOrder(v),
         v # w \/ at[w] # "record" \/ (queued'[v] = <<>> /\ batch'[v] = <<>>),
         \A k \in 1..Len(queued'[v]) :
            \/ \E j \in 1..Len(queued[v]) : queued'[v][k].op = queued[v][j].op
            \/ \E j \in 1..Len(batch[v]) : queued'[v][k].op = batch[v][j].op,
         \A k \in 1..Len(batch'[v]) :
            \/ \E j \in 1..Len(batch[v]) : batch'[v][k].op = batch[v][j].op
            \/ \E op \in Ours(v) : batch'[v][k].op = op /\ FollowsFile(op)
  PROVE  FileOrder(v)'
<1>1. CASE queued'[v] = <<>> /\ batch'[v] = <<>>
  BY <1>1 DEF FileOrder
<1>2. CASE v # w \/ at[w] # "record"
  <2>1. \A op \in Ours(v) : FollowsFile(op) => FollowsFile(op)'
    BY <1>2, FollowsAdded
  <2>2. /\ \A j \in 1..Len(queued[v]) : queued[v][j].op \in Ours(v) /\ FollowsFile(queued[v][j].op)
        /\ \A j \in 1..Len(batch[v]) : batch[v][j].op \in Ours(v) /\ FollowsFile(batch[v][j].op)
    BY DEF Own, FileOrder
  <2>3. ASSUME NEW k \in 1..Len(queued'[v])
        PROVE  \A n \in Whole' : Follows(queued'[v][k].op,
                                         file'[n].delivered.versions[queued'[v][k].op.span].ts)
    <3>1. PICK op \in Ours(v) : queued'[v][k].op = op /\ FollowsFile(op)
      BY <2>2
    <3>2. FollowsFile(op)'
      BY <2>1, <3>1
    <3> QED BY <3>1, <3>2 DEF FollowsFile
  <2>4. ASSUME NEW k \in 1..Len(batch'[v])
        PROVE  \A n \in Whole' : Follows(batch'[v][k].op,
                                         file'[n].delivered.versions[batch'[v][k].op.span].ts)
    <3>1. PICK op \in Ours(v) : batch'[v][k].op = op /\ FollowsFile(op)
      BY <2>2
    <3>2. FollowsFile(op)'
      BY <2>1, <3>1
    <3> QED BY <3>1, <3>2 DEF FollowsFile
  <2> QED BY <2>3, <2>4 DEF FileOrder, FollowsFile
<1> QED BY <1>1, <1>2
------------------------------------------------------------------------------
(* What a selection keeps.                                                    *)

(* A version that was accepted is one of its span.                            *)
LEMMA AcceptedVersion ==
  ASSUME Base, NEW s \in Spans, NEW v, Accepts(v, s, backend)
  PROVE  v \in VersionsIn(Operations, s)
<1>1. backend.rows \subseteq Operations
  BY DEF Base, TypeOK
<1> QED BY <1>1 DEF Accepts, VersionsIn

(* After a refresh a writer knows the newest of the file.                     *)
LEMMA KnownNewest ==
  ASSUME Base, FileInv, NEW w \in Writers, KnownInv(w), NEW s \in Spans
  PROVE  \A n \in Whole : KnownAfter(w)[s].ts >= file[n].delivered.versions[s].ts
<1>1. /\ Whole = 1..Through(w) /\ Unread(w) = seen[w] + 1..Through(w)
      /\ seen[w] \in Nat /\ Through(w) \in Nat
  BY CleanFacts, ThroughFacts, Zenon DEF Base, TypeOK
<1>2. \A n \in Whole : n \in 1..seen[w] \/ n \in Unread(w)
  BY <1>1
<1>3. /\ KnownAfter(w)[s].ts \in Nat /\ KnownAfter(w)[s].ts >= known[w][s].ts
      /\ \A n \in Unread(w) : KnownAfter(w)[s].ts >= file[n].delivered.versions[s].ts
  BY KnownUpper
<1>4. \A n \in 1..seen[w] : known[w][s].ts >= file[n].delivered.versions[s].ts
  BY DEF KnownInv
<1>5. known[w][s].ts \in Nat /\ \A n \in Whole : file[n].delivered.versions[s].ts \in Nat
  BY FileVersions
<1> QED BY <1>2, <1>3, <1>4, <1>5

(* The version that an operation of a batch is judged by.                     *)
Before(w, idx, ops, k) ==
    {j \in {i \in DOMAIN ops : ShouldEmit(w, idx, ops[i])} :
       j < k /\ ops[j].span = ops[k].span /\ ops[j].version # NoVersion}
Previous(w, idx, ops, k) ==
    Newest(Merged(KnownAfter(w), pending[w].versions)[ops[k].span],
           [j \in Before(w, idx, ops, k) |-> ops[j].version])

(* It is a version of the span, and the newest of what was known and of those *)
(* before it.                                                                 *)
LEMMA PreviousFacts ==
  ASSUME Base, FaithInv, Grown, NEW w \in Writers, Own(w), NEW idx, NEW ops, NEW n \in Nat,
         DOMAIN ops = 1..n, \A k \in 1..n : ops[k] \in Operations, NEW k \in 1..n
  PROVE  /\ Previous(w, idx, ops, k) \in VersionsIn(Operations, ops[k].span)
         /\ Previous(w, idx, ops, k).ts \in Nat
         /\ Previous(w, idx, ops, k).ts >= KnownAfter(w)[ops[k].span].ts
         /\ Previous(w, idx, ops, k).ts >= pending[w].versions[ops[k].span].ts
         /\ \A j \in Before(w, idx, ops, k) : Previous(w, idx, ops, k).ts >= ops[j].version.ts
<1> DEFINE s == ops[k].span
           start == Merged(KnownAfter(w), pending[w].versions)[s]
           before == Before(w, idx, ops, k)
           versions == [j \in before |-> ops[j].version]
           p == Previous(w, idx, ops, k)
<1>1. s \in Spans /\ \A j \in 1..n : ops[j].version.ts \in Nat
  BY InputFacts
<1>2. KnownAfter(w) \in [Spans -> Versions] /\ pending[w].versions \in [Spans -> Versions]
  BY RefreshFacts, Zenon DEF Base, TypeOK, PendingSet
<1>3. /\ start \in {KnownAfter(w)[s], pending[w].versions[s]}
      /\ start.ts >= KnownAfter(w)[s].ts /\ start.ts >= pending[w].versions[s].ts
  BY <1>1, <1>2, MergedIn, MergedUpper
<1>4. KnownAfter(w)[s].ts \in Nat /\ pending[w].versions[s].ts \in Nat
  BY <1>1, <1>2, InputFacts
<1>5. start \in VersionsIn(Operations, s)
  <2>1. KnownAfter(w)[s] \in VersionsIn(Operations, s)
    BY <1>1, RefreshFaith, AcceptedVersion
  <2>2. pending[w].versions[s] \in VersionsIn(Operations, s)
    BY <1>1, OursFacts DEF Own
  <2> QED BY <1>3, <2>1, <2>2
<1>6. before \subseteq 1..n /\ \A j \in before : ops[j].span = s
  BY DEF Before
<1>7. /\ DOMAIN versions = before /\ \A j \in before : versions[j] = ops[j].version
      /\ p = Newest(start, versions)
  BY DEF Previous
<1>8. start.ts \in Nat
  BY <1>3, <1>4
<1> HIDE DEF s, start, before, versions, p
<1>9. p.ts \in Nat /\ p.ts >= start.ts /\ \A j \in before : p.ts >= ops[j].version.ts
  <2>1. DOMAIN versions \subseteq 1..n /\ \A j \in DOMAIN versions : versions[j].ts \in Nat
    BY <1>1, <1>6, <1>7
  <2>2. /\ Newest(start, versions).ts \in Nat /\ Newest(start, versions).ts >= start.ts
        /\ \A j \in DOMAIN versions : Newest(start, versions).ts >= versions[j].ts
    BY <1>8, <2>1, NewestUpper
  <2> QED BY <1>7, <2>2
<1>10. p \in VersionsIn(Operations, s)
  <2>1. DOMAIN versions \subseteq 1..n
    BY <1>6, <1>7
  <2>2. p = start \/ \E j \in DOMAIN versions : p = versions[j]
    BY <1>7, <2>1, NewestIn
  <2>3. \A j \in before : ops[j].version \in VersionsIn(Operations, s)
    BY <1>6 DEF VersionsIn
  <2> QED BY <1>5, <1>7, <2>2, <2>3
<1>11. p.ts >= KnownAfter(w)[s].ts /\ p.ts >= pending[w].versions[s].ts
  BY <1>3, <1>4, <1>8, <1>9
<1> QED BY <1>9, <1>10, <1>11 DEF s, p, before

(* What is kept is no older than the file, than what waits to be recorded and *)
(* than what is kept before it.                                               *)
LEMMA KeptFollows ==
  ASSUME Base, FaithInv, Grown, FileInv, NEW w \in Writers, Own(w), KnownInv(w), NEW idx, NEW ops,
         NEW n \in Nat, DOMAIN ops = 1..n, \A k \in 1..n : ops[k] \in Operations,
         NEW k \in Kept(w, idx, ops)
  PROVE  /\ FollowsFile(ops[k])
         /\ Follows(ops[k], pending[w].versions[ops[k].span].ts)
         /\ \A j \in Kept(w, idx, ops) :
               j < k /\ ops[j].span = ops[k].span => Follows(ops[k], ops[j].version.ts)
<1> DEFINE s == ops[k].span
           p == Previous(w, idx, ops, k)
<1>1. /\ k \in 1..n /\ Kept(w, idx, ops) \subseteq {i \in DOMAIN ops : ShouldEmit(w, idx, ops[i])}
      /\ VersionAllowed(p, ops[k])
  BY DEF Kept, Previous, Before
<1>2. ops[k] \in Operations /\ s \in Spans /\ \A j \in 1..n : ops[j].version.ts \in Nat
  BY <1>1, InputFacts
<1>3. /\ p \in VersionsIn(Operations, s) /\ p.ts \in Nat
      /\ p.ts >= KnownAfter(w)[s].ts /\ p.ts >= pending[w].versions[s].ts
      /\ \A j \in Before(w, idx, ops, k) : p.ts >= ops[j].version.ts
  BY <1>1, PreviousFacts
<1>4. ASSUME NEW t \in Nat, t <= p.ts PROVE Follows(ops[k], t)
  <2> HIDE DEF p, s
  <2>1. ops[k].span = s
    BY DEF s
  <2> QED BY <1>1, <1>2, <1>3, <1>4, <2>1, AllowedFollows
<1> HIDE DEF p
<1>5. FollowsFile(ops[k])
  <2>1. ASSUME NEW m \in Whole PROVE Follows(ops[k], file[m].delivered.versions[s].ts)
    <3>1. /\ file[m].delivered.versions[s].ts \in Nat
          /\ KnownAfter(w)[s].ts >= file[m].delivered.versions[s].ts
      BY <1>2, FileVersions, KnownNewest
    <3>2. KnownAfter(w)[s].ts \in Nat
      BY <1>2, KnownUpper
    <3>3. file[m].delivered.versions[s].ts <= p.ts
      BY <1>3, <3>1, <3>2
    <3> QED BY <1>4, <3>1, <3>3
  <2> QED BY <2>1 DEF FollowsFile
<1>6. Follows(ops[k], pending[w].versions[s].ts)
  <2>1. pending[w].versions[s].ts \in Nat
    BY <1>2, FileVersions
  <2>2. pending[w].versions[s].ts <= p.ts
    BY <1>3, <2>1
  <2> QED BY <1>4, <2>1, <2>2
<1>7. ASSUME NEW j \in Kept(w, idx, ops), j < k, ops[j].span = s
      PROVE  Follows(ops[k], ops[j].version.ts)
  <2>1. j \in 1..n /\ ops[j].version.ts \in Nat
    BY <1>1, <1>2
  <2>2. CASE ops[j].version = NoVersion
    <3>1. ops[j].version.ts = 0
      BY <2>2 DEF NoVersion
    <3> QED BY <1>2, <3>1, FollowsZero
  <2>3. CASE ops[j].version # NoVersion
    <3>1. j \in Before(w, idx, ops, k)
      BY <1>1, <1>7, <2>3 DEF Before
    <3>2. ops[j].version.ts <= p.ts
      BY <1>3, <2>1, <3>1
    <3> QED BY <1>4, <2>1, <3>2
  <2> QED BY <2>2, <2>3
<1> QED BY <1>5, <1>6, <1>7

(* The batch that a selection makes.                                          *)
LEMMA SelectOrder ==
  ASSUME Base, FaithInv, Grown, FileInv, NEW w \in Writers, Own(w), KnownInv(w), Select(w)
  PROVE  /\ \A k \in 1..Len(batch'[w]) :
               \E op \in Ours(w) : batch'[w][k].op = op /\ FollowsFile(op)
         /\ BatchOrder(w)'
<1>1. PICK n \in 1..MaxBatch : Selects(w, n)
  BY SelectFacts DEF Base
<1> DEFINE ops == Taken(w, n)
           idx == Refreshed(w)
           kept == Kept(w, idx, ops)
<1>2. /\ read[w] + n <= Len(Input[w]) /\ pending' = pending
      /\ \A i \in 1..Len(batch'[w]) : \E k \in kept :
            batch'[w][i] = [op |-> ops[k], origin |-> Stamp(w, idx, ops, ops[k].span)]
      /\ \A i, j \in 1..Len(batch'[w]) : i < j =>
            \E k, m \in kept : k < m /\ batch'[w][i].op = ops[k] /\ batch'[w][j].op = ops[m]
  BY <1>1, Zenon DEF Selects, Select
<1>3. /\ n \in Nat /\ DOMAIN ops = 1..n
      /\ \A k \in 1..n : ops[k] \in Operations /\ ops[k] \in Ours(w)
  BY <1>2, TakenFacts, OursFacts DEF Base
<1>4. kept \subseteq 1..n
  BY <1>3, KeptFacts
<1> HIDE DEF ops, idx
<1>5. \A k \in kept :
         /\ FollowsFile(ops[k])
         /\ Follows(ops[k], pending[w].versions[ops[k].span].ts)
         /\ \A j \in kept : j < k /\ ops[j].span = ops[k].span => Follows(ops[k], ops[j].version.ts)
  BY <1>3, KeptFollows
<1> HIDE DEF kept
<1>6. ASSUME NEW i \in 1..Len(batch'[w]) PROVE \E k \in kept : batch'[w][i].op = ops[k]
  <2>1. PICK k \in kept :
           batch'[w][i] = [op |-> ops[k], origin |-> Stamp(w, idx, ops, ops[k].span)]
    BY <1>2, Zenon
  <2> DEFINE origin == Stamp(w, idx, ops, ops[k].span)
  <2> HIDE DEF origin
  <2>2. batch'[w][i] = [op |-> ops[k], origin |-> origin]
    BY <2>1, Zenon DEF origin
  <2> QED BY <2>2
<1>7. ASSUME NEW i \in 1..Len(batch'[w])
      PROVE  \E op \in Ours(w) : batch'[w][i].op = op /\ FollowsFile(op)
  <2>1. PICK k \in kept : batch'[w][i].op = ops[k]
    BY <1>6
  <2> QED BY <1>3, <1>4, <1>5, <2>1
<1>8. ASSUME NEW k \in 1..Len(batch'[w])
      PROVE  /\ Follows(batch'[w][k].op, pending'[w].versions[batch'[w][k].op.span].ts)
             /\ \A j \in 1..Len(batch'[w]) :
                   j < k /\ batch'[w][j].op.span = batch'[w][k].op.span
                      => Follows(batch'[w][k].op, batch'[w][j].op.version.ts)
  <2>1. PICK m \in kept : batch'[w][k].op = ops[m]
    BY <1>6
  <2>2. Follows(batch'[w][k].op, pending'[w].versions[batch'[w][k].op.span].ts)
    BY <1>2, <1>5, <2>1
  <2>3. ASSUME NEW j \in 1..Len(batch'[w]), j < k, batch'[w][j].op.span = batch'[w][k].op.span
        PROVE  Follows(batch'[w][k].op, batch'[w][j].op.version.ts)
    <3>1. PICK a \in kept, b \in kept : a < b /\ batch'[w][j].op = ops[a] /\ batch'[w][k].op = ops[b]
      BY <1>2, <2>3, Zenon
    <3>2. ops[a].span = ops[b].span
      BY <2>3, <3>1
    <3>3. Follows(ops[b], ops[a].version.ts)
      BY <1>5, <3>1, <3>2, Zenon
    <3> QED BY <3>1, <3>3
  <2> QED BY <2>2, <2>3
<1>9. BatchOrder(w)'
  BY <1>8 DEF BatchOrder
<1> QED BY <1>7, <1>9
------------------------------------------------------------------------------
(* The kinds of steps: those that leave what is on its way, and those that    *)
(* lose it.                                                                   *)
Rests(w) ==
    /\ UNCHANGED <<queued, batch, rejected, read, backend>>
    /\ pending'[w].versions = pending[w].versions /\ pending'[w].late \subseteq pending[w].late
Drops(w) == Lose(w) /\ UNCHANGED <<head, backend>>

LEMMA StepKinds ==
  ASSUME Base, NEW w \in Writers, Steps(w)
  PROVE  Rests(w) \/ Select(w) \/ Send(w) \/ Upload(w) \/ Reject(w) \/ RecordDelivered(w) \/ Drops(w)
<1>1. CASE Open(w) \/ PersistBirths(w) \/ RequestFlush(w) \/ Flush(w) \/ Acknowledge(w)
  <2>1. UNCHANGED <<queued, batch, rejected, read, backend, pending>>
    BY <1>1, Zenon DEF Open, PersistBirths, RequestFlush, Flush, Acknowledge, sink, sdk
  <2> QED BY <2>1 DEF Rests
<1>2. CASE Commit(w)
  <2>1. /\ pending' = [pending EXCEPT ![w] = Left(w)]
        /\ UNCHANGED <<queued, batch, rejected, read, backend>>
    BY <1>2, CommitFacts DEF Base
  <2>2. pending'[w] = Left(w)
    BY <2>1 DEF Base, TypeOK
  <2> QED BY <2>1, <2>2 DEF Rests, Left
<1>3. CASE Resubmit(w) \/ Restart(w)
  BY <1>3, Zenon DEF Resubmit, Restart, Drops
<1>4. CASE AppendFails(w)
  BY <1>4, FailFacts DEF Drops, Rests
<1> QED BY <1>1, <1>2, <1>3, <1>4 DEF Steps, Work

(* What is on its way was before, or was just selected.                       *)
RowsFrom(w) ==
    /\ \A k \in 1..Len(queued'[w]) :
          \/ \E j \in 1..Len(queued[w]) : queued'[w][k].op = queued[w][j].op
          \/ \E j \in 1..Len(batch[w]) : queued'[w][k].op = batch[w][j].op
    /\ \A k \in 1..Len(batch'[w]) :
          \/ \E j \in 1..Len(batch[w]) : batch'[w][k].op = batch[w][j].op
          \/ at[w] = "idle" /\ \E op \in Ours(w) : batch'[w][k].op = op /\ FollowsFile(op)

LEMMA TailRows ==
  ASSUME Base, NEW w \in Writers, queued[w] # <<>>, queued' = [queued EXCEPT ![w] = Tail(queued[w])]
  PROVE  /\ Len(queued'[w]) + 1 = Len(queued[w]) /\ Len(queued'[w]) \in Nat
         /\ \A k \in 1..Len(queued'[w]) : queued'[w][k] = queued[w][k + 1]
         /\ Head(queued[w]) = queued[w][1] /\ Len(queued[w]) \in Nat
<1>1. queued[w] \in Seq(Rows) /\ queued'[w] = Tail(queued[w])
  BY DEF Base, TypeOK
<1> DEFINE q == queued[w]
<1>2. q \in Seq(Rows) /\ q # <<>>
  BY <1>1
<1> HIDE DEF q
<1>3. /\ Len(Tail(q)) = Len(q) - 1 /\ Len(q) \in Nat /\ Len(q) # 0
      /\ \A k \in 1..Len(q) - 1 : Tail(q)[k] = q[k + 1]
      /\ Head(q) = q[1]
  BY <1>2
<1>4. q = queued[w] /\ queued'[w] = Tail(q)
  BY <1>1 DEF q
<1>5. PICK n \in Nat : n = Len(q) - 1
  <2>1. Len(q) - 1 \in Nat
    BY <1>3
  <2> QED BY <2>1
<1>6. Len(Tail(q)) = n /\ \A k \in 1..n : Tail(q)[k] = q[k + 1]
  <2>1. Len(Tail(q)) = n /\ 1..Len(q) - 1 = 1..n
    BY <1>3, <1>5
  <2> QED BY <1>3, <2>1
<1>8. n + 1 = Len(q)
  BY <1>3, <1>5
<1>7. Len(queued'[w]) = n
  BY <1>4, <1>6
<1> QED BY <1>3, <1>4, <1>5, <1>6, <1>7, <1>8

(* A place of one sequence after another.                                     *)
LEMMA PlaceFacts ==
  ASSUME NEW m \in Nat, NEW n \in Nat, NEW k \in 1..m + n
  PROVE  k \in 1..m \/ \E j \in 1..n : k = m + j
<1>1. CASE ~(k \in 1..m)
  <2>1. k - m \in 1..n /\ k = m + (k - m)
    BY <1>1
  <2> QED BY <2>1
<1> QED BY <1>1

LEMMA RowsStep ==
  ASSUME Base, FaithInv, Grown, FileInv, NEW w \in Writers, Own(w), KnownInv(w), Steps(w)
  PROVE  RowsFrom(w)
<1>0. Len(queued[w]) \in Nat /\ Len(batch[w]) \in Nat
  BY DEF Base, TypeOK
<1>1. CASE UNCHANGED <<queued, batch>>
  BY <1>1 DEF RowsFrom
<1>2. CASE Select(w)
  <2>1. queued' = queued /\ at[w] = "idle"
    BY <1>2 DEF Select, sdk
  <2>2. \A k \in 1..Len(batch'[w]) : \E op \in Ours(w) : batch'[w][k].op = op /\ FollowsFile(op)
    BY <1>2, SelectOrder
  <2> QED BY <2>1, <2>2 DEF RowsFrom
<1>3. CASE Send(w)
  <2>1. /\ Len(queued'[w]) = Len(queued[w]) + Len(batch[w])
        /\ \A k \in 1..Len(queued[w]) : queued'[w][k] = queued[w][k]
        /\ \A k \in 1..Len(batch[w]) : queued'[w][Len(queued[w]) + k] = batch[w][k]
    BY <1>3, SendFacts DEF Base
  <2>2. batch'[w] = <<>>
    BY <1>3 DEF Send, Base, TypeOK
  <2>3. ASSUME NEW k \in 1..Len(queued'[w])
        PROVE  \/ \E j \in 1..Len(queued[w]) : queued'[w][k].op = queued[w][j].op
               \/ \E j \in 1..Len(batch[w]) : queued'[w][k].op = batch[w][j].op
    <3>1. PICK m \in Nat, n \in Nat : m = Len(queued[w]) /\ n = Len(batch[w])
      BY <1>0
    <3>2. k \in 1..m + n
      BY <2>1, <3>1
    <3>3. k \in 1..m \/ \E j \in 1..n : k = m + j
      BY <3>1, <3>2, PlaceFacts
    <3>4. CASE k \in 1..m
      BY <2>1, <3>1, <3>4
    <3>5. ASSUME NEW j \in 1..n, k = m + j PROVE queued'[w][k] = batch[w][j]
      BY <2>1, <3>1, <3>5
    <3> QED BY <3>1, <3>3, <3>4, <3>5
  <2>4. 1..Len(batch'[w]) = {}
    BY <2>2
  <2> QED BY <2>3, <2>4, Zenon DEF RowsFrom
<1>4. CASE Upload(w) \/ Reject(w)
  <2>1. queued[w] # <<>> /\ queued' = [queued EXCEPT ![w] = Tail(queued[w])] /\ batch' = batch
    BY <1>4 DEF Upload, Reject, sink
  <2>2. /\ Len(queued'[w]) + 1 = Len(queued[w]) /\ Len(queued'[w]) \in Nat
        /\ \A k \in 1..Len(queued'[w]) : queued'[w][k] = queued[w][k + 1]
    BY <2>1, TailRows
  <2>3. ASSUME NEW k \in 1..Len(queued'[w])
        PROVE  \E j \in 1..Len(queued[w]) : queued'[w][k].op = queued[w][j].op
    <3>1. PICK n \in Nat : n = Len(queued'[w])
      BY <2>2
    <3>2. k + 1 \in 1..Len(queued[w])
      BY <1>0, <2>2, <3>1
    <3> QED BY <2>2, <3>2
  <2> QED BY <2>1, <2>3 DEF RowsFrom
<1>5. CASE RecordDelivered(w)
  BY <1>1, <1>5 DEF RecordDelivered, sdk
<1>6. CASE Drops(w)
  <2>1. batch'[w] = <<>> /\ (queued'[w] = queued[w] \/ queued'[w] = <<>>)
    BY <1>6, LoseFacts DEF Drops, Base, TypeOK
  <2> QED BY <2>1 DEF RowsFrom
<1> QED BY <1>1, <1>2, <1>3, <1>4, <1>5, <1>6, StepKinds DEF Rests

(* What a writer sends stays of its input.                                    *)
LEMMA OwnStep ==
  ASSUME Base, FaithInv, Grown, FileInv, NEW w \in Writers, Own(w), KnownInv(w), Steps(w)
  PROVE  Own(w)'
<1>1. RowsFrom(w)
  BY RowsStep
<1>2. /\ \A k \in 1..Len(queued'[w]) : queued'[w][k].op \in Ours(w)
      /\ \A k \in 1..Len(batch'[w]) : batch'[w][k].op \in Ours(w)
  BY <1>1 DEF RowsFrom, Own
<1>3. ASSUME NEW s \in Spans, \/ pending'[w].versions[s] = pending[w].versions[s]
                              \/ pending'[w] = Nothing
                              \/ \E k \in 1..Len(batch[w]) : /\ batch[w][k].op.span = s
                                    /\ batch[w][k].op.version = pending'[w].versions[s]
      PROVE  pending'[w].versions[s] \in VersionsIn(Ours(w), s)
  <2>1. CASE pending'[w].versions[s] = pending[w].versions[s]
    BY <2>1 DEF Own
  <2>2. CASE pending'[w] = Nothing
    BY <2>2, NothingVersions DEF VersionsIn
  <2>3. CASE \E k \in 1..Len(batch[w]) : /\ batch[w][k].op.span = s
                                         /\ batch[w][k].op.version = pending'[w].versions[s]
    BY <2>3 DEF Own, VersionsIn
  <2> QED BY <1>3, <2>1, <2>2, <2>3
<1>4. \A s \in Spans : \/ pending'[w].versions[s] = pending[w].versions[s]
                       \/ pending'[w] = Nothing
                       \/ \E k \in 1..Len(batch[w]) : /\ batch[w][k].op.span = s
                             /\ batch[w][k].op.version = pending'[w].versions[s]
  <2>1. CASE Rests(w)
    BY <2>1 DEF Rests
  <2>2. CASE Select(w) \/ Upload(w) \/ Reject(w)
    BY <2>2 DEF Select, Upload, Reject, sink
  <2>3. CASE Send(w)
    BY <2>3, SendFacts DEF Base
  <2>4. CASE RecordDelivered(w)
    BY <2>4 DEF RecordDelivered, Base, TypeOK
  <2>5. CASE Drops(w)
    BY <2>5, LoseFacts DEF Drops, Base, TypeOK
  <2> QED BY <2>1, <2>2, <2>3, <2>4, <2>5, StepKinds
<1>5. \A s \in Spans : pending'[w].versions[s] \in VersionsIn(Ours(w), s)
  BY <1>3, <1>4
<1>6. Ours(w)' = Ours(w) /\ \A s \in Spans : VersionsIn(Ours(w), s)' = VersionsIn(Ours(w), s)
  BY DEF Ours, VersionsIn
<1> QED BY <1>2, <1>5 DEF Own, Ours, VersionsIn

(* A delivery is recorded when nothing is on its way.                         *)
LEMMA QuietStep ==
  ASSUME Base, NEW w \in Writers, Quiet(w), Steps(w)
  PROVE  Quiet(w)'
<1>0. at \in [Writers -> {"closed", "idle", "persist", "send", "flush", "commit", "record", "ack",
                          "finished"}] /\ pending \in [Writers -> PendingSet]
  BY Zenon DEF Base, TypeOK
<1>1. ASSUME at'[w] \notin {"commit", "record", "ack"} PROVE Quiet(w)'
  BY <1>1 DEF Quiet
<1>2. CASE Open(w) \/ PersistBirths(w) \/ RequestFlush(w) \/ Acknowledge(w)
  <2>1. at'[w] \in {"idle", "send", "flush", "finished"}
    BY <1>0, <1>2 DEF Open, PersistBirths, RequestFlush, Acknowledge
  <2> QED BY <1>1, <2>1
<1>3. CASE Select(w)
  <2>1. PICK n \in 1..MaxBatch : Selects(w, n)
    BY <1>3, SelectFacts DEF Base
  <2>2. at'[w] \in {"persist", "send", "idle", "flush"}
    BY <1>0, <2>1 DEF Selects
  <2> QED BY <1>1, <2>2
<1>4. CASE Send(w)
  <2>1. at'[w] \in {"idle", "flush"}
    BY <1>0, <1>4 DEF Send
  <2> QED BY <1>1, <2>1
<1>5. CASE Flush(w)
  <2>1. queued'[w] = <<>> /\ ~rejected'[w] /\ at'[w] = "commit"
    BY <1>0, <1>5 DEF Flush, sdk
  <2> QED BY <2>1 DEF Quiet
<1>6. CASE Commit(w)
  <2>1. /\ at[w] = "commit" /\ pending' = [pending EXCEPT ![w] = Left(w)]
        /\ at' = [at EXCEPT ![w] = IF Left(w) = Nothing THEN "ack" ELSE "record"]
        /\ UNCHANGED <<queued, rejected>>
    BY <1>6 DEF Commit, Left, sdk
  <2> HIDE DEF Left
  <2>2. /\ at'[w] = "ack" => Left(w) = Nothing
        /\ pending'[w] = Left(w)
    BY <1>0, <2>1
  <2> QED BY <2>1, <2>2 DEF Quiet
<1>7. CASE RecordDelivered(w)
  <2>1. at'[w] = "ack" /\ pending'[w] = Nothing
    BY <1>0, <1>7 DEF RecordDelivered
  <2> QED BY <2>1 DEF Quiet
<1>8. CASE Upload(w) \/ Reject(w)
  <2>1. at' = at /\ queued[w] # <<>> /\ pending' = pending
    BY <1>8 DEF Upload, Reject, sink
  <2> QED BY <2>1 DEF Quiet
<1>9. CASE Resubmit(w) \/ Restart(w) \/ AppendFails(w)
  <2>1. at'[w] \in {"closed", "flush"}
    <3>1. ASSUME Lose(w) PROVE at'[w] = "closed"
      BY <1>0, <3>1, LoseFacts
    <3>2. CASE Resubmit(w) \/ Restart(w)
      BY <3>1, <3>2 DEF Resubmit, Restart
    <3>3. CASE AppendFails(w)
      BY <1>0, <3>1, <3>3, FailFacts
    <3> QED BY <1>9, <3>2, <3>3
  <2> QED BY <1>1, <2>1
<1> QED BY <1>2, <1>3, <1>4, <1>5, <1>6, <1>7, <1>8, <1>9 DEF Steps, Work
------------------------------------------------------------------------------
(* The order of what is on its way.                                           *)

(* What stays on its way stays no older than the file.                        *)
LEMMA FileStep ==
  ASSUME Base, FaithInv, Grown, FileInv, OneVersionedWriter, NEW w \in Writers, Steps(w),
         Own(w), KnownInv(w), Quiet(w), NEW v \in Writers, Own(v), FileOrder(v), v # w => Idle(v)
  PROVE  FileOrder(v)'
<1>1. Added(w)
  BY FileGrows
<1>2. CASE v # w
  <2>1. queued'[v] = queued[v] /\ batch'[v] = batch[v]
    BY <1>2 DEF Idle
  <2> QED BY <1>1, <1>2, <2>1, FileOrderStep
<1>3. CASE v = w
  <2>1. RowsFrom(v)
    BY <1>3, RowsStep
  <2>2. /\ \A k \in 1..Len(queued'[v]) :
              \/ \E j \in 1..Len(queued[v]) : queued'[v][k].op = queued[v][j].op
              \/ \E j \in 1..Len(batch[v]) : queued'[v][k].op = batch[v][j].op
        /\ \A k \in 1..Len(batch'[v]) :
              \/ \E j \in 1..Len(batch[v]) : batch'[v][k].op = batch[v][j].op
              \/ \E op \in Ours(v) : batch'[v][k].op = op /\ FollowsFile(op)
    BY <2>1, Zenon DEF RowsFrom
  <2>3. ASSUME at[w] = "record" PROVE queued'[v] = <<>> /\ batch'[v] = <<>>
    <3>1. queued[v] = <<>> /\ batch[v] = <<>>
      BY <1>3, <2>3 DEF Quiet, Base, StageInv
    <3>2. \A k \in 1..Len(queued'[v]) : FALSE
      BY <2>2, <3>1
    <3>3. \A k \in 1..Len(batch'[v]) : FALSE
      BY <1>3, <2>1, <2>3, <3>1 DEF RowsFrom
    <3>4. queued'[v] \in Seq(Rows) /\ batch'[v] \in Seq(Rows)
      <4>1. TypeOK'
        <5>1. [Next]_vars
          BY DEF Steps, Next
        <5> QED BY <5>1, BaseStep DEF Base
      <4> QED BY <4>1 DEF TypeOK
    <3> QED BY <3>2, <3>3, <3>4
  <2> QED BY <1>1, <1>3, <2>2, <2>3, FileOrderStep
<1> QED BY <1>2, <1>3

(* A batch stays in order until it is sent.                                   *)
LEMMA BatchStep ==
  ASSUME Base, FaithInv, Grown, FileInv, NEW w \in Writers, Own(w), KnownInv(w), BatchOrder(w), Steps(w)
  PROVE  BatchOrder(w)'
<1>1. ASSUME batch'[w] = batch[w], pending'[w].versions = pending[w].versions
      PROVE  BatchOrder(w)'
  BY <1>1 DEF BatchOrder
<1>2. ASSUME batch'[w] = <<>> PROVE BatchOrder(w)'
  BY <1>2 DEF BatchOrder
<1>3. CASE Rests(w)
  BY <1>1, <1>3 DEF Rests
<1>4. CASE Upload(w) \/ Reject(w)
  BY <1>1, <1>4 DEF Upload, Reject, sink
<1>5. CASE Select(w)
  BY <1>5, SelectOrder
<1>6. CASE Send(w) \/ RecordDelivered(w) \/ Drops(w)
  <2>1. batch'[w] = <<>>
    <3>1. CASE Send(w)
      BY <3>1 DEF Send, Base, TypeOK
    <3>2. CASE RecordDelivered(w)
      BY <3>2 DEF RecordDelivered, Base, StageInv
    <3>3. CASE Drops(w)
      <4>1. batch' = [batch EXCEPT ![w] = <<>>]
        BY <3>3, LoseFacts DEF Drops
      <4> QED BY <4>1 DEF Base, TypeOK
    <3> QED BY <1>6, <3>1, <3>2, <3>3
  <2> QED BY <1>2, <2>1
<1> QED BY <1>3, <1>4, <1>5, <1>6, StepKinds

(* Rows that settle a time settle that of a batch that is sent behind them.   *)
LEMMA SettlesBatch ==
  ASSUME NEW q, NEW b, NEW r, Len(q) \in Nat, Len(b) \in Nat, Len(r) = Len(q) + Len(b),
         \A k \in 1..Len(q) : r[k] = q[k],
         \A k \in 1..Len(b) : r[Len(q) + k] = b[k],
         NEW v \in Versions, NEW s \in Spans, NEW t, NEW u,
         \A k \in 1..Len(r) : r[k].op \in Operations,
         \A k \in 1..Len(b) : b[k].op.span = s => Follows(b[k].op, t),
         \A j, k \in 1..Len(b) : j < k /\ b[j].op.span = s /\ b[k].op.span = s
                                   => Follows(b[k].op, b[j].op.version.ts),
         \/ u = t
         \/ \E k \in 1..Len(b) : b[k].op.span = s /\ b[k].op.version.ts = u,
         Settles(q, v, s, t)
  PROVE  Settles(r, v, s, u)
<1>0. PICK m \in Nat, n \in Nat : m = Len(q) /\ n = Len(b)
  OBVIOUS
<1>1. ASSUME NEW j \in 1..Len(r) PROVE j \in 1..m \/ \E i \in 1..n : j = m + i
  <2>1. j \in 1..m + n
    BY <1>0
  <2> QED BY <1>0, <2>1, PlaceFacts
<1>2. /\ \A j \in 1..m : r[j] = q[j]
      /\ \A i \in 1..n : r[m + i] = b[i]
  BY <1>0
<1>3. CASE u = t
  <2>1. PICK k \in 0..m :
          /\ k = 0 => UpToDate(v, t, s)
          /\ k > 0 => /\ q[k].op.span = s /\ q[k].op.version # NoVersion
                      /\ UpToDate(q[k].op.version, t, s)
          /\ \A j \in k + 1..m : q[j].op.span = s => Follows(q[j].op, t)
    BY <1>0, Zenon DEF Settles
  <2>2. k \in 0..Len(r) /\ (k > 0 => k \in 1..m)
    BY <1>0, <2>1
  <2>3. ASSUME NEW j \in k + 1..Len(r), r[j].op.span = s PROVE Follows(r[j].op, t)
    <3>1. j \in 1..Len(r)
      BY <1>0, <2>3
    <3>2. CASE j \in 1..m
      <4>1. j \in k + 1..m
        BY <2>3, <3>2
      <4> QED BY <1>2, <2>1, <2>3, <3>2, <4>1
    <3>3. CASE \E i \in 1..n : j = m + i
      BY <1>0, <1>2, <2>3, <3>3
    <3> QED BY <1>1, <3>1, <3>2, <3>3
  <2>4. k > 0 => /\ r[k].op.span = s /\ r[k].op.version # NoVersion
                 /\ UpToDate(r[k].op.version, t, s)
    BY <1>2, <2>1, <2>2
  <2> QED BY <1>3, <2>1, <2>2, <2>3, <2>4, Zenon DEF Settles
<1>4. ASSUME NEW a \in 1..n, b[a].op.span = s, b[a].op.version.ts = u, b[a].op.version # NoVersion
      PROVE  Settles(r, v, s, u)
  <2> DEFINE k == m + a
  <2>1. k \in 0..Len(r) /\ k > 0
    BY <1>0
  <2>2. r[k].op = b[a].op
    BY <1>2
  <2>3. UpToDate(r[k].op.version, u, s)
    <3>1. b[a].op.version.ts \in Nat
      <4>1. r[k].op \in Operations /\ k \in 1..Len(r)
        BY <1>0
      <4> QED BY <2>2, <4>1, InputFacts
    <3>2. b[a].op.version.ts >= u
      BY <1>4, <3>1
    <3> QED BY <2>2, <3>2 DEF UpToDate
  <2>4. ASSUME NEW j \in k + 1..Len(r), r[j].op.span = s PROVE Follows(r[j].op, u)
    <3>1. j \in 1..Len(r) /\ ~(j \in 1..m)
      BY <1>0, <2>4
    <3>2. PICK i \in 1..n : j = m + i
      BY <1>1, <3>1
    <3>3. a < i /\ r[j] = b[i]
      BY <1>2, <2>4, <3>2
    <3> QED BY <1>0, <1>4, <2>4, <3>3
  <2>5. r[k].op.span = s /\ r[k].op.version # NoVersion
    BY <1>4, <2>2
  <2>6. k = 0 => UpToDate(v, u, s)
    BY <2>1
  <2> HIDE DEF k
  <2> QED BY <2>1, <2>3, <2>4, <2>5, <2>6, Zenon DEF Settles
<1>5. ASSUME u = 0 PROVE Settles(r, v, s, u)
  <2>1. UpToDate(v, u, s)
    BY <1>5, FollowsZero
  <2>2. 0 \in 0..Len(r) /\ ~(0 > 0)
    BY <1>0
  <2>3. \A j \in 0 + 1..Len(r) : Follows(r[j].op, u)
    <3>1. \A j \in 0 + 1..Len(r) : j \in 1..Len(r)
      BY <1>0
    <3> QED BY <1>5, <3>1, FollowsZero
  <2> QED BY <2>1, <2>2, <2>3, Zenon DEF Settles
<1>6. ASSUME NEW a \in 1..n, b[a].op.version.ts = u, b[a].op.version = NoVersion PROVE u = 0
  BY <1>6 DEF NoVersion
<1> QED BY <1>0, <1>3, <1>4, <1>5, <1>6

(* An upload settles what was settled.                                        *)
LEMMA SettlesTail ==
  ASSUME NEW q, NEW r, Len(r) \in Nat, Len(r) + 1 = Len(q),
         \A k \in 1..Len(r) : r[k] = q[k + 1],
         NEW v, NEW new, NEW s, NEW t, Settles(q, v, s, t),
         new = IF q[1].op.span = s /\ q[1].op.version # NoVersion THEN q[1].op.version ELSE v
  PROVE  Settles(r, new, s, t)
<1>0. PICK n \in Nat : n = Len(r) /\ Len(q) = n + 1
  OBVIOUS
<1>1. PICK k \in 0..n + 1 :
        /\ k = 0 => UpToDate(v, t, s)
        /\ k > 0 => /\ q[k].op.span = s /\ q[k].op.version # NoVersion
                    /\ UpToDate(q[k].op.version, t, s)
        /\ \A j \in k + 1..n + 1 : q[j].op.span = s => Follows(q[j].op, t)
  BY <1>0, Zenon DEF Settles
<1>2. \A j \in 1..n : r[j] = q[j + 1]
  BY <1>0
<1>3. CASE k > 1
  <2> DEFINE m == k - 1
  <2>1. m \in 0..n /\ m \in 1..n /\ m > 0 /\ m # 0 /\ m + 1 = k
    BY <1>0, <1>1, <1>3
  <2>2. r[m] = q[k]
    BY <1>2, <2>1
  <2>3. ASSUME NEW j \in m + 1..n, r[j].op.span = s PROVE Follows(r[j].op, t)
    <3>1. j \in 1..n /\ j + 1 \in k + 1..n + 1
      BY <2>1, <2>3
    <3> QED BY <1>1, <1>2, <2>3, <3>1
  <2>4. /\ r[m].op.span = s /\ r[m].op.version # NoVersion /\ UpToDate(r[m].op.version, t, s)
    BY <1>1, <1>3, <2>2
  <2> HIDE DEF m
  <2> QED BY <1>0, <2>1, <2>3, <2>4, Zenon DEF Settles
<1>4. CASE ~(k > 1)
  <2>1. UpToDate(new, t, s)
    <3>1. CASE k = 0
      <4>1. 1 \in k + 1..n + 1
        BY <1>0, <3>1
      <4>2. q[1].op.span = s => Follows(q[1].op, t)
        BY <1>1, <4>1
      <4> QED BY <1>1, <3>1, <4>2 DEF Follows
    <3>2. CASE k = 1
      BY <1>1, <3>2
    <3> QED BY <1>1, <1>4, <3>1, <3>2
  <2>2. ASSUME NEW j \in 0 + 1..n, r[j].op.span = s PROVE Follows(r[j].op, t)
    <3>1. j \in 1..n /\ j + 1 \in k + 1..n + 1
      BY <1>0, <1>1, <1>4, <2>2
    <3> QED BY <1>1, <1>2, <2>2, <3>1
  <2>3. 0 \in 0..n /\ ~(0 > 0)
    BY <1>0
  <2> QED BY <1>0, <2>1, <2>2, <2>3, Zenon DEF Settles
<1> QED BY <1>3, <1>4

(* What the destination shows after an upload.                                *)
LEMMA UploadVersion ==
  ASSUME Base, NEW w \in Writers, Upload(w), NEW s \in Spans
  PROVE  LET op == queued[w][1].op IN
         backend'.version[s] = IF op.span = s /\ op.version # NoVersion
                               THEN op.version ELSE backend.version[s]
<1> DEFINE row == Head(queued[w])
           t == row.op.span
<1>1. /\ queued[w] # <<>>
      /\ backend' = [backend EXCEPT
           !.rows = backend.rows \cup {row.op},
           !.stamps[t] = backend.stamps[t] \cup {row.origin},
           !.done = IF row.op.ends THEN backend.done \cup {t} ELSE backend.done,
           !.late = IF row.op.key = NoKey THEN backend.late
                    ELSE backend.late \cup {LateId(row.op)},
           !.version[t] = IF row.op.version = NoVersion
                          THEN backend.version[t] ELSE row.op.version]
  BY DEF Upload
<1>2. backend \in [rows : SUBSET Operations, stamps : [Spans -> SUBSET Origins],
                   done : SUBSET Spans, late : SUBSET LateIds, version : [Spans -> Versions]]
  BY Zenon DEF Base, TypeOK
<1>3. row = queued[w][1]
  BY <1>1, TailRows DEF Upload
<1> HIDE DEF row, t
<1>4. backend'.version[s] = IF s = t /\ row.op.version # NoVersion
                            THEN row.op.version ELSE backend.version[s]
  BY <1>1, <1>2
<1> QED BY <1>3, <1>4 DEF t

(* Nothing that nobody remembers is owed.                                     *)
LEMMA SettlesZero ==
  ASSUME Base, NEW q \in Seq(Rows), NEW v \in Versions, NEW s
  PROVE  Settles(q, v, s, 0)
<1>1. UpToDate(v, 0, s)
  BY FollowsZero
<1>2. Len(q) \in Nat /\ \A j \in 1..Len(q) : q[j].op \in Operations
  <2>1. Len(q) \in Nat /\ \A j \in 1..Len(q) : q[j] \in Rows
    OBVIOUS
  <2> QED BY <2>1 DEF Rows
<1>3. \A j \in 0 + 1..Len(q) : Follows(q[j].op, 0)
  <2>1. \A j \in 0 + 1..Len(q) : j \in 1..Len(q)
    BY <1>2
  <2> QED BY <1>2, <2>1, FollowsZero
<1>4. 0 \in 0..Len(q) /\ ~(0 > 0)
  BY <1>2
<1> QED BY <1>1, <1>3, <1>4, Zenon DEF Settles
------------------------------------------------------------------------------
(* What is on its way settles what waits to be recorded.                      *)
LEMMA OwnSendStep ==
  ASSUME Base, Base', NEW w \in Writers, Own(w), BatchOrder(w), SendOrder(w), Steps(w)
  PROVE  SendOrder(w)'
<1>0. /\ queued[w] \in Seq(Rows) /\ batch[w] \in Seq(Rows) /\ queued'[w] \in Seq(Rows)
      /\ \A s \in Spans : backend.version[s] \in Versions /\ backend'.version[s] \in Versions
  BY DEF Base, TypeOK
<1>1. ASSUME UNCHANGED <<queued, rejected, backend>>, pending'[w].versions = pending[w].versions
      PROVE  SendOrder(w)'
  BY <1>1 DEF SendOrder
<1>2. ASSUME pending'[w] = Nothing PROVE SendOrder(w)'
  <2>1. \A s \in Spans : pending'[w].versions[s].ts = 0
    BY <1>2, NothingVersions
  <2>2. \A s \in Spans : Settles(queued'[w], backend'.version[s], s, 0)
    BY <1>0, SettlesZero
  <2> QED BY <2>1, <2>2 DEF SendOrder
<1>3. CASE Rests(w)
  BY <1>1, <1>3 DEF Rests
<1>4. CASE Select(w)
  BY <1>1, <1>4 DEF Select, sdk
<1>5. CASE Send(w)
  <2>1. /\ Len(queued'[w]) = Len(queued[w]) + Len(batch[w])
        /\ \A k \in 1..Len(queued[w]) : queued'[w][k] = queued[w][k]
        /\ \A k \in 1..Len(batch[w]) : queued'[w][Len(queued[w]) + k] = batch[w][k]
        /\ \A s \in Spans :
               pending'[w].versions[s] = pending[w].versions[s]
               \/ \E k \in 1..Len(batch[w]) : batch[w][k].op.span = s
                                       /\ batch[w][k].op.version = pending'[w].versions[s]
        /\ rejected' = rejected /\ backend' = backend
    BY <1>5, SendFacts DEF Send, Base
  <2>2. CASE rejected[w]
    BY <2>1, <2>2 DEF SendOrder
  <2>3. ASSUME ~rejected[w], NEW s \in Spans
        PROVE  Settles(queued'[w], backend'.version[s], s, pending'[w].versions[s].ts)
    <3> DEFINE q == queued[w]
               b == batch[w]
               r == queued'[w]
               v == backend.version[s]
               t == pending[w].versions[s].ts
               u == pending'[w].versions[s].ts
    <3>1. /\ Len(q) \in Nat /\ Len(b) \in Nat /\ Len(r) = Len(q) + Len(b)
          /\ \A k \in 1..Len(q) : r[k] = q[k]
          /\ \A k \in 1..Len(b) : r[Len(q) + k] = b[k]
          /\ v \in Versions /\ Settles(q, v, s, t)
      BY <1>0, <2>1, <2>3 DEF SendOrder
    <3>2. \A k \in 1..Len(r) : r[k].op \in Operations
      <4>1. \A k \in 1..Len(r) : r[k] \in Rows
        BY <1>0
      <4> QED BY <4>1 DEF Rows
    <3>3. /\ \A k \in 1..Len(b) : b[k].op.span = s => Follows(b[k].op, t)
          /\ \A j, k \in 1..Len(b) : j < k /\ b[j].op.span = s /\ b[k].op.span = s
                                        => Follows(b[k].op, b[j].op.version.ts)
      BY Zenon DEF BatchOrder
    <3>4. u = t \/ \E k \in 1..Len(b) : b[k].op.span = s /\ b[k].op.version.ts = u
      BY <2>1
    <3>5. Settles(r, v, s, u)
      <4> HIDE DEF q, b, r, v, t, u
      <4> QED BY <3>1, <3>2, <3>3, <3>4, SettlesBatch
    <3> QED BY <2>1, <3>5
  <2> QED BY <2>2, <2>3 DEF SendOrder
<1>6. CASE Upload(w)
  <2>1. /\ queued[w] # <<>> /\ queued' = [queued EXCEPT ![w] = Tail(queued[w])]
        /\ rejected' = rejected /\ pending' = pending
    BY <1>6 DEF Upload, sink
  <2>2. CASE rejected[w]
    BY <2>1, <2>2 DEF SendOrder
  <2>3. ASSUME ~rejected[w], NEW s \in Spans
        PROVE  Settles(queued'[w], backend'.version[s], s, pending'[w].versions[s].ts)
    <3> DEFINE q == queued[w]
               r == queued'[w]
               v == backend.version[s]
               new == backend'.version[s]
               t == pending[w].versions[s].ts
    <3>1. /\ Len(r) \in Nat /\ Len(r) + 1 = Len(q)
          /\ \A k \in 1..Len(r) : r[k] = q[k + 1]
          /\ Settles(q, v, s, t)
      BY <2>1, <2>3, TailRows DEF SendOrder
    <3>2. new = IF q[1].op.span = s /\ q[1].op.version # NoVersion THEN q[1].op.version ELSE v
      BY <1>6, UploadVersion
    <3>3. Settles(r, new, s, t)
      <4> HIDE DEF q, r, v, new, t
      <4> QED BY <3>1, <3>2, SettlesTail
    <3> QED BY <2>1, <3>3
  <2> QED BY <2>2, <2>3 DEF SendOrder
<1>7. CASE Reject(w)
  <2>1. rejected'[w] = TRUE
    BY <1>7 DEF Reject, Base, TypeOK
  <2> QED BY <2>1 DEF SendOrder
<1>8. CASE RecordDelivered(w)
  <2>1. pending'[w] = Nothing
    BY <1>8 DEF RecordDelivered, Base, TypeOK
  <2> QED BY <1>2, <2>1
<1>9. CASE Drops(w)
  <2>1. pending' = [pending EXCEPT ![w] = Nothing]
    BY <1>9, LoseFacts DEF Drops
  <2>2. pending'[w] = Nothing
    BY <2>1 DEF Base, TypeOK
  <2> QED BY <1>2, <2>2
<1> QED BY <1>3, <1>4, <1>5, <1>6, <1>7, <1>8, <1>9, StepKinds

(* That of the others too: the destination takes no update of their spans     *)
(* from w.                                                                    *)
LEMMA OtherSendStep ==
  ASSUME Base, Base', OneVersionedWriter, NEW w \in Writers, Own(w), Steps(w),
         NEW v \in Writers, v # w, Own(v), SendOrder(v), Idle(v)
  PROVE  SendOrder(v)'
<1>1. queued'[v] = queued[v] /\ pending'[v] = pending[v] /\ rejected'[v] = rejected[v]
  BY DEF Idle
<1>2. CASE rejected[v]
  BY <1>1, <1>2 DEF SendOrder
<1>3. ASSUME ~rejected[v], NEW s \in Spans
      PROVE  Settles(queued'[v], backend'.version[s], s, pending'[v].versions[s].ts)
  <2>1. CASE backend'.version[s] = backend.version[s]
    BY <1>1, <1>3, <2>1 DEF SendOrder
  <2>2. CASE backend'.version[s] # backend.version[s]
    <3>1. Upload(w)
      <4>1. CASE Select(w) \/ Send(w) \/ Reject(w) \/ RecordDelivered(w) \/ Rests(w) \/ Drops(w)
        <5>1. backend' = backend
          BY <4>1 DEF Select, Send, Reject, RecordDelivered, Rests, Drops
        <5> QED BY <2>2, <5>1
      <4> QED BY <4>1, StepKinds
    <3>2. queued[w][1].op.span = s /\ queued[w][1].op.version # NoVersion
      BY <2>2, <3>1, UploadVersion
    <3>3. queued[w][1].op \in Ours(w)
      <4>1. queued[w] # <<>> /\ queued[w] \in Seq(Rows)
        BY <3>1 DEF Upload, Base, TypeOK
      <4>2. 1 \in 1..Len(queued[w])
        BY <4>1
      <4> QED BY <4>2 DEF Own
    <3>4. pending[v].versions[s] \in VersionsIn(Ours(v), s)
      BY DEF Own
    <3>5. pending[v].versions[s] = NoVersion
      BY <3>2, <3>3, <3>4, OneWriter
    <3>6. pending'[v].versions[s].ts = 0
      BY <1>1, <3>5, NothingVersions
    <3>7. queued'[v] \in Seq(Rows) /\ backend'.version[s] \in Versions
      BY DEF Base, TypeOK
    <3> QED BY <3>6, <3>7, SettlesZero
  <2> QED BY <2>1, <2>2
<1> QED BY <1>2, <1>3 DEF SendOrder

(* What is shown stays no older than what is recorded.                        *)
LEMMA BackendStep ==
  ASSUME Base, Base', FileInv, BackendOrder, NEW w \in Writers, Own(w), Quiet(w), FileOrder(w),
         SendOrder(w), Steps(w)
  PROVE  BackendOrder'
<1>1. Added(w)
  BY FileGrows
<1>2. ASSUME NEW s \in Spans, NEW n \in Whole
      PROVE  UpToDate(backend'.version[s], file[n].delivered.versions[s].ts, s)
  <2>1. CASE backend'.version[s] = backend.version[s]
    BY <2>1 DEF BackendOrder
  <2>2. CASE Upload(w) /\ backend'.version[s] # backend.version[s]
    <3>1. /\ queued[w][1].op.span = s /\ queued[w][1].op.version # NoVersion
          /\ backend'.version[s] = queued[w][1].op.version
      BY <2>2, UploadVersion
    <3>2. 1 \in 1..Len(queued[w])
      <4>1. queued[w] # <<>> /\ queued[w] \in Seq(Rows)
        BY <2>2 DEF Upload, Base, TypeOK
      <4> QED BY <4>1
    <3> QED BY <3>1, <3>2 DEF FileOrder, FollowsFile, Follows
  <2>3. CASE Select(w) \/ Send(w) \/ Reject(w) \/ RecordDelivered(w) \/ Rests(w) \/ Drops(w)
    <3>1. backend' = backend
      BY <2>3 DEF Select, Send, Reject, RecordDelivered, Rests, Drops
    <3> QED BY <2>1, <3>1
  <2> QED BY <2>1, <2>2, <2>3, StepKinds
<1>3. ASSUME NEW s \in Spans, NEW n \in Whole'
      PROVE  UpToDate(backend'.version[s], file'[n].delivered.versions[s].ts, s)
  <2>0. backend'.version[s] \in Versions
    BY DEF Base, TypeOK
  <2>1. CASE n \in Whole /\ file'[n] = file[n]
    BY <1>2, <2>1
  <2>2. CASE file'[n].delivered = Nothing
    <3>1. file'[n].delivered.versions[s].ts = 0
      BY <2>2, NothingVersions
    <3> QED BY <2>0, <3>1, FollowsZero
  <2>3. CASE at[w] = "record" /\ file'[n].delivered.versions = pending[w].versions
    <3>1. queued[w] = <<>> /\ ~rejected[w]
      BY <2>3 DEF Quiet
    <3>2. backend' = backend
      <4>1. ~Upload(w) /\ ~Select(w) /\ ~Send(w) /\ ~Reject(w)
        BY <2>3, <3>1 DEF Upload, Select, Send, Reject
      <4> QED BY <4>1, StepKinds DEF Rests, Drops, RecordDelivered
    <3>3. Settles(<<>>, backend.version[s], s, pending[w].versions[s].ts)
      BY <3>1 DEF SendOrder
    <3>4. UpToDate(backend.version[s], pending[w].versions[s].ts, s)
      <4>1. 0..Len(<<>>) = {0}
        OBVIOUS
      <4> QED BY <3>3, <4>1 DEF Settles
    <3> QED BY <2>3, <3>2, <3>4
  <2> QED BY <1>1, <2>1, <2>2, <2>3 DEF Added
<1> QED BY <1>3 DEF BackendOrder
------------------------------------------------------------------------------
(* What is known and what counts as delivered is recorded.                    *)

(* The others know what they knew.                                            *)
LEMMA OthersKnow ==
  ASSUME Base, NEW w \in Writers, Steps(w), NEW v \in Writers, v # w
  PROVE  seen'[v] = seen[v] /\ known'[v] = known[v]
<1>1. CASE Open(w) \/ Select(w) \/ RequestFlush(w) \/ Flush(w) \/ Send(w) \/ Acknowledge(w)
           \/ Upload(w) \/ Reject(w) \/ PersistBirths(w) \/ RecordDelivered(w) \/ Commit(w)
  BY <1>1, Zenon DEF Open, Select, RequestFlush, Flush, Send, Acknowledge, Upload, Reject,
     PersistBirths, RecordDelivered, Commit, Appended, sink, Base, TypeOK
<1>2. ASSUME Lose(w) PROVE seen'[v] = seen[v] /\ known'[v] = known[v]
  <2>1. seen' = [seen EXCEPT ![w] = 0] /\ known' = [known EXCEPT ![w] = Nothing.versions]
    BY <1>2, LoseFacts
  <2> QED BY <2>1 DEF Base, TypeOK
<1>3. CASE Resubmit(w) \/ Restart(w)
  BY <1>2, <1>3 DEF Resubmit, Restart
<1>4. CASE AppendFails(w)
  BY <1>2, <1>4, FailFacts
<1> QED BY <1>1, <1>3, <1>4 DEF Steps, Work

(* What an append adds.                                                       *)
LEMMA AppendAdds ==
  ASSUME Base, Base', FileInv, NEW w \in Writers, PersistBirths(w) \/ RecordDelivered(w)
  PROVE  /\ seen[w] \in Nat /\ seen'[w] = seen[w] + 1 /\ seen[w] + 1 \in Whole'
         /\ file'[seen[w] + 1] = Record(w) /\ \A n \in 1..seen[w] : file'[n] = file[n]
         /\ index' = Remember(index, Record(w))
<1>1. at[w] \in {"persist", "record"} /\ Appended(w, Record(w))
  BY DEF PersistBirths, RecordDelivered
<1>2. /\ Record(w).form = "whole" /\ Writes(w, Record(w))
      /\ seen' = [seen EXCEPT ![w] = seen[w] + 1]
  BY <1>1, AppendedFacts
<1>3. seen[w] \in Nat /\ seen'[w] = seen[w] + 1 /\ index' = Remember(index, Record(w))
  BY <1>1, <1>2 DEF Appended, Base, TypeOK
<1>4. seen[w] + 1 \in 1..Len(file')
  BY <1>2, <1>3 DEF Writes
<1> QED BY <1>2, <1>3, <1>4 DEF Writes, Whole

(* What a writer knows after a refresh is recorded.                           *)
LEMMA KnownRecorded ==
  ASSUME Base, FileInv, NEW w \in Writers, KnownInv(w), NEW s \in Spans
  PROVE  Filed(s, KnownAfter(w)[s].ts)
<1>1. \/ KnownAfter(w)[s] = known[w][s]
      \/ \E n \in Unread(w) : KnownAfter(w)[s] = file[n].delivered.versions[s]
  BY RefreshFacts DEF Base
<1>2. CASE KnownAfter(w)[s] = known[w][s]
  BY <1>2 DEF KnownInv
<1>3. ASSUME NEW n \in Unread(w), KnownAfter(w)[s] = file[n].delivered.versions[s]
      PROVE  Filed(s, KnownAfter(w)[s].ts)
  <2>1. n \in Whole
    <3>1. Whole = 1..Through(w) /\ Unread(w) = seen[w] + 1..Through(w) /\ seen[w] \in Nat
      BY CleanFacts, ThroughFacts DEF Base, TypeOK
    <3> QED BY <3>1
  <2>2. file[n].delivered.versions[s].ts \in Nat
    BY <2>1, FileVersions
  <2>3. file[n].delivered.versions[s].ts >= KnownAfter(w)[s].ts
    BY <1>3, <2>2
  <2> QED BY <2>1, <2>3 DEF Filed
<1> QED BY <1>1, <1>2, <1>3

(* A writer knows the newest it has read, and that is recorded.               *)
LEMMA KnownStep ==
  ASSUME Base, Base', FileInv, NEW w \in Writers, KnownInv(w), Steps(w),
         NEW v \in Writers, KnownInv(v)
  PROVE  KnownInv(v)'
<1>0. Longer
  BY FileGrows
<1>1. ASSUME seen'[v] = seen[v], known'[v] = known[v] PROVE KnownInv(v)'
  <2>1. \A n \in 1..seen[v] : n \in Whole
    BY DEF FileInv
  <2>2. \A n \in 1..seen[v] : file'[n] = file[n]
    BY <1>0, <2>1 DEF Longer
  <2>3. \A s \in Spans : \A n \in 1..seen[v] : known[v][s].ts >= file[n].delivered.versions[s].ts
    BY DEF KnownInv
  <2>4. \A s \in Spans : Filed(s, known[v][s].ts)'
    <3>1. \A s \in Spans : Filed(s, known[v][s].ts)
      BY DEF KnownInv
    <3>2. ASSUME NEW s \in Spans, Filed(s, known[v][s].ts)
          PROVE  \/ known'[v][s].ts = 0
                 \/ \E n \in Whole' : file'[n].delivered.versions[s].ts >= known'[v][s].ts
      BY <1>0, <1>1, <3>2, Zenon DEF Filed, Longer
    <3> QED BY <3>1, <3>2 DEF Filed
  <2> QED BY <1>1, <2>2, <2>3, <2>4 DEF KnownInv
<1>2. CASE v # w
  BY <1>1, <1>2, OthersKnow
<1>3. ASSUME v = w, Open(w) \/ Select(w) \/ Commit(w) PROVE KnownInv(v)'
  <2>1. /\ file' = file /\ seen' = [seen EXCEPT ![w] = Through(w)]
        /\ known' = [known EXCEPT ![w] = KnownAfter(w)]
    BY <1>3 DEF Open, Select, Commit
  <2>2. Whole' = Whole /\ Whole = 1..Through(w) /\ Unread(w) \subseteq Whole
    <3>1. Whole = 1..Through(w) /\ Unread(w) = seen[w] + 1..Through(w) /\ seen[w] \in Nat
      BY CleanFacts, ThroughFacts DEF Base, TypeOK
    <3>2. Whole' = Whole
      BY <2>1 DEF Whole
    <3>3. \A n \in seen[w] + 1..Through(w) : n \in 1..Through(w)
      BY <3>1
    <3> QED BY <3>1, <3>2, <3>3
  <2>3. seen'[w] = Through(w) /\ known'[w] = KnownAfter(w)
    BY <2>1 DEF Base, TypeOK
  <2>4. \A s \in Spans : /\ \A n \in Whole : KnownAfter(w)[s].ts >= file[n].delivered.versions[s].ts
                         /\ Filed(s, KnownAfter(w)[s].ts)
    BY KnownNewest, KnownRecorded
  <2>5. \A s \in Spans : /\ \A n \in 1..seen'[v] : known'[v][s].ts >= file'[n].delivered.versions[s].ts
                         /\ Filed(s, KnownAfter(w)[s].ts)
    BY <1>3, <2>1, <2>2, <2>3, <2>4
  <2>6. \A s \in Spans : \/ known'[v][s].ts = 0
                         \/ \E n \in Whole' : file'[n].delivered.versions[s].ts >= known'[v][s].ts
    BY <1>3, <2>1, <2>2, <2>3, <2>5 DEF Filed
  <2> QED BY <2>5, <2>6 DEF KnownInv, Filed
<1>4. ASSUME v = w, PersistBirths(w) \/ RecordDelivered(w) PROVE KnownInv(v)'
  <2> DEFINE m == seen[w] + 1
  <2>1. /\ seen[w] \in Nat /\ seen'[w] = m /\ m \in Whole'
        /\ file'[m] = Record(w) /\ \A n \in 1..seen[w] : file'[n] = file[n]
    BY <1>4, AppendAdds
  <2>2. \A n \in 1..seen'[w] : n \in 1..seen[w] \/ n = m
    <3>1. \A n \in 1..seen[w] + 1 : n \in 1..seen[w] \/ n = seen[w] + 1
      BY <2>1
    <3> QED BY <2>1, <3>1
  <2>3. ASSUME NEW s \in Spans
        PROVE  /\ known'[w][s].ts \in Nat /\ known'[w][s].ts >= known[w][s].ts
               /\ known'[w][s].ts >= file'[m].delivered.versions[s].ts
               /\ \/ known'[w][s] = known[w][s]
                  \/ known'[w][s].ts = file'[m].delivered.versions[s].ts
    <3>1. known[w][s].ts \in Nat /\ pending[w].versions[s].ts \in Nat
      BY FileVersions
    <3>2. CASE PersistBirths(w)
      <4>1. known' = known /\ at[w] = "persist"
        BY <3>2 DEF PersistBirths
      <4>2. file'[m].delivered = Nothing
        BY <2>1, <4>1, RecordFacts DEF Base
      <4>3. file'[m].delivered.versions[s].ts = 0
        BY <4>2, NothingVersions
      <4> QED BY <3>1, <4>1, <4>3
    <3>3. CASE RecordDelivered(w)
      <4>1. known' = [known EXCEPT ![w] = Merged(known[w], pending[w].versions)] /\ at[w] = "record"
        BY <3>3 DEF RecordDelivered
      <4>2. file'[m].delivered.versions = pending[w].versions
        <5>1. Record(w).delivered = Delivered(w)
          BY <4>1, RecordFacts DEF Base
        <5>2. Delivered(w).versions = pending[w].versions
          BY DEF Delivered
        <5> QED BY <2>1, <5>1, <5>2
      <4>3. known'[w] = Merged(known[w], pending[w].versions)
        BY <4>1 DEF Base, TypeOK
      <4>4. known[w] \in [Spans -> Versions] /\ pending[w].versions \in [Spans -> Versions]
        BY DEF Base, TypeOK, PendingSet
      <4>5. /\ Merged(known[w], pending[w].versions)[s].ts >= known[w][s].ts
            /\ Merged(known[w], pending[w].versions)[s].ts >= pending[w].versions[s].ts
        BY <4>4, MergedUpper
      <4>6. Merged(known[w], pending[w].versions)[s] \in {known[w][s], pending[w].versions[s]}
        BY <4>4, MergedIn
      <4>7. known'[w][s].ts = known[w][s].ts \/ known'[w][s].ts = pending[w].versions[s].ts
        BY <4>3, <4>6
      <4>8. known'[w][s].ts \in Nat
        BY <3>1, <4>7
      <4> QED BY <4>2, <4>3, <4>5, <4>6, <4>8
    <3> QED BY <1>4, <3>2, <3>3
  <2> HIDE DEF m
  <2>4. \A s \in Spans : /\ \A n \in 1..seen[w] : known[w][s].ts >= file[n].delivered.versions[s].ts
                         /\ Filed(s, known[w][s].ts)
    BY DEF KnownInv
  <2>5. ASSUME NEW s \in Spans, NEW n \in 1..seen'[w]
        PROVE  known'[w][s].ts >= file'[n].delivered.versions[s].ts
    <3>1. CASE n = m
      BY <2>3, <3>1
    <3>2. CASE n \in 1..seen[w]
      <4>1. /\ known[w][s].ts >= file[n].delivered.versions[s].ts /\ file'[n] = file[n]
        BY <2>1, <2>4, <3>2
      <4>2. known[w][s].ts \in Nat /\ file[n].delivered.versions[s].ts \in Nat
        <5>1. n \in Whole
          BY <3>2 DEF FileInv
        <5> QED BY <5>1, FileVersions
      <4>3. PICK a \in Nat : a = known'[w][s].ts /\ a >= known[w][s].ts
        BY <2>3
      <4>4. a >= file[n].delivered.versions[s].ts
        BY <4>1, <4>2, <4>3
      <4> QED BY <4>1, <4>3, <4>4
    <3> QED BY <2>2, <3>1, <3>2
  <2>6. ASSUME NEW s \in Spans
        PROVE  \/ known'[w][s].ts = 0
               \/ \E n \in Whole' : file'[n].delivered.versions[s].ts >= known'[w][s].ts
    <3>1. CASE known'[w][s] = known[w][s]
      BY <1>0, <2>4, <3>1 DEF Filed, Longer
    <3>2. CASE known'[w][s].ts = file'[m].delivered.versions[s].ts
      <4>1. file'[m].delivered.versions[s].ts >= known'[w][s].ts
        BY <2>3, <3>2
      <4> QED BY <2>1, <4>1
    <3> QED BY <2>3, <3>1, <3>2
  <2> QED BY <1>4, <2>5, <2>6 DEF KnownInv, Filed
<1>5. ASSUME v = w, Lose(w) PROVE KnownInv(v)'
  <2>1. seen' = [seen EXCEPT ![w] = 0] /\ known' = [known EXCEPT ![w] = Nothing.versions]
    BY <1>5, LoseFacts
  <2>2. seen'[v] = 0 /\ known'[v] = Nothing.versions
    BY <1>5, <2>1 DEF Base, TypeOK
  <2>3. 1..seen'[v] = {}
    BY <2>2
  <2>4. \A s \in Spans : known'[v][s].ts = 0
    BY <2>2, NothingVersions
  <2> QED BY <2>3, <2>4 DEF KnownInv, Filed
<1>6. CASE RequestFlush(w) \/ Flush(w) \/ Send(w) \/ Acknowledge(w) \/ Upload(w) \/ Reject(w)
  <2>1. seen' = seen /\ known' = known
    BY <1>6 DEF RequestFlush, Flush, Send, Acknowledge, Upload, Reject, sink
  <2> QED BY <1>1, <2>1
<1>7. ASSUME v = w, AppendFails(w) PROVE KnownInv(v)'
  BY <1>1, <1>5, <1>7, FailFacts
<1>8. ASSUME v = w, Resubmit(w) \/ Restart(w) PROVE KnownInv(v)'
  BY <1>5, <1>8 DEF Resubmit, Restart
<1> QED BY <1>2, <1>3, <1>4, <1>6, <1>7, <1>8 DEF Steps, Work
------------------------------------------------------------------------------
(* What counts as delivered stays recorded.                                   *)
LEMMA LateStep ==
  ASSUME Base, Base', FileInv, LateInv, NEW w \in Writers, LatePending(w), Steps(w)
  PROVE  LateInv'
<1>0. Longer /\ Added(w)
  BY FileGrows
<1>1. \A s \in Spans, t \in Nat : Filed(s, t) => Filed(s, t)'
  BY <1>0, FiledStays
<1>2. \A op \in Operations : op.span \in Spans /\ op.version.ts \in Nat
  BY InputFacts
<1>3. ASSUME NEW n \in Whole', NEW op \in Operations, LateId(op) \in file'[n].delivered.late
      PROVE  Filed(op.span, op.version.ts)'
  <2>1. CASE n \in Whole /\ file'[n] = file[n]
    <3>1. Filed(op.span, op.version.ts)
      BY <1>3, <2>1 DEF LateInv, LateFiled
    <3> QED BY <1>1, <1>2, <3>1
  <2>2. CASE file'[n].delivered = Nothing
    BY <1>3, <2>2, NothingVersions
  <2>3. CASE /\ at[w] = "record" /\ file'[n].delivered.versions = pending[w].versions
             /\ file'[n].delivered.late \subseteq pending[w].late
    <3>1. file'[n].delivered.versions[op.span].ts >= op.version.ts
      BY <1>3, <2>3 DEF LatePending, Remembered
    <3> QED BY <3>1 DEF Filed
  <2> QED BY <1>0, <2>1, <2>2, <2>3 DEF Added
<1>4. index'.late \subseteq index.late \cup UNION {file'[n].delivered.late : n \in Whole'}
  <2>1. CASE index' = index
    BY <2>1
  <2>2. CASE Open(w) \/ Select(w) \/ Commit(w)
    <3>1. file' = file /\ (index' = RememberAll(NoIndex, Unread(w)) \/ index' = Refreshed(w))
      BY <2>2 DEF Open, Select, Commit
    <3>2. index'.late \subseteq index.late \cup UNION {file[n].delivered.late : n \in Unread(w)}
      BY <3>1 DEF Refreshed, RememberAll, NoIndex
    <3>3. Unread(w) \subseteq Whole'
      <4>1. Whole' = Whole
        BY <3>1 DEF Whole
      <4>2. Whole = 1..Through(w) /\ Unread(w) = seen[w] + 1..Through(w) /\ seen[w] \in Nat
        BY CleanFacts, ThroughFacts DEF Base, TypeOK
      <4> QED BY <4>1, <4>2
    <3> QED BY <3>1, <3>2, <3>3
  <2>3. CASE PersistBirths(w) \/ RecordDelivered(w)
    <3>1. /\ seen[w] + 1 \in Whole' /\ file'[seen[w] + 1] = Record(w)
          /\ index' = Remember(index, Record(w))
      BY <2>3, AppendAdds
    <3>2. index'.late = index.late \cup Record(w).delivered.late
      BY <3>1 DEF Remember
    <3> QED BY <3>1, <3>2
  <2>4. CASE RequestFlush(w) \/ Flush(w) \/ Send(w) \/ Acknowledge(w) \/ Upload(w) \/ Reject(w)
             \/ Resubmit(w) \/ Restart(w) \/ AppendFails(w)
    <3>1. index' = index
      <4>1. CASE AppendFails(w)
        BY <4>1, FailFacts
      <4> QED BY <2>4, <4>1 DEF RequestFlush, Flush, Send, Acknowledge, Upload, Reject, Resubmit,
                                Restart, disk
    <3> QED BY <2>1, <3>1
  <2> QED BY <2>2, <2>3, <2>4 DEF Steps, Work
<1>5. ASSUME NEW op \in Operations, LateId(op) \in index'.late
      PROVE  Filed(op.span, op.version.ts)'
  <2>1. CASE LateId(op) \in index.late
    <3>1. Filed(op.span, op.version.ts)
      BY <2>1 DEF LateInv, LateFiled
    <3> QED BY <1>1, <1>2, <3>1
  <2> QED BY <1>3, <1>4, <1>5, <2>1
<1>6. /\ \A op \in Operations : LateId(op) \in index'.late => Filed(op.span, op.version.ts)'
      /\ \A n \in Whole' : \A op \in Operations :
            LateId(op) \in file'[n].delivered.late => Filed(op.span, op.version.ts)'
  BY <1>3, <1>5
<1>7. Operations' = Operations
  BY DEF Operations
<1> QED BY <1>6 DEF LateInv, LateFiled, Filed

(* Updates of a span with one key are of one time.                            *)
LEMMA SameTime ==
  ASSUME NEW a \in Operations, NEW b \in Operations, LateId(a) = LateId(b), a.key # NoKey
  PROVE  a.version.ts = b.version.ts
<1>1. PICK v \in Writers : \E k \in 1..Len(Input[v]) : a = Input[v][k]
  BY DEF Operations
<1>2. PICK j \in DOMAIN Input[v] : a = Input[v][j]
  BY <1>1, LedgerAssumption
<1>3. PICK w \in Writers : \E k \in 1..Len(Input[w]) : b = Input[w][k]
  BY DEF Operations
<1>4. PICK k \in DOMAIN Input[w] : b = Input[w][k]
  BY <1>3, LedgerAssumption
<1>5. a.span = b.span /\ a.key = b.key
  BY DEF LateId
<1>6. \A x \in Writers : \A i \in DOMAIN Input[x] :
         Input[v][j].key # NoKey /\ Input[x][i].span = Input[v][j].span
            /\ Input[x][i].key = Input[v][j].key => Input[x][i].version.ts = Input[v][j].version.ts
  BY InputAssumption
<1> QED BY <1>2, <1>4, <1>5, <1>6

(* A version that is sent is remembered until it is recorded.                 *)
LEMMA SendUpper ==
  ASSUME Base, NEW w \in Writers, Send(w), NEW s \in Spans
  PROVE  /\ pending'[w].versions[s].ts \in Nat
         /\ pending'[w].versions[s].ts >= pending[w].versions[s].ts
         /\ \A k \in 1..Len(batch[w]) :
               batch[w][k].op.span = s => pending'[w].versions[s].ts >= batch[w][k].op.version.ts
<1> DEFINE rows == batch[w]
           places == 1..Len(rows)
           versioned == {k \in places : rows[k].op.span = s /\ rows[k].op.version # NoVersion}
           given == [k \in versioned |-> rows[k].op.version]
           old == pending[w].versions[s]
           new == pending'[w].versions[s]
<1>1. new = Newest(old, given)
  BY DEF Send, Base, TypeOK
<1>2. Len(rows) \in Nat /\ \A k \in places : rows[k].op.version.ts \in Nat
  <2>1. rows \in Seq(Rows)
    BY DEF Base, TypeOK
  <2>2. Len(rows) \in Nat /\ \A k \in places : rows[k] \in Rows
    BY <2>1
  <2>3. \A k \in places : rows[k].op \in Operations
    BY <2>2 DEF Rows
  <2> QED BY <2>2, <2>3, InputFacts
<1>3. old.ts \in Nat
  BY FileVersions
<1>4. /\ DOMAIN given \subseteq places /\ DOMAIN given = versioned
      /\ \A k \in versioned : given[k] = rows[k].op.version
  OBVIOUS
<1>5. \A k \in places : rows[k].op.span = s => k \in versioned \/ rows[k].op.version.ts = 0
  BY DEF NoVersion
<1> HIDE DEF given, old, new
<1>6. new.ts \in Nat /\ new.ts >= old.ts /\ \A k \in DOMAIN given : new.ts >= given[k].ts
  <2>1. \A k \in DOMAIN given : given[k].ts \in Nat
    BY <1>2, <1>4
  <2>2. /\ Newest(old, given).ts \in Nat /\ Newest(old, given).ts >= old.ts
        /\ \A k \in DOMAIN given : Newest(old, given).ts >= given[k].ts
    BY <1>2, <1>3, <1>4, <2>1, NewestUpper
  <2> QED BY <1>1, <2>2
<1>7. ASSUME NEW k \in places, rows[k].op.span = s PROVE new.ts >= rows[k].op.version.ts
  <2>1. CASE k \in versioned
    BY <1>4, <1>6, <2>1
  <2>2. CASE rows[k].op.version.ts = 0
    BY <1>6, <2>2
  <2> QED BY <1>5, <1>7, <2>1, <2>2
<1> QED BY <1>6, <1>7 DEF new, old

(* What waits to be recorded has the version of each of its updates.          *)
LEMMA PendingStep ==
  ASSUME Base, NEW w \in Writers, LatePending(w), Steps(w)
  PROVE  LatePending(w)'
<1>0. \A op \in Operations : op.span \in Spans /\ op.version.ts \in Nat
  BY InputFacts
<1>1. ASSUME pending'[w].versions = pending[w].versions, pending'[w].late \subseteq pending[w].late
      PROVE  LatePending(w)'
  BY <1>1 DEF LatePending, Remembered, Operations
<1>2. ASSUME pending'[w] = Nothing PROVE LatePending(w)'
  BY <1>2, NothingVersions DEF LatePending
<1>3. CASE Rests(w)
  BY <1>1, <1>3 DEF Rests
<1>4. CASE Select(w) \/ Upload(w) \/ Reject(w)
  BY <1>1, <1>4 DEF Select, Upload, Reject, sink
<1>5. CASE RecordDelivered(w) \/ Drops(w)
  <2>1. pending' = [pending EXCEPT ![w] = Nothing]
    BY <1>5, LoseFacts DEF RecordDelivered, Drops
  <2> QED BY <1>2, <2>1 DEF Base, TypeOK
<1>6. CASE Send(w)
  <2>1. ASSUME NEW op \in Operations, LateId(op) \in pending'[w].late
        PROVE  pending'[w].versions[op.span].ts >= op.version.ts
    <3>0. /\ op.span \in Spans /\ op.version.ts \in Nat /\ pending[w].versions[op.span].ts \in Nat
      BY <1>0, FileVersions
    <3>1. /\ pending'[w].versions[op.span].ts \in Nat
          /\ pending'[w].versions[op.span].ts >= pending[w].versions[op.span].ts
          /\ \A k \in 1..Len(batch[w]) : batch[w][k].op.span = op.span
                => pending'[w].versions[op.span].ts >= batch[w][k].op.version.ts
      BY <1>6, <3>0, SendUpper
    <3>2. CASE LateId(op) \in pending[w].late
      <4>1. pending[w].versions[op.span].ts >= op.version.ts
        BY <3>2 DEF LatePending, Remembered
      <4> DEFINE a == pending'[w].versions[op.span].ts
                 b == pending[w].versions[op.span].ts
      <4>2. a \in Nat /\ b \in Nat /\ a >= b /\ b >= op.version.ts
        BY <3>0, <3>1, <4>1
      <4> HIDE DEF a, b
      <4>3. a >= op.version.ts
        BY <3>0, <4>2
      <4> QED BY <4>3 DEF a
    <3>3. ASSUME NEW k \in 1..Len(batch[w]), batch[w][k].op.key # NoKey,
                 LateId(batch[w][k].op) = LateId(op)
          PROVE  pending'[w].versions[op.span].ts >= op.version.ts
      <4>1. batch[w][k].op \in Operations
        <5>1. batch[w] \in Seq(Rows)
          BY DEF Base, TypeOK
        <5>2. batch[w][k] \in Rows
          BY <5>1
        <5> QED BY <5>2 DEF Rows
      <4>2. batch[w][k].op.version.ts = op.version.ts /\ batch[w][k].op.span = op.span
        BY <3>3, <4>1, SameTime DEF LateId
      <4> QED BY <3>1, <4>2
    <3>4. LateId(op) \in pending[w].late \/ \E k \in 1..Len(batch[w]) :
             batch[w][k].op.key # NoKey /\ LateId(batch[w][k].op) = LateId(op)
      BY <1>6, <2>1, SendFacts DEF Base
    <3> QED BY <3>2, <3>3, <3>4
  <2> QED BY <2>1 DEF LatePending, Remembered, Operations
<1> QED BY <1>3, <1>4, <1>5, <1>6, StepKinds
------------------------------------------------------------------------------
(* What was read is recorded, waits to be, or is about to be sent.            *)
InFile(w, op) ==
    \/ Filed(op.span, op.version.ts)
    \/ Remembered(pending[w], op)
    \/ Batched(batch[w], op)

(* An update that a selection takes, and sends or not.                        *)
LEMMA SelectedFiled ==
  ASSUME Base, FileInv, LateInv, NEW w \in Writers, KnownInv(w), LatePending(w),
         NEW ops, NEW n \in Nat, DOMAIN ops = 1..n, \A k \in 1..n : ops[k] \in Operations,
         NEW k \in 1..n, ops[k].version # NoVersion, ops[k].key # NoKey
  PROVE  \/ Filed(ops[k].span, ops[k].version.ts)
         \/ Remembered(pending[w], ops[k])
         \/ \E j \in Kept(w, Refreshed(w), ops) :
               ops[j].span = ops[k].span /\ ops[j].version.ts >= ops[k].version.ts
<1> DEFINE idx == Refreshed(w)
           s == ops[k].span
           t == ops[k].version.ts
<1>1. ops[k] \in Operations /\ s \in Spans /\ t \in Nat /\ \A j \in 1..n : ops[j].version.ts \in Nat
  BY InputFacts
<1>2. CASE ~ShouldEmit(w, idx, ops[k])
  <2>1. LateId(ops[k]) \in idx.late \/ LateId(ops[k]) \in pending[w].late
    BY <1>2 DEF ShouldEmit
  <2>2. CASE LateId(ops[k]) \in pending[w].late
    BY <1>1, <2>2 DEF LatePending
  <2>3. CASE LateId(ops[k]) \in idx.late
    <3>1. idx.late = index.late \cup UNION {file[m].delivered.late : m \in Unread(w)}
      BY DEF Refreshed, RememberAll
    <3>2. Unread(w) \subseteq Whole
      <4>1. Whole = 1..Through(w) /\ Unread(w) = seen[w] + 1..Through(w) /\ seen[w] \in Nat
        BY CleanFacts, ThroughFacts DEF Base, TypeOK
      <4> QED BY <4>1
    <3>3. LateFiled(index.late) /\ \A m \in Unread(w) : LateFiled(file[m].delivered.late)
      BY <3>2 DEF LateInv
    <3> QED BY <1>1, <2>3, <3>1, <3>3 DEF LateFiled
  <2> QED BY <2>1, <2>2, <2>3
<1>3. CASE k \in Kept(w, idx, ops)
  BY <1>1, <1>3
<1>4. CASE ShouldEmit(w, idx, ops[k]) /\ k \notin Kept(w, idx, ops)
  <2> DEFINE start == Merged(KnownAfter(w), pending[w].versions)
  <2>1. \/ \E j \in Kept(w, idx, ops) : ops[j].span = s /\ ops[j].version.ts > t
        \/ start[s].ts > t
    BY <1>4, KeptCovers
  <2>2. CASE \E j \in Kept(w, idx, ops) : ops[j].span = s /\ ops[j].version.ts > t
    <3>1. Kept(w, idx, ops) \subseteq 1..n
      BY KeptFacts
    <3>2. PICK j \in Kept(w, idx, ops) : ops[j].span = s /\ ops[j].version.ts > t
      BY <2>2
    <3>3. ops[j].version.ts \in Nat
      BY <1>1, <3>1
    <3> QED BY <1>1, <3>2, <3>3
  <2>3. CASE start[s].ts > t
    <3>1. KnownAfter(w) \in [Spans -> Versions] /\ pending[w].versions \in [Spans -> Versions]
      BY RefreshFacts, Zenon DEF Base, TypeOK, PendingSet
    <3>2. start[s] \in {KnownAfter(w)[s], pending[w].versions[s]}
      BY <1>1, <3>1, MergedIn
    <3>3. KnownAfter(w)[s].ts \in Nat /\ pending[w].versions[s].ts \in Nat
      BY <1>1, KnownUpper, FileVersions
    <3>4. CASE start[s] = KnownAfter(w)[s]
      <4>1. Filed(s, KnownAfter(w)[s].ts)
        BY <1>1, KnownRecorded
      <4>2. t <= KnownAfter(w)[s].ts
        BY <1>1, <2>3, <3>3, <3>4
      <4> QED BY <1>1, <3>3, <4>1, <4>2, FiledEarlier
    <3>5. CASE start[s] = pending[w].versions[s]
      <4>1. pending[w].versions[s].ts >= t
        BY <1>1, <2>3, <3>3, <3>5
      <4> QED BY <4>1 DEF Remembered
    <3> QED BY <3>2, <3>4, <3>5
  <2> QED BY <2>1, <2>2, <2>3
<1> QED BY <1>2, <1>3, <1>4

LEMMA UpdateKey ==
  ASSUME NEW w \in Writers, NEW k \in 1..Len(Input[w]), Input[w][k].version # NoVersion
  PROVE  Input[w][k].key # NoKey
<1>1. k \in DOMAIN Input[w]
  BY LedgerAssumption
<1> QED BY <1>1, InputAssumption, Zenon

LEMMA SelectFiled ==
  ASSUME Base, FileInv, LateInv, NEW w \in Writers, KnownInv(w), LatePending(w), ReadFiled(w),
         Select(w)
  PROVE  ReadFiled(w)'
<1>1. PICK n \in 1..MaxBatch : Selects(w, n)
  BY SelectFacts DEF Base
<1> DEFINE ops == Taken(w, n)
           kept == Kept(w, Refreshed(w), ops)
<1>2. /\ read[w] + n <= Len(Input[w]) /\ read' = [read EXCEPT ![w] = @ + n]
      /\ \A k \in kept : \E i \in 1..Len(batch'[w]) : batch'[w][i].op = ops[k]
      /\ pending' = pending /\ file' = file /\ at[w] = "idle"
  BY <1>1 DEF Selects, Select
<1>3. /\ n \in Nat /\ DOMAIN ops = 1..n
      /\ \A k \in 1..n : /\ ops[k] = Input[w][read[w] + k] /\ read[w] + k \in 1..Len(Input[w])
                         /\ ops[k] \in Operations
  BY <1>2, TakenFacts DEF Base
<1>4. read[w] \in Nat /\ read'[w] = read[w] + n
  BY <1>2 DEF Base, TypeOK
<1> HIDE DEF ops
<1>5. ASSUME NEW k \in 1..n, ops[k].version # NoVersion
      PROVE  \/ Filed(ops[k].span, ops[k].version.ts)
             \/ Remembered(pending[w], ops[k])
             \/ Batched(batch'[w], ops[k])
  <2>1. ops[k].key # NoKey
    BY <1>3, <1>5, UpdateKey
  <2>2. CASE \E j \in kept : ops[j].span = ops[k].span /\ ops[j].version.ts >= ops[k].version.ts
    BY <1>2, <2>2, Zenon DEF Batched
  <2> QED BY <1>3, <1>5, <2>1, <2>2, SelectedFiled
<1> HIDE DEF kept
<1>6. \A s, t : Filed(s, t)' = Filed(s, t)
  <2>1. Whole' = Whole
    BY <1>2 DEF Whole
  <2> QED BY <1>2, <2>1 DEF Filed
<1>7. ASSUME NEW k \in 1..read[w], Input[w][k].version # NoVersion
      PROVE  \/ Filed(Input[w][k].span, Input[w][k].version.ts)
             \/ Remembered(pending[w], Input[w][k])
             \/ Batched(batch'[w], Input[w][k])
  <2>1. batch[w] = <<>>
    BY <1>2 DEF Base, StageInv
  <2> QED BY <1>7, <2>1 DEF ReadFiled, Batched
<1>8. ASSUME NEW k \in 1..read'[w], Input[w][k].version # NoVersion
      PROVE  \/ Filed(Input[w][k].span, Input[w][k].version.ts)
             \/ Remembered(pending[w], Input[w][k])
             \/ Batched(batch'[w], Input[w][k])
  <2>1. k \in 1..read[w] \/ \E j \in 1..n : k = read[w] + j
    <3>1. k \in 1..read[w] + n
      BY <1>4
    <3> QED BY <1>3, <1>4, <3>1, PlaceFacts
  <2>2. CASE k \in 1..read[w]
    BY <1>7, <1>8, <2>2
  <2>3. ASSUME NEW j \in 1..n, k = read[w] + j
        PROVE  \/ Filed(Input[w][k].span, Input[w][k].version.ts)
               \/ Remembered(pending[w], Input[w][k])
               \/ Batched(batch'[w], Input[w][k])
    <3>1. Input[w][k] = ops[j]
      BY <1>3, <2>3
    <3> QED BY <1>5, <1>8, <3>1
  <2> QED BY <2>1, <2>2, <2>3
<1> QED BY <1>2, <1>6, <1>8 DEF ReadFiled, Remembered, Batched, Filed

LEMMA SendFiled ==
  ASSUME Base, NEW w \in Writers, ReadFiled(w), Send(w)
  PROVE  ReadFiled(w)'
<1>1. file' = file /\ read' = read
  BY DEF Send, disk
<1>2. \A s, t : Filed(s, t)' = Filed(s, t)
  <2>1. Whole' = Whole
    BY <1>1 DEF Whole
  <2> QED BY <1>1, <2>1 DEF Filed
<1>3. ASSUME NEW op \in Operations, Remembered(pending[w], op) \/ Batched(batch[w], op)
      PROVE  Remembered(pending'[w], op)
  <2> DEFINE s == op.span
  <2>0. s \in Spans /\ op.version.ts \in Nat /\ pending[w].versions[s].ts \in Nat
    BY InputFacts, FileVersions
  <2>1. /\ pending'[w].versions[s].ts \in Nat
        /\ pending'[w].versions[s].ts >= pending[w].versions[s].ts
        /\ \A k \in 1..Len(batch[w]) :
              batch[w][k].op.span = s => pending'[w].versions[s].ts >= batch[w][k].op.version.ts
    BY <2>0, SendUpper
  <2>2. PICK new \in Nat : new = pending'[w].versions[s].ts
    BY <2>1
  <2>3. CASE Remembered(pending[w], op)
    <3>1. pending[w].versions[s].ts >= op.version.ts
      BY <2>3 DEF Remembered
    <3>2. new >= op.version.ts
      BY <2>0, <2>1, <2>2, <3>1
    <3> QED BY <2>2, <3>2 DEF Remembered
  <2>4. CASE Batched(batch[w], op)
    <3>1. PICK j \in 1..Len(batch[w]) : batch[w][j].op.span = s /\ batch[w][j].op.version.ts >= op.version.ts
      BY <2>4 DEF Batched
    <3>2. batch[w][j].op.version.ts \in Nat
      <4>1. batch[w] \in Seq(Rows)
        BY DEF Base, TypeOK
      <4>2. batch[w][j] \in Rows
        BY <4>1
      <4>3. batch[w][j].op \in Operations
        BY <4>2 DEF Rows
      <4> QED BY <4>3, InputFacts
    <3>3. new >= op.version.ts
      BY <2>0, <2>1, <2>2, <3>1, <3>2
    <3> QED BY <2>2, <3>3 DEF Remembered
  <2> QED BY <1>3, <2>3, <2>4
<1>4. \A k \in 1..read[w] : Input[w][k] \in Operations
  <2>1. \A k \in 1..read[w] : k \in 1..Len(Input[w])
    BY InputFacts DEF Base, TypeOK, StageInv
  <2> QED BY <2>1, InputFacts
<1>5. ASSUME NEW k \in 1..read[w], Input[w][k].version # NoVersion
      PROVE  \/ Filed(Input[w][k].span, Input[w][k].version.ts)
             \/ Remembered(pending'[w], Input[w][k])
  BY <1>3, <1>4, <1>5 DEF ReadFiled
<1> QED BY <1>1, <1>2, <1>5 DEF ReadFiled, Remembered, Filed
------------------------------------------------------------------------------
(* What was read stays recorded, or on its way.                               *)
LEMMA ReadFiledStep ==
  ASSUME Base, Base', FileInv, LateInv, NEW w \in Writers, KnownInv(w), LatePending(w), ReadFiled(w),
         HeadFiled(w), Steps(w)
  PROVE  ReadFiled(w)'
<1>0. Longer
  BY FileGrows
<1>1. \A s, t : Filed(s, t) => Filed(s, t)'
  BY <1>0, FiledStays
<1>2. ASSUME read'[w] = read[w], pending'[w].versions = pending[w].versions, batch'[w] = batch[w]
      PROVE  ReadFiled(w)'
  <2>1. ASSUME NEW k \in 1..read[w], Input[w][k].version # NoVersion
        PROVE  \/ Filed(Input[w][k].span, Input[w][k].version.ts)'
               \/ Remembered(pending[w], Input[w][k]) \/ Batched(batch[w], Input[w][k])
    BY <1>1, <2>1 DEF ReadFiled
  <2> QED BY <1>2, <2>1 DEF ReadFiled, Remembered, Filed
<1>3. CASE Rests(w)
  BY <1>2, <1>3 DEF Rests
<1>4. CASE Upload(w) \/ Reject(w)
  BY <1>2, <1>4 DEF Upload, Reject, sink
<1>5. CASE Select(w)
  BY <1>5, SelectFiled
<1>6. CASE Send(w)
  BY <1>6, SendFiled
<1>7. CASE RecordDelivered(w)
  <2>1. /\ at[w] = "record" /\ read' = read /\ batch[w] = <<>>
        /\ seen[w] + 1 \in Whole' /\ file'[seen[w] + 1] = Record(w)
    BY <1>7, AppendAdds DEF RecordDelivered, Base, StageInv
  <2>2. file'[seen[w] + 1].delivered.versions = pending[w].versions
    <3>1. Record(w).delivered = Delivered(w)
      BY <2>1, RecordFacts DEF Base
    <3>2. Delivered(w).versions = pending[w].versions
      BY DEF Delivered
    <3> QED BY <2>1, <3>1, <3>2
  <2>3. ASSUME NEW k \in 1..read[w], Input[w][k].version # NoVersion
        PROVE  Filed(Input[w][k].span, Input[w][k].version.ts)'
    <3>1. ~Batched(batch[w], Input[w][k])
      BY <2>1 DEF Batched
    <3>2. CASE Filed(Input[w][k].span, Input[w][k].version.ts)
      BY <1>1, <3>2
    <3>3. CASE Remembered(pending[w], Input[w][k])
      <4>1. file'[seen[w] + 1].delivered.versions[Input[w][k].span].ts >= Input[w][k].version.ts
        BY <2>2, <3>3 DEF Remembered
      <4> QED BY <2>1, <4>1 DEF Filed
    <3> QED BY <2>3, <3>1, <3>2, <3>3 DEF ReadFiled
  <2> QED BY <2>1, <2>3 DEF ReadFiled, Filed
<1>8. CASE Drops(w)
  <2>1. read' = [read EXCEPT ![w] = head[w]]
    BY <1>8, LoseFacts DEF Drops
  <2>2. read'[w] = head[w]
    BY <2>1 DEF Base, TypeOK
  <2>3. \A k \in 1..head[w] : Input[w][k].version # NoVersion
                                 => Filed(Input[w][k].span, Input[w][k].version.ts)'
    BY <1>1 DEF HeadFiled
  <2> QED BY <2>2, <2>3 DEF ReadFiled, Filed
<1> QED BY <1>3, <1>4, <1>5, <1>6, <1>7, <1>8, StepKinds

(* What was acknowledged is recorded.                                         *)
LEMMA HeadFiledStep ==
  ASSUME Base, FileInv, NEW w \in Writers, Quiet(w), ReadFiled(w), HeadFiled(w), Steps(w)
  PROVE  HeadFiled(w)'
<1>0. Longer
  BY FileGrows
<1>1. \A s, t : Filed(s, t) => Filed(s, t)'
  BY <1>0, FiledStays
<1>2. ASSUME head'[w] = head[w] PROVE HeadFiled(w)'
  <2>1. \A k \in 1..head[w] : Input[w][k].version # NoVersion
                                 => Filed(Input[w][k].span, Input[w][k].version.ts)'
    BY <1>1 DEF HeadFiled
  <2> QED BY <1>2, <2>1 DEF HeadFiled, Filed
<1>3. CASE Acknowledge(w)
  <2>1. at[w] = "ack" /\ (head'[w] = head[w] \/ head'[w] = read[w])
    BY <1>3 DEF Acknowledge, Base, TypeOK
  <2>2. pending[w] = Nothing /\ batch[w] = <<>>
    BY <2>1 DEF Quiet, Base, StageInv
  <2>3. ASSUME head'[w] = read[w], NEW k \in 1..read[w], Input[w][k].version # NoVersion
        PROVE  Filed(Input[w][k].span, Input[w][k].version.ts)'
    <3>1. k \in 1..Len(Input[w])
      BY InputFacts DEF Base, TypeOK, StageInv
    <3>2. Input[w][k].span \in Spans /\ Input[w][k].version.ts \in Nat
      BY <3>1, InputFacts
    <3>3. ~Batched(batch[w], Input[w][k])
      BY <2>2 DEF Batched
    <3>4. ASSUME Remembered(pending[w], Input[w][k])
          PROVE  Filed(Input[w][k].span, Input[w][k].version.ts)
      <4>1. pending[w].versions[Input[w][k].span].ts = 0
        BY <2>2, <3>2, NothingVersions
      <4>2. Input[w][k].version.ts = 0
        BY <3>2, <3>4, <4>1 DEF Remembered
      <4> QED BY <4>2 DEF Filed
    <3>5. Filed(Input[w][k].span, Input[w][k].version.ts)
      BY <2>3, <3>3, <3>4 DEF ReadFiled
    <3> QED BY <1>1, <3>5
  <2>4. CASE head'[w] = read[w]
    BY <2>3, <2>4 DEF HeadFiled, Filed
  <2> QED BY <1>2, <2>1, <2>4
<1>4. CASE ~Acknowledge(w)
  <2>1. head' = head
    <3>1. CASE AppendFails(w)
      BY <3>1, FailFacts
    <3>2. CASE Commit(w)
      BY <3>2, CommitFacts DEF Base
    <3> QED BY <1>4, <3>1, <3>2, Zenon DEF Steps, Work, Open, Select, PersistBirths, Send, RequestFlush, Flush,
                             RecordDelivered, Resubmit, Upload, Reject, Restart
  <2> QED BY <1>2, <2>1
<1> QED BY <1>3, <1>4

(* A step of w keeps its own order,                                           *)
LEMMA OwnOrderStep ==
  ASSUME Base, Base', FaithInv, Grown, FileInv, OneVersionedWriter, Order, NEW w \in Writers, Steps(w)
  PROVE  OrderOf(w)'
<1>1. OrderOf(w) /\ BackendOrder /\ LateInv
  BY DEF Order
<1>2. /\ Own(w) /\ Quiet(w) /\ FileOrder(w) /\ BatchOrder(w) /\ SendOrder(w)
      /\ KnownInv(w) /\ LatePending(w) /\ ReadFiled(w) /\ HeadFiled(w)
  BY <1>1 DEF OrderOf
<1>3. Own(w)' /\ BatchOrder(w)'
  BY <1>2, OwnStep, BatchStep
<1>4. Quiet(w)'
  BY <1>2, QuietStep
<1>5. FileOrder(w)'
  BY <1>2, FileStep
<1>6. SendOrder(w)'
  BY <1>2, OwnSendStep
<1>7. KnownInv(w)'
  BY <1>2, KnownStep
<1>8. LatePending(w)'
  BY <1>2, PendingStep
<1>9. ReadFiled(w)'
  BY <1>1, <1>2, ReadFiledStep
<1>10. HeadFiled(w)'
  BY <1>2, HeadFiledStep
<1> QED BY <1>3, <1>4, <1>5, <1>6, <1>7, <1>8, <1>9, <1>10 DEF OrderOf

(* that of the others,                                                        *)
LEMMA OtherOrderStep ==
  ASSUME Base, Base', FaithInv, Grown, FileInv, OneVersionedWriter, Order, NEW w \in Writers, Steps(w),
         NEW v \in Writers, v # w
  PROVE  OrderOf(v)'
<1>1. OrderOf(v) /\ OrderOf(w)
  BY DEF Order
<1>2. /\ Own(v) /\ Quiet(v) /\ FileOrder(v) /\ BatchOrder(v) /\ SendOrder(v)
      /\ KnownInv(v) /\ LatePending(v) /\ ReadFiled(v) /\ HeadFiled(v)
      /\ Own(w) /\ Quiet(w) /\ KnownInv(w)
  BY <1>1 DEF OrderOf
<1>3. Idle(v)
  BY OthersIdle DEF Steps
<1>4. /\ queued'[v] = queued[v] /\ batch'[v] = batch[v] /\ rejected'[v] = rejected[v]
      /\ read'[v] = read[v] /\ pending'[v] = pending[v] /\ at'[v] = at[v] /\ head'[v] = head[v]
  BY <1>3 DEF Idle
<1>5. \A s, t : Filed(s, t) => Filed(s, t)'
  BY FileGrows, FiledStays
<1>6. Own(v)'
  BY <1>2, <1>4, Zenon DEF Own, Ours, VersionsIn
<1>7. Quiet(v)'
  BY <1>2, <1>4 DEF Quiet
<1>8. FileOrder(v)'
  BY <1>2, <1>3, FileStep
<1>9. BatchOrder(v)'
  BY <1>2, <1>4, Zenon DEF BatchOrder
<1>10. SendOrder(v)'
  BY <1>2, <1>3, OtherSendStep
<1>11. KnownInv(v)'
  BY <1>2, KnownStep
<1>12. LatePending(v)'
  BY <1>2, <1>4, Zenon DEF LatePending, Remembered, Operations
<1>13. ReadFiled(v)'
  <2>1. ASSUME NEW k \in 1..read[v], Input[v][k].version # NoVersion
        PROVE  \/ Filed(Input[v][k].span, Input[v][k].version.ts)'
               \/ Remembered(pending[v], Input[v][k]) \/ Batched(batch[v], Input[v][k])
    BY <1>2, <1>5, <2>1 DEF ReadFiled
  <2> QED BY <1>4, <2>1 DEF ReadFiled, Remembered, Filed
<1>14. HeadFiled(v)'
  <2>1. \A k \in 1..head[v] : Input[v][k].version # NoVersion
                                 => Filed(Input[v][k].span, Input[v][k].version.ts)'
    BY <1>2, <1>5 DEF HeadFiled
  <2> QED BY <1>4, <2>1 DEF HeadFiled, Filed
<1> QED BY <1>6, <1>7, <1>8, <1>9, <1>10, <1>11, <1>12, <1>13, <1>14 DEF OrderOf

(* and so that of all.                                                        *)
LEMMA OrderStep ==
  ASSUME Base, Base', FaithInv, FileInv, OneVersionedWriter, Order, [Next]_vars, aborts = 0, aborts' = 0
  PROVE  Order'
<1>1. Grown
  BY BackendGrows
<1>2. CASE UNCHANGED vars
  <2>1. UNCHANGED <<file, index, at, read, batch, seen, known, pending, queued, rejected, backend, head>>
    BY <1>2 DEF vars, disk, sink, sdk
  <2>2. ASSUME NEW w \in Writers, OrderOf(w) PROVE OrderOf(w)'
    <3>1. (Own(w) /\ Quiet(w) /\ BatchOrder(w) /\ SendOrder(w) /\ LatePending(w))'
      BY <2>1, <2>2 DEF OrderOf, Own, Ours, VersionsIn, Quiet, BatchOrder, SendOrder, LatePending,
                        Remembered, Operations
    <3>2. (FileOrder(w) /\ KnownInv(w) /\ ReadFiled(w) /\ HeadFiled(w))'
      BY <2>1, <2>2 DEF OrderOf, FileOrder, FollowsFile, KnownInv, ReadFiled, Remembered, Batched,
                        HeadFiled, Filed, Whole
    <3> QED BY <3>1, <3>2 DEF OrderOf
  <2>3. (BackendOrder /\ LateInv)'
    BY <2>1 DEF Order, BackendOrder, LateInv, LateFiled, Filed, Whole, Operations
  <2> QED BY <2>2, <2>3 DEF Order
<1>3. ASSUME NEW w \in Writers, Steps(w) PROVE Order'
  <2>1. OrderOf(w) /\ BackendOrder /\ LateInv
    BY DEF Order
  <2>2. \A v \in Writers : OrderOf(v)'
    <3>1. OrderOf(w)'
      BY <1>1, <1>3, OwnOrderStep
    <3>2. \A v \in Writers : v # w => OrderOf(v)'
      BY <1>1, <1>3, OtherOrderStep
    <3> QED BY <3>1, <3>2
  <2>3. BackendOrder'
    BY <1>3, <2>1, BackendStep DEF OrderOf
  <2>4. LateInv'
    BY <1>3, <2>1, LateStep DEF OrderOf
  <2> QED BY <2>2, <2>3, <2>4 DEF Order
<1>4. \A w \in Writers : ~LateWrite(w) /\ ~Abort(w)
  <2>1. \A w \in Writers : ~LateWrite(w)
    BY DEF LateWrite, FileInv
  <2>2. \A w \in Writers : ~Abort(w)
    BY DEF Abort
  <2> QED BY <2>1, <2>2
<1> QED BY <1>2, <1>3, <1>4 DEF Next, Steps

(* At the start nothing was sent or recorded.                                 *)
LEMMA OrderInit == ASSUME Init PROVE Order
<1>1. PICK legacy \in Legacies :
        /\ \/ legacy = {} /\ file = <<>>
           \/ /\ Len(file) = 1 /\ file[1].delivered.late = {}
              /\ file[1].delivered.versions = Nothing.versions
  BY StartFacts
<1>2. \A n \in Whole : /\ file[n].delivered.late = {}
                       /\ \A s \in Spans : file[n].delivered.versions[s] = NoVersion
  <2>1. \A s \in Spans : Nothing.versions[s] = NoVersion
    BY NothingVersions
  <2>2. CASE file = <<>>
    <3>1. Whole = {}
      BY <2>2 DEF Whole
    <3> QED BY <3>1
  <2>3. CASE file # <<>>
    <3>1. Whole \subseteq {1} /\ file[1].delivered.late = {}
          /\ file[1].delivered.versions = Nothing.versions
      BY <1>1, <2>3 DEF Whole
    <3> QED BY <2>1, <3>1
  <2> QED BY <2>2, <2>3
<1>3. /\ \A w \in Writers : /\ seen[w] = 0 /\ at[w] = "closed" /\ head[w] = 0
                            /\ queued[w] = <<>> /\ batch[w] = <<>> /\ read[w] = 0
                            /\ pending[w] = Nothing /\ known[w] = Nothing.versions
      /\ index = NoIndex /\ backend.version = Nothing.versions
  BY DEF Init
<1>4. Base
  BY BaseInit
<1>5. BackendOrder
  <2>1. \A s \in Spans : backend.version[s] \in Versions
    BY <1>4, FileVersions
  <2>2. \A s \in Spans : \A n \in Whole : file[n].delivered.versions[s].ts = 0
    BY <1>2 DEF NoVersion
  <2> QED BY <2>1, <2>2, FollowsZero DEF BackendOrder
<1>6. LateInv
  BY <1>2, <1>3 DEF LateInv, LateFiled, NoIndex
<1>7. ASSUME NEW w \in Writers PROVE OrderOf(w)
  <2>1. \A s \in Spans : Nothing.versions[s] = NoVersion /\ Nothing.versions[s].ts = 0
    BY NothingVersions
  <2>2. Own(w) /\ Quiet(w) /\ FileOrder(w) /\ BatchOrder(w)
    BY <1>3, <2>1 DEF Own, Quiet, FileOrder, BatchOrder, VersionsIn
  <2>3. SendOrder(w)
    <3>1. \A s \in Spans : Settles(queued[w], backend.version[s], s, 0)
      BY <1>4, FileVersions, SettlesZero DEF Base, TypeOK
    <3> QED BY <1>3, <2>1, <3>1 DEF SendOrder
  <2>4. KnownInv(w)
    BY <1>3, <2>1 DEF KnownInv, Filed
  <2>5. LatePending(w) /\ ReadFiled(w) /\ HeadFiled(w)
    BY <1>3, NothingVersions DEF LatePending, ReadFiled, HeadFiled
  <2> QED BY <2>2, <2>3, <2>4, <2>5 DEF OrderOf
<1> QED BY <1>5, <1>6, <1>7 DEF Order

(* Rows on their way, what was read and what is recorded are in order: see    *)
(* Order (delivery_ledger.rs: version_allowed, remember_version, emit_shared, *)
(* record_emitted, refresh, commit).                                          *)
THEOREM OrderIsInvariant == Spec => []OrderInv
<1>1. Init => OrderInv
  BY OrderInit DEF OrderInv
<1>2. Base /\ Base' /\ FaithInv /\ ProvenanceInv /\ OrderInv /\ [Next]_vars => OrderInv'
  <2> SUFFICES ASSUME Base, Base', FaithInv, ProvenanceInv, OrderInv, [Next]_vars,
                      aborts' = 0, OneVersionedWriter
               PROVE  Order'
    BY DEF OrderInv
  <2>1. aborts = 0
    <3>1. aborts \in Nat
      BY DEF Base, TypeOK
    <3>2. aborts' = aborts \/ aborts' = aborts + 1
      BY ZenonT(40) DEF Next, Work, vars, bounds, Open, Select, PersistBirths, Send, RequestFlush, Flush,
             Commit, RecordDelivered, Acknowledge, Resubmit, Upload, LateWrite, Reject, Restart,
             AppendFails, Abort, Fault
    <3> QED BY <3>1, <3>2
  <2>2. FileInv /\ Order
    BY <2>1 DEF ProvenanceInv, Prov, OrderInv
  <2> QED BY <2>1, <2>2, OrderStep
<1> QED BY <1>1, <1>2, StagesAreInvariant, FaithIsInvariant, ProvenanceIsInvariant, PTL DEF Spec

(* Once an aggregate update is acknowledged the destination never shows an    *)
(* older one of its span, however rows were batched, rejected, lost with a    *)
(* sink and sent again, and whatever was recorded, torn or read by others     *)
(* meanwhile; unless a sink was aborted, and of spans whose updates come from *)
(* one writer (delivery_ledger.rs: version_allowed, emit_shared, commit).     *)
THEOREM LatestIsShown == Spec => []LatestWins
<1>1. ASSUME Base, OrderInv PROVE LatestWins
  <2>1. ASSUME aborts = 0, OneVersionedWriter, NEW w \in Routes, NEW k \in 1..head[w],
               Input[w][k].version # NoVersion
        PROVE  UpToDate(backend.version[Input[w][k].span], Input[w][k].version.ts, Input[w][k].span)
    <3> DEFINE s == Input[w][k].span
               t == Input[w][k].version.ts
    <3>1. w \in Writers /\ HeadFiled(w) /\ BackendOrder
      BY <1>1, <2>1 DEF OrderInv, Order, OrderOf, Writers
    <3>2. s \in Spans /\ t \in Nat
      <4>1. k \in 1..Len(Input[w])
        BY <1>1, <3>1, InputFacts DEF Base, TypeOK, StageInv
      <4> QED BY <3>1, <4>1, InputFacts
    <3>3. backend.version[s] \in Versions
      BY <1>1, <3>2, FileVersions
    <3>4. Filed(s, t)
      BY <2>1, <3>1 DEF HeadFiled
    <3> HIDE DEF s, t
    <3>5. ASSUME t = 0 PROVE UpToDate(backend.version[s], t, s)
      BY <3>3, <3>5, FollowsZero
    <3>6. ASSUME NEW n \in Whole, file[n].delivered.versions[s].ts >= t
          PROVE  UpToDate(backend.version[s], t, s)
      <4>1. /\ file[n].delivered.versions[s].ts \in Nat
            /\ UpToDate(backend.version[s], file[n].delivered.versions[s].ts, s)
        BY <1>1, <3>1, <3>2, FileVersions DEF BackendOrder
      <4>2. t <= file[n].delivered.versions[s].ts
        BY <3>2, <3>6, <4>1
      <4> QED BY <3>2, <3>3, <4>1, <4>2, UpToDateEarlier
    <3>7. UpToDate(backend.version[s], t, s)
      BY <3>4, <3>5, <3>6 DEF Filed
    <3> QED BY <3>7 DEF s, t
  <2> QED BY <2>1, Zenon DEF LatestWins
<1> QED BY <1>1, StagesAreInvariant, OrderIsInvariant, PTL
=============================================================================
