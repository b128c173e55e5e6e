------------------------- MODULE TranslatedLogProof -------------------------
(***************************************************************************)
(* Machine-checked proofs that what Translation publishes is the           *)
(* translation of its journal, and that a translator has handled exactly   *)
(* the records of its journal, whatever fails and is retried.              *)
(***************************************************************************)
EXTENDS TranslationProof, WellFoundedInduction

Translates(journal, p) == journal[p] \in {"event"} \cup Controls

Held == [ready : Seq(Operation), pending : [Spans -> Seq(Operation)]]
-----------------------------------------------------------------------------
(* Induction and recursion.                                                *)

\* A set of numbers that is not empty has a least one.
LEMMA Least ==
  ASSUME NEW T \in SUBSET Nat, T # {}
  PROVE  \E x \in T : \A y \in T : x <= y
<1>1. IsWellFoundedOn(OpToRel(<, Nat), Nat)
  BY NatLessThanWellFounded
<1>2. PICK x \in T : \A y \in T : ~(<<y, x>> \in OpToRel(<, Nat))
  BY <1>1, WFMin
<1>3. ASSUME NEW y \in T PROVE x <= y
  <2>1. x \in Nat /\ y \in Nat /\ <<y, x>> \in Nat \X Nat
    OBVIOUS
  <2>2. ~(<<y, x>> \in OpToRel(<, Nat))
    BY <1>2
  <2>3. ~(y < x)
    BY <2>1, <2>2 DEF OpToRel
  <2> QED BY <2>1, <2>3
<1> QED BY <1>3

\* What holds of zero and is kept by adding one holds of every number.
LEMMA Induction ==
  ASSUME NEW T \in SUBSET Nat, 0 \in T, \A n \in T : n + 1 \in T
  PROVE  T = Nat
<1>1. CASE Nat \ T # {}
  <2>1. PICK x \in Nat \ T : \A y \in Nat \ T : x <= y
    BY <1>1, Least
  <2>2. x # 0 /\ x - 1 \in Nat
    BY <2>1
  <2>3. x - 1 \in T
    BY <2>1, <2>2
  <2> QED BY <2>1, <2>2, <2>3
<1> QED BY <1>1

\* f starts with a, and goes on by F.
Iterates(f, m, S, a, F) ==
  /\ f \in [0..m -> S]
  /\ f[0] = a
  /\ \A n \in 1..m : f[n] = F[n][f[n - 1]]

\* There is a function that gets each value from the one before.
LEMMA Recursion ==
  ASSUME NEW m \in Nat, NEW S, NEW a \in S, NEW F \in [1..m -> [S -> S]]
  PROVE  \E f : Iterates(f, m, S, a, F)
<1> DEFINE Upto1(f, n) == f \in [0..n -> S] /\ f[0] = a /\ \A k \in 1..n : f[k] = F[k][f[k - 1]]
<1> DEFINE T == {n \in Nat : n <= m => \E f : Upto1(f, n)}
<1>1. 0 \in T
  <2>1. Upto1([k \in 0..0 |-> a], 0)
    OBVIOUS
  <2> QED BY <2>1
<1>2. ASSUME NEW n \in T PROVE n + 1 \in T
  <2>1. n \in Nat /\ (n <= m => \E f : Upto1(f, n))
    OBVIOUS
  <2> SUFFICES ASSUME n + 1 <= m PROVE \E f : Upto1(f, n + 1)
    BY <2>1
  <2>2. PICK f : Upto1(f, n)
    BY <2>1
  <2> DEFINE g == [k \in 0..n + 1 |-> IF k <= n THEN f[k] ELSE F[n + 1][f[n]]]
  <2>3. f[n] \in S /\ F[n + 1] \in [S -> S] /\ F[n + 1][f[n]] \in S
    BY <2>1, <2>2
  <2>4. g \in [0..n + 1 -> S]
    BY <2>1, <2>2, <2>3
  <2>5. g[0] = a
    BY <2>1, <2>2
  <2>6. ASSUME NEW k \in 1..n + 1 PROVE g[k] = F[k][g[k - 1]]
    <3>1. k - 1 <= n /\ k - 1 \in 0..n + 1 /\ k \in 0..n + 1 /\ g[k - 1] = f[k - 1]
      BY <2>1
    <3>2. CASE k <= n
      BY <2>1, <2>2, <3>1, <3>2
    <3>3. CASE k = n + 1
      BY <2>1, <3>1, <3>3
    <3> QED BY <2>1, <3>2, <3>3
  <2>7. Upto1(g, n + 1)
    BY <2>4, <2>5, <2>6
  <2> QED BY <2>7
<1>3. m \in T
  <2>1. T \in SUBSET Nat
    OBVIOUS
  <2> HIDE DEF T
  <2> QED BY <1>1, <1>2, <2>1, Induction
<1>4. PICK f : Upto1(f, m)
  BY <1>3
<1> QED BY <1>4 DEF Iterates
-----------------------------------------------------------------------------
(* What the recursive definitions of Translation compute.                  *)

\* Freed goes through the parents one by one.
\* f and g start and go on in the same way.
Alike(f, g, m) ==
  /\ f[0] = g[0]
  /\ \A n \in 1..m : f[n - 1] = g[n - 1] => f[n] = g[n]

\* Functions that go on in the same way are the same.
LEMMA Agree ==
  ASSUME NEW m \in Nat, NEW f, NEW g, Alike(f, g, m)
  PROVE  \A n \in 0..m : f[n] = g[n]
<1> DEFINE T == {n \in Nat : n <= m => f[n] = g[n]}
<1>1. T \in SUBSET Nat /\ 0 \in T
  BY DEF Alike
<1>2. ASSUME NEW n \in T PROVE n + 1 \in T
  <2>1. n \in Nat /\ (n <= m => f[n] = g[n])
    OBVIOUS
  <2>2. CASE n + 1 <= m
    <3>1. n + 1 \in 1..m /\ (n + 1) - 1 = n /\ f[n] = g[n]
      BY <2>1, <2>2
    <3>2. f[n + 1] = g[n + 1]
      BY <3>1 DEF Alike
    <3> QED BY <2>1, <3>2
  <2> QED BY <2>1, <2>2
<1>3. T = Nat
  <2> HIDE DEF T
  <2> QED BY <1>1, <1>2, Induction
<1> QED BY <1>3


\* What holds of the empty sequence and is kept by appending holds of all.
LEMMA SeqInduction ==
  ASSUME NEW A, NEW T \in SUBSET Seq(A), <<>> \in T,
         \A s \in T, x \in A : Append(s, x) \in T
  PROVE  T = Seq(A)
<1> DEFINE N == {n \in Nat : \A s \in Seq(A) : Len(s) = n => s \in T}
<1>1. N \in SUBSET Nat /\ 0 \in N
  <2>1. \A s \in Seq(A) : Len(s) = 0 => s = <<>>
    OBVIOUS
  <2> QED BY <2>1
<1>2. ASSUME NEW n \in N PROVE n + 1 \in N
  <2> SUFFICES ASSUME NEW s \in Seq(A), Len(s) = n + 1 PROVE s \in T
    BY <1>1
  <2>1. n \in Nat
    OBVIOUS
  <2>2. s # <<>>
    BY <2>1
  <2>3. PICK c \in Seq(A), x \in A : s = Append(c, x)
    BY <2>2, SequenceEmptyOrAppend
  <2>4. Len(c) = n
    BY <2>1, <2>3
  <2>5. c \in T
    BY <2>4
  <2> HIDE DEF N
  <2> QED BY <2>3, <2>5
<1>3. N = Nat
  <2> HIDE DEF N
  <2> QED BY <1>1, <1>2, Induction
<1>4. \A s \in Seq(A) : Len(s) \in Nat
  OBVIOUS
<1> QED BY <1>3, <1>4
-----------------------------------------------------------------------------
(* What the recursive definitions compute.                                 *)

\* f puts one sequence after another.
Concatenates(f, ss, A) ==
  /\ f \in [0..Len(ss) -> Seq(A)]
  /\ f[0] = <<>>
  /\ \A n \in 1..Len(ss) : f[n] = f[n - 1] \o ss[n]

\* FlattenSeq goes through its sequences one by one.
LEMMA FlattenIterates ==
  ASSUME NEW A, NEW ss \in Seq(Seq(A))
  PROVE  \E f : Concatenates(f, ss, A) /\ FlattenSeq(ss) = f[Len(ss)]
<1> DEFINE S == Seq(A)
           m == Len(ss)
           F == [n \in 1..m |-> [s \in S |-> s \o ss[n]]]
           Def(f) == f = [n \in 1..m |-> IF n = 1 THEN ss[n] ELSE f[n - 1] \o ss[n]]
<1>1. m \in Nat /\ \A n \in 1..m : ss[n] \in S
  OBVIOUS
<1>2. FlattenSeq(ss) = IF m = 0 THEN ss ELSE (CHOOSE g : Def(g))[m]
  BY Zenon DEF FlattenSeq
<1>3. (m = 0 => ss = <<>>) /\ \A n \in 1..m : <<>> \o ss[n] = ss[n]
  OBVIOUS
<1> HIDE DEF m
<1>4. F \in [1..m -> [S -> S]]
  BY <1>1
<1>5. PICK f : Iterates(f, m, S, <<>>, F)
  <2>1. <<>> \in S
    OBVIOUS
  <2> HIDE DEF F, S
  <2> QED BY <1>1, <1>4, <2>1, Recursion
<1>6. f \in [0..m -> S] /\ f[0] = <<>>
  <2> HIDE DEF F, S
  <2> QED BY <1>5 DEF Iterates
<1>7. ASSUME NEW n \in 1..m PROVE f[n] = f[n - 1] \o ss[n] /\ f[n - 1] \in S
  <2>1. f[n - 1] \in S /\ f[n] = F[n][f[n - 1]]
    <3> HIDE DEF F, S
    <3>1. n - 1 \in 0..m
      BY <1>1
    <3> QED BY <1>5, <3>1 DEF Iterates
  <2> HIDE DEF S
  <2> QED BY <2>1
<1> HIDE DEF F, S
<1> DEFINE h == [n \in 1..m |-> f[n]]
<1>8. Def(h)
  <2>1. ASSUME NEW n \in 1..m
        PROVE  h[n] = IF n = 1 THEN ss[n] ELSE h[n - 1] \o ss[n]
    <3>1. f[n] = f[n - 1] \o ss[n]
      BY <1>7
    <3>2. CASE n = 1
      <4>1. n - 1 = 0 /\ <<>> \o ss[n] = ss[n] /\ h[n] = f[n]
        BY <1>3, <3>2
      <4>2. f[n] = <<>> \o ss[n]
        BY <1>6, <3>1, <4>1
      <4> QED BY <3>2, <4>1, <4>2
    <3>3. CASE n # 1
      <4>1. n - 1 \in 1..m
        BY <1>1, <3>3
      <4> QED BY <3>1, <3>3, <4>1
    <3> QED BY <3>2, <3>3
  <2> QED BY <2>1
<1> DEFINE g == CHOOSE g : Def(g)
<1>9. Def(g)
  <2> HIDE DEF Def
  <2> QED BY <1>8, Zenon
<1> HIDE DEF g
<1>10. ASSUME m # 0 PROVE g[m] = f[m]
  <2>1. \A n \in 1..m : g[n] = IF n = 1 THEN ss[n] ELSE g[n - 1] \o ss[n]
    BY <1>9
  <2> DEFINE e == [n \in 0..m |-> IF n = 0 THEN <<>> ELSE g[n]]
  <2>2. \A n \in 1..m : e[n] = g[n] /\ e[n - 1] = IF n = 1 THEN <<>> ELSE g[n - 1]
    BY <1>1
  <2>3. ASSUME NEW n \in 1..m, f[n - 1] = e[n - 1] PROVE f[n] = e[n]
    <3>1. CASE n = 1
      <4>1. n - 1 = 0 /\ <<>> \o ss[n] = ss[n]
        BY <1>3, <3>1
      <4>2. f[n] = <<>> \o ss[n]
        BY <1>6, <1>7, <4>1
      <4>3. e[n] = ss[n]
        BY <2>1, <2>2, <3>1
      <4> QED BY <4>1, <4>2, <4>3
    <3>2. CASE n # 1
      <4>1. e[n] = g[n] /\ e[n - 1] = g[n - 1] /\ g[n] = g[n - 1] \o ss[n]
        <5> HIDE DEF e
        <5> QED BY <2>1, <2>2, <3>2
      <4>2. f[n] = f[n - 1] \o ss[n]
        BY <1>7
      <4> HIDE DEF e
      <4> QED BY <2>3, <4>1, <4>2
    <3> QED BY <3>1, <3>2
  <2>4. Alike(f, e, m)
    <3>1. f[0] = e[0]
      BY <1>1, <1>6
    <3> HIDE DEF e
    <3> QED BY <2>3, <3>1 DEF Alike
  <2>5. \A n \in 0..m : f[n] = e[n]
    <3>1. m \in Nat
      BY <1>1
    <3> HIDE DEF e, F, S
    <3> QED BY <2>4, <3>1, Agree
  <2>6. m \in 0..m /\ m \in 1..m
    BY <1>1, <1>10
  <2> QED BY <2>2, <2>5, <2>6
<1>11. FlattenSeq(ss) = f[m]
  BY <1>2, <1>3, <1>6, <1>10 DEF g
<1>12. Concatenates(f, ss, A)
  BY <1>6, <1>7 DEF m, S, Concatenates
<1> QED BY <1>11, <1>12 DEF m

\* FlattenSeq, one sequence at a time.
LEMMA FlattenAppend ==
  ASSUME NEW A, NEW ss \in Seq(Seq(A)), NEW s \in Seq(A)
  PROVE  /\ FlattenSeq(ss) \in Seq(A)
         /\ FlattenSeq(Append(ss, s)) = FlattenSeq(ss) \o s
<1> DEFINE m == Len(ss)
           ts == Append(ss, s)
<1>1. /\ ts \in Seq(Seq(A)) /\ Len(ts) = m + 1 /\ ts[m + 1] = s /\ m \in Nat
      /\ \A n \in 1..m : ts[n] = ss[n]
  OBVIOUS
<1>2. PICK f : Concatenates(f, ss, A) /\ FlattenSeq(ss) = f[m]
  BY FlattenIterates
<1> HIDE DEF ts
<1>3. PICK g : Concatenates(g, ts, A) /\ FlattenSeq(ts) = g[Len(ts)]
  BY <1>1, FlattenIterates
<1> HIDE DEF m
<1>4. /\ f[0] = <<>> /\ f[m] \in Seq(A)
      /\ \A n \in 1..m : f[n] = f[n - 1] \o ss[n]
  <2>1. m \in Nat /\ m \in 0..m
    BY <1>1
  <2>2. f \in [0..m -> Seq(A)] /\ f[0] = <<>> /\ \A n \in 1..m : f[n] = f[n - 1] \o ss[n]
    BY <1>2 DEF Concatenates, m
  <2> QED BY <2>1, <2>2
<1>5. g[0] = <<>> /\ \A n \in 1..m + 1 : g[n] = g[n - 1] \o ts[n]
  BY <1>1, <1>3 DEF Concatenates
<1>6. ASSUME NEW n \in 1..m, f[n - 1] = g[n - 1] PROVE f[n] = g[n]
  <2>1. n \in 1..m + 1
    BY <1>1
  <2>2. ts[n] = ss[n]
    BY <1>1
  <2>3. g[n] = g[n - 1] \o ts[n]
    BY <1>5, <2>1
  <2> QED BY <1>4, <1>6, <2>2, <2>3
<1>7. Alike(f, g, m)
  BY <1>4, <1>5, <1>6 DEF Alike
<1>8. m \in Nat
  BY <1>1
<1>9. f[m] = g[m]
  BY <1>7, <1>8, Agree
<1>10. g[m + 1] = g[m] \o s
  <2>1. m + 1 \in 1..m + 1 /\ (m + 1) - 1 = m
    BY <1>8
  <2>2. g[m + 1] = g[(m + 1) - 1] \o ts[m + 1]
    BY <1>5, <2>1
  <2>3. ts[m + 1] = s
    BY <1>1
  <2> QED BY <2>1, <2>2, <2>3
<1>11. FlattenSeq(ts) = g[m + 1]
  BY <1>1, <1>3
<1> QED BY <1>2, <1>4, <1>9, <1>10, <1>11 DEF ts

\* Nothing flattens to nothing.
LEMMA FlattenEmpty == FlattenSeq(<<>>) = <<>>
BY DEF FlattenSeq

\* The elements of FlattenSeq are those of its sequences.
LEMMA FlattenElements ==
  ASSUME NEW A, NEW ss \in Seq(Seq(A)), NEW P \in SUBSET A,
         \A n \in 1..Len(ss) : ss[n] \in Seq(P)
  PROVE  FlattenSeq(ss) \in Seq(P)
<1>1. ss \in Seq(Seq(P))
  OBVIOUS
<1>2. Append(ss, <<>>) \in Seq(Seq(P)) /\ <<>> \in Seq(P)
  BY <1>1
<1> QED BY <1>1, <1>2, FlattenAppend

-----------------------------------------------------------------------------
(* Roots, one operation at a time.                                         *)

Elements(s) == {s[k] : k \in DOMAIN s}

\* What is freed was held back for a parent.
LEMMA FreedFacts ==
  ASSUME NEW pending \in [Spans -> Seq(Operation)], NEW parents \in Seq(Spans)
  PROVE  /\ Freed(pending, parents) \in Seq(Operation)
         /\ \A k \in DOMAIN Freed(pending, parents) : \E s \in ToSet(parents) :
              Freed(pending, parents)[k] \in Elements(pending[s])
<1> DEFINE ss == [n \in 1..Len(parents) |->
                    IF \E k \in 1..n - 1 : parents[k] = parents[n] THEN <<>>
                    ELSE pending[parents[n]]]
           P == {op \in Operation : \E s \in ToSet(parents) : op \in Elements(pending[s])}
<1>1. ASSUME NEW n \in 1..Len(parents) PROVE ss[n] \in Seq(P) /\ ss[n] \in Seq(Operation)
  <2>1. parents[n] \in Spans /\ pending[parents[n]] \in Seq(Operation)
        /\ parents[n] \in ToSet(parents)
    BY DEF ToSet
  <2>2. \A k \in DOMAIN pending[parents[n]] : pending[parents[n]][k] \in P
    BY <2>1 DEF Elements
  <2>3. pending[parents[n]] \in Seq(P)
    <3> DEFINE held == pending[parents[n]]
    <3>1. held \in Seq(Operation) /\ \A k \in DOMAIN held : held[k] \in P
      BY <2>1, <2>2
    <3> HIDE DEF P, Operation, held
    <3>2. held \in Seq(P)
      BY <3>1
    <3> QED BY <3>2 DEF held
  <2>4. <<>> \in Seq(P)
    OBVIOUS
  <2> HIDE DEF P
  <2> QED BY <2>1, <2>3, <2>4
<1>2. ss \in Seq(Seq(Operation)) /\ Len(ss) = Len(parents)
  BY <1>1
<1>3. FlattenSeq(ss) \in Seq(P) /\ P \in SUBSET Operation
  BY <1>1, <1>2, FlattenElements
<1>4. Freed(pending, parents) = FlattenSeq(ss)
  BY DEF Freed
<1> HIDE DEF ss
<1> QED BY <1>3, <1>4

Then(h, k) == [ready |-> h.ready \o k.ready, pending |-> k.pending]
Alone(pending) == [ready |-> <<>>, pending |-> pending]

\* What is done after a state of the roots adds to what was ready.
LEMMA ThenFields ==
  ASSUME NEW h, NEW k
  PROVE  Then(h, k).ready = h.ready \o k.ready /\ Then(h, k).pending = k.pending
BY DEF Then

\* Concatenation is associative.
LEMMA Associative ==
  ASSUME NEW r \in Seq(Operation), NEW s \in Seq(Operation), NEW t \in Seq(Operation)
  PROVE  (r \o s) \o t = r \o (s \o t) /\ s \o t \in Seq(Operation)
OBVIOUS

\* Appending is concatenating one element.
LEMMA AppendConcat ==
  ASSUME NEW r \in Seq(Operation), NEW s \in Seq(Operation), NEW x \in Operation
  PROVE  /\ Append(r \o s, x) = r \o Append(s, x)
         /\ Append(s, x) = s \o <<x>> /\ <<x>> \in Seq(Operation)
<1>1. r \o s \in Seq(Operation) /\ <<x>> \in Seq(Operation)
  OBVIOUS
<1>2. Append(r \o s, x) = (r \o s) \o <<x>> /\ Append(s, x) = s \o <<x>>
  BY <1>1, AppendIsConcat
<1>3. (r \o s) \o <<x>> = r \o (s \o <<x>>)
  BY <1>1, Associative
<1> QED BY <1>1, <1>2, <1>3

\* Roots that were freed leave roots.
LEMMA WithoutType ==
  ASSUME NEW pending \in [Spans -> Seq(Operation)], NEW parents
  PROVE  Without(pending, parents) \in [Spans -> Seq(Operation)]
<1>1. <<>> \in Seq(Operation)
  OBVIOUS
<1> QED BY <1>1 DEF Without

\* Staging an operation yields operations and roots.
LEMMA StageType ==
  ASSUME NEW held \in Held, NEW op \in Operation
  PROVE  Stage(held, op) \in Held
<1>1. /\ held.ready \in Seq(Operation) /\ held.pending \in [Spans -> Seq(Operation)]
      /\ op.span \in Spans /\ op.parents \in Seq(Spans)
  BY DEF Held, Operation
<1> DEFINE freed == Freed(held.pending, op.parents)
           without == Without(held.pending, op.parents)
<1>2. freed \in Seq(Operation) /\ without \in [Spans -> Seq(Operation)]
  BY <1>1, FreedFacts, WithoutType
<1> HIDE DEF freed, without
<1>3. /\ held.ready \o freed \in Seq(Operation)
      /\ Append(held.ready \o freed, op) \in Seq(Operation)
      /\ [without EXCEPT ![op.span] = <<op>>] \in [Spans -> Seq(Operation)]
  <2> HIDE DEF Operation
  <2> QED BY <1>1, <1>2
<1>4. [held EXCEPT !.pending[op.span] = Append(@, op)] \in Held
  <2>1. Append(held.pending[op.span], op) \in Seq(Operation)
    BY <1>1
  <2> HIDE DEF Operation
  <2> QED BY <1>1, <2>1 DEF Held
<1>5. CASE held.pending[op.span] # <<>>
  BY <1>4, <1>5 DEF Stage
<1>6. CASE held.pending[op.span] = <<>> /\ op.insert /\ op.defer
  <2>1. Stage(held, op) = [ready |-> held.ready \o freed,
                           pending |-> [without EXCEPT ![op.span] = <<op>>]]
    BY <1>6 DEF Stage, freed, without
  <2> HIDE DEF Operation
  <2> QED BY <1>3, <2>1 DEF Held
<1>7. CASE held.pending[op.span] = <<>> /\ ~(op.insert /\ op.defer)
  <2>1. Stage(held, op) = [ready |-> Append(held.ready \o freed, op), pending |-> without]
    BY <1>7 DEF Stage, freed, without
  <2> HIDE DEF Operation
  <2> QED BY <1>2, <1>3, <2>1 DEF Held
<1> QED BY <1>5, <1>6, <1>7

\* What is ready stays in front.
LEMMA StageThen ==
  ASSUME NEW h \in Held, NEW k \in Held, NEW op \in Operation
  PROVE  Stage(Then(h, k), op) = Then(h, Stage(k, op))
<1>1. /\ h.ready \in Seq(Operation) /\ k.ready \in Seq(Operation)
      /\ k.pending \in [Spans -> Seq(Operation)]
      /\ op.parents \in Seq(Spans) /\ op.span \in Spans
  BY DEF Held, Operation
<1> DEFINE freed == Freed(k.pending, op.parents)
           without == Without(k.pending, op.parents)
<1>2. freed \in Seq(Operation)
  BY <1>1, FreedFacts
<1> HIDE DEF freed, without
<1>3. /\ (h.ready \o k.ready) \o freed = h.ready \o (k.ready \o freed)
      /\ Append((h.ready \o k.ready) \o freed, op) = h.ready \o Append(k.ready \o freed, op)
  <2> HIDE DEF Operation
  <2>1. h.ready \in Seq(Operation) /\ k.ready \in Seq(Operation) /\ freed \in Seq(Operation)
    BY <1>1, <1>2
  <2>2. (h.ready \o k.ready) \o freed = h.ready \o (k.ready \o freed)
    BY <2>1, Associative
  <2>3. k.ready \o freed \in Seq(Operation)
    BY <2>1, Associative
  <2>4. Append(h.ready \o (k.ready \o freed), op) = h.ready \o Append(k.ready \o freed, op)
    BY <2>1, <2>3, AppendConcat
  <2> QED BY <2>2, <2>4
<1>4. Then(h, k).pending = k.pending /\ Then(h, k).ready = h.ready \o k.ready
  BY DEF Then
<1>5. CASE k.pending[op.span] # <<>>
  <2>1. Stage(k, op) = [k EXCEPT !.pending[op.span] = Append(@, op)]
    BY <1>5 DEF Stage
  <2>2. Stage(Then(h, k), op) = [Then(h, k) EXCEPT !.pending[op.span] = Append(@, op)]
    BY <1>4, <1>5 DEF Stage
  <2>3. k = [ready |-> k.ready, pending |-> k.pending]
    BY DEF Held
  <2>4. Stage(k, op) = [ready |-> k.ready,
                        pending |-> [k.pending EXCEPT ![op.span] = Append(@, op)]]
    BY <2>1, <2>3
  <2>5. Stage(Then(h, k), op) = [ready |-> h.ready \o k.ready,
                        pending |-> [k.pending EXCEPT ![op.span] = Append(@, op)]]
    BY <2>2 DEF Then
  <2> QED BY <2>4, <2>5 DEF Then
<1>6. CASE k.pending[op.span] = <<>> /\ op.insert /\ op.defer
  <2>1. Stage(k, op) = [ready |-> k.ready \o freed,
                        pending |-> [without EXCEPT ![op.span] = <<op>>]]
    BY <1>6 DEF Stage, freed, without
  <2>2. Stage(Then(h, k), op) = [ready |-> (h.ready \o k.ready) \o freed,
                                 pending |-> [without EXCEPT ![op.span] = <<op>>]]
    BY <1>4, <1>6 DEF Stage, freed, without
  <2> QED BY <1>3, <2>1, <2>2 DEF Then
<1>7. CASE k.pending[op.span] = <<>> /\ ~(op.insert /\ op.defer)
  <2>1. Stage(k, op) = [ready |-> Append(k.ready \o freed, op), pending |-> without]
    BY <1>7 DEF Stage, freed, without
  <2>2. Stage(Then(h, k), op) =
          [ready |-> Append((h.ready \o k.ready) \o freed, op), pending |-> without]
    BY <1>4, <1>7 DEF Stage, freed, without
  <2> QED BY <1>3, <2>1, <2>2 DEF Then
<1> QED BY <1>5, <1>6, <1>7

\* f stages one operation after another.
Stages(f, pending, ops) ==
  /\ f \in [0..Len(ops) -> Held]
  /\ f[0] = Alone(pending)
  /\ \A n \in 1..Len(ops) : f[n] = Stage(f[n - 1], ops[n])

\* Staging operations one after the other.
LEMMA StagedIterates ==
  ASSUME NEW pending \in [Spans -> Seq(Operation)], NEW ops \in Seq(Operation)
  PROVE  \E f : Stages(f, pending, ops) /\ Staged(pending, ops) = f[Len(ops)]
<1> DEFINE m == Len(ops)
           F == [n \in 1..m |-> [h \in Held |-> Stage(h, ops[n])]]
           Def(f) == f = [n \in 0..m |-> IF n = 0 THEN [ready |-> <<>>, pending |-> pending]
                                         ELSE Stage(f[n - 1], ops[n])]
<1>1. m \in Nat /\ \A n \in 1..m : ops[n] \in Operation
  <2> HIDE DEF Operation
  <2> QED OBVIOUS
<1>2. Staged(pending, ops) = (CHOOSE g : Def(g))[m]
  BY Zenon DEF Staged
<1> HIDE DEF m
<1>3. F \in [1..m -> [Held -> Held]]
  BY <1>1, StageType
<1>4. Alone(pending) \in Held
  <2>1. <<>> \in Seq(Operation)
    OBVIOUS
  <2> QED BY <2>1 DEF Alone, Held
<1>5. PICK f : Iterates(f, m, Held, Alone(pending), F)
  <2> HIDE DEF F
  <2> QED BY <1>1, <1>3, <1>4, Recursion
<1>6. f \in [0..m -> Held] /\ f[0] = Alone(pending)
  <2> HIDE DEF F
  <2> QED BY <1>5 DEF Iterates
<1>7. ASSUME NEW n \in 1..m PROVE f[n] = Stage(f[n - 1], ops[n])
  <2>1. n - 1 \in 0..m
    BY <1>1
  <2>2. f[n - 1] \in Held /\ f[n] = F[n][f[n - 1]]
    <3> HIDE DEF F
    <3> QED BY <1>5, <2>1 DEF Iterates
  <2> QED BY <2>2
<1> HIDE DEF F
<1>8. Def(f)
  <2>1. ASSUME NEW n \in 0..m
        PROVE  f[n] = IF n = 0 THEN [ready |-> <<>>, pending |-> pending]
                      ELSE Stage(f[n - 1], ops[n])
    <3>1. n = 0 \/ n \in 1..m
      BY <1>1
    <3> QED BY <1>6, <1>7, <3>1 DEF Alone
  <2> QED BY <1>6, <2>1
<1> DEFINE g == CHOOSE g : Def(g)
<1>9. Def(g)
  <2> HIDE DEF Def
  <2> QED BY <1>8, Zenon
<1> HIDE DEF g
<1>10. f[m] = g[m]
  <2>1. g[0] = Alone(pending) /\ \A n \in 1..m : g[n] = Stage(g[n - 1], ops[n])
    <3>1. 0 \in 0..m /\ \A n \in 1..m : n \in 0..m /\ n # 0
      BY <1>1
    <3> QED BY <1>9, <3>1 DEF Alone
  <2>2. Alike(f, g, m)
    BY <1>6, <1>7, <2>1 DEF Alike
  <2>3. m \in Nat
    BY <1>1
  <2> HIDE DEF Def
  <2> QED BY <2>2, <2>3, Agree
<1>11. Stages(f, pending, ops)
  BY <1>6, <1>7 DEF Stages, m
<1> QED BY <1>2, <1>10, <1>11 DEF m, g

\* Staged, one operation at a time.
LEMMA StagedAppend ==
  ASSUME NEW pending \in [Spans -> Seq(Operation)], NEW ops \in Seq(Operation),
         NEW op \in Operation
  PROVE  /\ Staged(pending, ops) \in Held
         /\ Staged(pending, Append(ops, op)) = Stage(Staged(pending, ops), op)
<1> DEFINE m == Len(ops)
           longer == Append(ops, op)
<1>1. /\ longer \in Seq(Operation) /\ Len(longer) = m + 1 /\ longer[m + 1] = op
      /\ m \in Nat /\ \A n \in 1..m : longer[n] = ops[n]
  <2> HIDE DEF Operation
  <2> QED OBVIOUS
<1>2. PICK f : Stages(f, pending, ops) /\ Staged(pending, ops) = f[m]
  BY StagedIterates
<1> HIDE DEF longer
<1>3. PICK g : Stages(g, pending, longer) /\ Staged(pending, longer) = g[Len(longer)]
  BY <1>1, StagedIterates
<1> HIDE DEF m
<1>4. /\ f[0] = Alone(pending) /\ f[m] \in Held
      /\ \A n \in 1..m : f[n] = Stage(f[n - 1], ops[n])
  <2>1. m \in Nat /\ m \in 0..m
    BY <1>1
  <2>2. /\ f \in [0..m -> Held] /\ f[0] = Alone(pending)
        /\ \A n \in 1..m : f[n] = Stage(f[n - 1], ops[n])
    BY <1>2 DEF Stages, m
  <2> QED BY <2>1, <2>2
<1>5. g[0] = Alone(pending) /\ \A n \in 1..m + 1 : g[n] = Stage(g[n - 1], longer[n])
  BY <1>1, <1>3 DEF Stages
<1>6. ASSUME NEW n \in 1..m, f[n - 1] = g[n - 1] PROVE f[n] = g[n]
  <2>1. n \in 1..m + 1
    BY <1>1
  <2>2. longer[n] = ops[n]
    BY <1>1
  <2>3. g[n] = Stage(g[n - 1], longer[n])
    BY <1>5, <2>1
  <2> QED BY <1>4, <1>6, <2>2, <2>3
<1>7. Alike(f, g, m)
  BY <1>4, <1>5, <1>6 DEF Alike
<1>8. m \in Nat
  BY <1>1
<1>9. f[m] = g[m]
  BY <1>7, <1>8, Agree
<1>10. g[m + 1] = Stage(g[m], op)
  <2>1. m + 1 \in 1..m + 1 /\ (m + 1) - 1 = m
    BY <1>8
  <2>2. g[m + 1] = Stage(g[(m + 1) - 1], longer[m + 1])
    BY <1>5, <2>1
  <2>3. longer[m + 1] = op
    BY <1>1
  <2> QED BY <2>1, <2>2, <2>3
<1>11. Staged(pending, longer) = g[m + 1]
  BY <1>1, <1>3
<1> QED BY <1>2, <1>4, <1>9, <1>10, <1>11 DEF longer

\* Staging nothing leaves the roots.
LEMMA StagedEmpty ==
  ASSUME NEW pending \in [Spans -> Seq(Operation)]
  PROVE  Staged(pending, <<>>) = Alone(pending)
<1>1. <<>> \in Seq(Operation) /\ Len(<<>>) = 0
  OBVIOUS
<1> QED BY <1>1, StagedIterates DEF Stages

\* Staging operations yields operations and roots.
LEMMA StagedType ==
  ASSUME NEW pending \in [Spans -> Seq(Operation)], NEW ops \in Seq(Operation)
  PROVE  Staged(pending, ops) \in Held
<1> DEFINE T == {s \in Seq(Operation) : Staged(pending, s) \in Held}
<1>1. <<>> \in T
  <2>1. <<>> \in Seq(Operation)
    OBVIOUS
  <2>2. Alone(pending) \in Held
    BY <2>1 DEF Alone, Held
  <2> QED BY <2>1, <2>2, StagedEmpty
<1>2. ASSUME NEW s \in T, NEW x \in Operation PROVE Append(s, x) \in T
  <2>1. Append(s, x) \in Seq(Operation)
    <3> HIDE DEF Operation
    <3> QED OBVIOUS
  <2> QED BY <2>1, StagedAppend, StageType
<1> HIDE DEF T
<1>3. T = Seq(Operation)
  <2>1. T \in SUBSET Seq(Operation)
    BY DEF T
  <2> QED BY <1>1, <1>2, <2>1, SeqInduction
<1> QED BY <1>3 DEF T

\* Staging goes on from what is held back.
LEMMA StagedThen ==
  ASSUME NEW pending \in [Spans -> Seq(Operation)], NEW a \in Seq(Operation),
         NEW b \in Seq(Operation)
  PROVE  Staged(pending, a \o b) =
           Then(Staged(pending, a), Staged(Staged(pending, a).pending, b))
<1> DEFINE h == Staged(pending, a)
           T == {s \in Seq(Operation) :
                   Staged(pending, a \o s) = Then(h, Staged(h.pending, s))}
<1>1. /\ h \in Held /\ h.pending \in [Spans -> Seq(Operation)] /\ h.ready \in Seq(Operation)
      /\ h = [ready |-> h.ready, pending |-> h.pending]
  BY StagedType DEF Held
<1>2. <<>> \in T
  <2>1. <<>> \in Seq(Operation) /\ a \o <<>> = a
    <3> HIDE DEF Operation
    <3> QED OBVIOUS
  <2>2. Staged(h.pending, <<>>) = Alone(h.pending) /\ h.ready \o <<>> = h.ready
    BY <1>1, StagedEmpty
  <2> QED BY <1>1, <2>1, <2>2 DEF Then, Alone
<1>3. ASSUME NEW s \in T, NEW x \in Operation PROVE Append(s, x) \in T
  <2>1. /\ Append(s, x) \in Seq(Operation) /\ a \o s \in Seq(Operation)
        /\ a \o Append(s, x) = Append(a \o s, x)
    <3>1. s \in Seq(Operation)
      OBVIOUS
    <3> HIDE DEF T, h
    <3>2. a \o s \in Seq(Operation) /\ Append(a \o s, x) = a \o Append(s, x)
      BY <3>1, Associative, AppendConcat
    <3>3. Append(s, x) \in Seq(Operation)
      <4> HIDE DEF Operation
      <4> QED BY <3>1
    <3> QED BY <3>2, <3>3
  <2>2. Staged(h.pending, s) \in Held
    BY <1>1, StagedType
  <2>3. Staged(pending, a \o Append(s, x)) = Stage(Staged(pending, a \o s), x)
    BY <2>1, StagedAppend
  <2>4. Staged(h.pending, Append(s, x)) = Stage(Staged(h.pending, s), x)
    BY <1>1, StagedAppend
  <2>5. Stage(Then(h, Staged(h.pending, s)), x) = Then(h, Stage(Staged(h.pending, s), x))
    BY <1>1, <2>2, StageThen
  <2> QED BY <2>1, <2>3, <2>4, <2>5
<1> HIDE DEF T
<1>4. T = Seq(Operation)
  <2>1. T \in SUBSET Seq(Operation)
    BY DEF T
  <2> QED BY <1>2, <1>3, <2>1, SeqInduction
<1> QED BY <1>4 DEF T

-----------------------------------------------------------------------------
(* The translation of a journal, record by record and chunk by chunk.      *)

\* What the first c chunks of a record carry.
Chunked(p, c) == FlattenSeq(SubSeq(Output[p], 1, c))

\* What translations return.
LEMMA OutputType ==
  /\ MaxRecords \in Nat
  /\ \A p \in 1..MaxRecords : Output[p] \in Seq(Seq(Operation)) /\ Len(Output[p]) \in Nat \ {0}
<1> HIDE DEF Operation
<1> QED BY TranslationAssumption

\* The first chunks of a record, one more at a time.
LEMMA ChunkedFacts ==
  ASSUME NEW p \in 1..MaxRecords
  PROVE  /\ Chunked(p, 0) = <<>>
         /\ Chunked(p, Len(Output[p])) = FlattenSeq(Output[p])
         /\ \A c \in 0..Len(Output[p]) : Chunked(p, c) \in Seq(Operation)
         /\ \A c \in 1..Len(Output[p]) : Chunked(p, c) = Chunked(p, c - 1) \o Output[p][c]
<1> DEFINE output == Output[p]
<1>1. output \in Seq(Seq(Operation)) /\ Len(output) \in Nat
  BY OutputType
<1> HIDE DEF output
<1>2. SubSeq(output, 1, 0) = <<>> /\ SubSeq(output, 1, Len(output)) = output
  BY <1>1, SubSeqEmpty, SubSeqFull
<1>3. ASSUME NEW c \in 0..Len(output) PROVE SubSeq(output, 1, c) \in Seq(Seq(Operation))
  <2> HIDE DEF Operation
  <2> QED BY <1>1
<1>4. ASSUME NEW c \in 1..Len(output)
      PROVE  /\ SubSeq(output, 1, c) = Append(SubSeq(output, 1, c - 1), output[c])
             /\ output[c] \in Seq(Operation) /\ c - 1 \in 0..Len(output)
  <2> DEFINE s == SubSeq(output, 1, c)  t == Append(SubSeq(output, 1, c - 1), output[c])
  <2>1. output[c] \in Seq(Operation) /\ c - 1 \in 0..Len(output) /\ c \in 0..Len(output)
    BY <1>1
  <2>2. /\ SubSeq(output, 1, c - 1) \in Seq(Seq(Operation)) /\ Len(SubSeq(output, 1, c - 1)) = c - 1
        /\ \A k \in 1..c - 1 : SubSeq(output, 1, c - 1)[k] = output[k]
    BY <1>1, <2>1
  <2>3. /\ s \in Seq(Seq(Operation)) /\ Len(s) = c /\ \A k \in 1..c : s[k] = output[k]
    BY <1>1, <2>1
  <2>4. t \in Seq(Seq(Operation)) /\ Len(t) = c /\ \A k \in 1..c : t[k] = output[k]
    <3>1. c - 1 + 1 = c
      BY <1>1
    <3> QED BY <2>1, <2>2, <3>1
  <2> HIDE DEF s, t
  <2>5. s = t
    BY <2>3, <2>4, SeqEqual
  <2> QED BY <2>1, <2>5 DEF s, t
<1>5. \A c \in 0..Len(output) : Chunked(p, c) \in Seq(Operation)
  <2>1. <<>> \in Seq(Operation)
    OBVIOUS
  <2> QED BY <1>3, <2>1, FlattenAppend DEF Chunked, output
<1>6. ASSUME NEW c \in 1..Len(output) PROVE Chunked(p, c) = Chunked(p, c - 1) \o output[c]
  <2>1. SubSeq(output, 1, c - 1) \in Seq(Seq(Operation))
    BY <1>3, <1>4
  <2>2. FlattenSeq(SubSeq(output, 1, c)) = FlattenSeq(SubSeq(output, 1, c - 1)) \o output[c]
    BY <1>4, <2>1, FlattenAppend
  <2> QED BY <2>2 DEF Chunked, output
<1> QED BY <1>2, <1>5, <1>6, FlattenEmpty DEF Chunked, output

\* What the first records return, one more at a time.
LEMMA EmittedFacts ==
  ASSUME NEW journal
  PROVE  /\ Emitted(journal, 0) = <<>>
         /\ \A n \in 0..MaxRecords : Emitted(journal, n) \in Seq(Operation)
         /\ \A n \in 1..MaxRecords :
              Emitted(journal, n) = IF Translates(journal, n)
                                    THEN Emitted(journal, n - 1) \o FlattenSeq(Output[n])
                                    ELSE Emitted(journal, n - 1)
<1> DEFINE one(p) == IF Translates(journal, p) THEN FlattenSeq(Output[p]) ELSE <<>>
           parts(n) == [p \in 1..n |-> one(p)]
<1>1. \A n : Emitted(journal, n) = FlattenSeq(parts(n))
  BY DEF Emitted, Translates
<1>2. \A p \in 1..MaxRecords : one(p) \in Seq(Operation) /\ FlattenSeq(Output[p]) \in Seq(Operation)
  <2>1. <<>> \in Seq(Operation)
    OBVIOUS
  <2>2. \A p \in 1..MaxRecords : FlattenSeq(Output[p]) \in Seq(Operation)
    BY <2>1, OutputType, FlattenAppend
  <2> QED BY <2>1, <2>2
<1>3. ASSUME NEW n \in 0..MaxRecords
      PROVE  parts(n) \in Seq(Seq(Operation)) /\ Len(parts(n)) = n
  <2> HIDE DEF one, Operation
  <2>1. n \in Nat /\ \A p \in 1..n : one(p) \in Seq(Operation)
    BY <1>2, OutputType
  <2> QED BY <2>1
<1>4. parts(0) = <<>>
  OBVIOUS
<1>5. ASSUME NEW n \in 1..MaxRecords PROVE parts(n) = Append(parts(n - 1), one(n))
  <2>1. n - 1 \in 0..MaxRecords /\ n \in 0..MaxRecords /\ n - 1 + 1 = n /\ n - 1 \in Nat
    BY OutputType
  <2>2. /\ parts(n) \in Seq(Seq(Operation)) /\ Len(parts(n)) = n
        /\ parts(n - 1) \in Seq(Seq(Operation)) /\ Len(parts(n - 1)) = n - 1
        /\ one(n) \in Seq(Operation)
    BY <1>2, <1>3, <2>1
  <2>3. /\ \A k \in 1..n : parts(n)[k] = one(k)
        /\ \A k \in 1..n - 1 : parts(n - 1)[k] = one(k)
    OBVIOUS
  <2> HIDE DEF one, parts
  <2>4. /\ Append(parts(n - 1), one(n)) \in Seq(Seq(Operation))
        /\ Len(Append(parts(n - 1), one(n))) = n
        /\ \A k \in 1..n : Append(parts(n - 1), one(n))[k] = one(k)
    BY <2>1, <2>2, <2>3
  <2> QED BY <2>2, <2>3, <2>4, SeqEqual
<1> HIDE DEF parts
<1>6. \A n \in 0..MaxRecords : Emitted(journal, n) \in Seq(Operation)
  <2>1. <<>> \in Seq(Operation)
    OBVIOUS
  <2> QED BY <1>1, <1>3, <2>1, FlattenAppend
<1>7. ASSUME NEW n \in 1..MaxRecords
      PROVE  Emitted(journal, n) = Emitted(journal, n - 1) \o one(n)
  <2>1. n - 1 \in 0..MaxRecords
    BY OutputType
  <2>2. parts(n - 1) \in Seq(Seq(Operation)) /\ one(n) \in Seq(Operation)
    BY <1>2, <1>3, <2>1
  <2> HIDE DEF one
  <2>3. FlattenSeq(Append(parts(n - 1), one(n))) = FlattenSeq(parts(n - 1)) \o one(n)
    BY <2>2, FlattenAppend
  <2>4. parts(n) = Append(parts(n - 1), one(n))
    BY <1>5
  <2> QED BY <1>1, <2>3, <2>4
<1>8. ASSUME NEW n \in 1..MaxRecords PROVE Emitted(journal, n - 1) \o <<>> = Emitted(journal, n - 1)
  <2>1. n - 1 \in 0..MaxRecords
    BY OutputType
  <2>2. Emitted(journal, n - 1) \in Seq(Operation)
    BY <1>6, <2>1
  <2> QED BY <2>2, ConcatEmptySeq
<1> QED BY <1>1, <1>4, <1>6, <1>7, <1>8, FlattenEmpty

\* Only the journal up to n matters.
LEMMA EmittedSame ==
  ASSUME NEW journal, NEW longer, NEW n, \A p \in 1..n : journal[p] = longer[p]
  PROVE  Emitted(journal, n) = Emitted(longer, n)
<1> DEFINE parts(j) == [p \in 1..n |-> IF j[p] \in {"event"} \cup Controls
                                    THEN FlattenSeq(Output[p]) ELSE <<>>]
<1>1. parts(journal) = parts(longer)
  OBVIOUS
<1>2. Emitted(journal, n) = FlattenSeq(parts(journal)) /\ Emitted(longer, n) = FlattenSeq(parts(longer))
  BY DEF Emitted, Translates
<1> HIDE DEF parts
<1> QED BY <1>1, <1>2

\* Records that are not translated add nothing.
LEMMA EmittedSkip ==
  ASSUME NEW journal, NEW m \in 0..MaxRecords, NEW n \in m..MaxRecords,
         \A p \in m + 1..n : ~Translates(journal, p)
  PROVE  Emitted(journal, n) = Emitted(journal, m)
<1> DEFINE T == {k \in Nat : m + k <= n => Emitted(journal, m + k) = Emitted(journal, m)}
<1>1. m \in Nat /\ n \in Nat /\ n - m \in Nat /\ m + (n - m) = n
  BY OutputType
<1>2. T \in SUBSET Nat /\ 0 \in T
  BY <1>1
<1>3. ASSUME NEW k \in T PROVE k + 1 \in T
  <2>1. k \in Nat /\ (m + k <= n => Emitted(journal, m + k) = Emitted(journal, m))
    OBVIOUS
  <2>2. CASE m + (k + 1) <= n
    <3>1. /\ m + (k + 1) \in 1..MaxRecords /\ m + (k + 1) \in m + 1..n
          /\ (m + (k + 1)) - 1 = m + k /\ m + k <= n
      BY <1>1, <2>1, <2>2, OutputType
    <3>2. Emitted(journal, m + (k + 1)) = Emitted(journal, m + k)
      BY <3>1, EmittedFacts
    <3> QED BY <2>1, <3>1, <3>2
  <2> QED BY <2>1, <2>2
<1>4. T = Nat
  <2> HIDE DEF T
  <2> QED BY <1>2, <1>3, Induction
<1>5. n - m \in T
  <2> HIDE DEF T
  <2> QED BY <1>1, <1>4
<1> QED BY <1>1, <1>5

\* What the records up to m and c chunks of record p come to.
Chunk(journal, m, p, c) == Staged(NoRoots, Emitted(journal, m) \o Chunked(p, c))

\* s is the beginning of t.
Begins(s, t) == Len(s) <= Len(t) /\ \A k \in 1..Len(s) : s[k] = t[k]

\* A sequence begins what continues it.
LEMMA BeginsConcat ==
  ASSUME NEW s \in Seq(Operation), NEW t \in Seq(Operation)
  PROVE  Begins(s, s \o t) /\ Begins(s, s)
BY DEF Begins

\* A beginning of a beginning is a beginning.
LEMMA BeginsTransitive ==
  ASSUME NEW r \in Seq(Operation), NEW s \in Seq(Operation), NEW t \in Seq(Operation),
         Begins(r, s), Begins(s, t)
  PROVE  Begins(r, t)
BY DEF Begins

\* At first no root is held back.
LEMMA NoRootsType == NoRoots \in [Spans -> Seq(Operation)]
<1>1. <<>> \in Seq(Operation)
  OBVIOUS
<1> QED BY <1>1 DEF NoRoots

\* One more chunk is staged.
LEMMA ChunkNext ==
  ASSUME NEW journal, NEW m \in 0..MaxRecords, NEW p \in 1..MaxRecords,
         NEW c \in 1..Len(Output[p])
  PROVE  /\ Output[p][c] \in Seq(Operation)
         /\ Chunk(journal, m, p, c - 1) \in Held
         /\ Chunk(journal, m, p, c) =
              Then(Chunk(journal, m, p, c - 1),
                   Staged(Chunk(journal, m, p, c - 1).pending, Output[p][c]))
<1> DEFINE e == Emitted(journal, m)  a == Chunked(p, c - 1)  b == Output[p][c]
<1>1. Len(Output[p]) \in Nat /\ c - 1 \in 0..Len(Output[p]) /\ Output[p] \in Seq(Seq(Operation))
  BY OutputType
<1>2. e \in Seq(Operation) /\ a \in Seq(Operation)
  BY <1>1, ChunkedFacts, EmittedFacts
<1>3. b \in Seq(Operation)
  <2> HIDE DEF Operation
  <2> QED BY <1>1
<1>4. Chunked(p, c) = a \o b
  BY ChunkedFacts
<1> HIDE DEF e, a, b
<1>5. e \o (a \o b) = (e \o a) \o b /\ e \o a \in Seq(Operation)
  <2>1. <<>> \in Seq(Operation)
    OBVIOUS
  <2> HIDE DEF Operation
  <2> QED BY <1>2, <1>3
<1>6. Staged(NoRoots, e \o (a \o b)) =
        Then(Staged(NoRoots, e \o a), Staged(Staged(NoRoots, e \o a).pending, b))
  BY <1>3, <1>5, NoRootsType, StagedThen
<1>7. Staged(NoRoots, e \o a) \in Held
  BY <1>5, NoRootsType, StagedType
<1> QED BY <1>3, <1>4, <1>6, <1>7 DEF Chunk, e, a, b

\* What chunks come to are operations and roots.
LEMMA ChunkType ==
  ASSUME NEW journal, NEW m \in 0..MaxRecords, NEW p \in 1..MaxRecords,
         NEW c \in 0..Len(Output[p])
  PROVE  Chunk(journal, m, p, c) \in Held
<1>1. Emitted(journal, m) \in Seq(Operation) /\ Chunked(p, c) \in Seq(Operation)
  BY ChunkedFacts, EmittedFacts
<1>2. Emitted(journal, m) \o Chunked(p, c) \in Seq(Operation)
  <2> HIDE DEF Operation
  <2> QED BY <1>1
<1> QED BY <1>2, NoRootsType, StagedType DEF Chunk

\* Chunk by chunk, what is ready grows.
LEMMA ChunkGrows ==
  ASSUME NEW journal, NEW m \in 0..MaxRecords, NEW p \in 1..MaxRecords,
         NEW c \in 0..Len(Output[p]), NEW d \in c..Len(Output[p])
  PROVE  Begins(Chunk(journal, m, p, c).ready, Chunk(journal, m, p, d).ready)
<1> DEFINE r(k) == Chunk(journal, m, p, k).ready
           T == {k \in Nat : c + k <= d => Begins(r(c), r(c + k))}
<1>1. /\ c \in Nat /\ d \in Nat /\ d - c \in Nat /\ c + (d - c) = d
      /\ Len(Output[p]) \in Nat /\ d <= Len(Output[p])
  BY OutputType
<1>2. \A k \in 0..Len(Output[p]) : r(k) \in Seq(Operation)
  BY ChunkType DEF Held
<1>3. T \in SUBSET Nat /\ 0 \in T
  <2>1. Begins(r(c), r(c)) /\ c + 0 = c
    BY <1>1 DEF Begins
  <2> HIDE DEF r
  <2> QED BY <2>1
<1>4. ASSUME NEW k \in T PROVE k + 1 \in T
  <2>1. k \in Nat /\ (c + k <= d => Begins(r(c), r(c + k)))
    OBVIOUS
  <2>2. CASE c + (k + 1) <= d
    <3>1. /\ c + (k + 1) \in 1..Len(Output[p]) /\ c + k \in 0..Len(Output[p])
          /\ (c + (k + 1)) - 1 = c + k /\ c + k <= d
      BY <1>1, <2>1, <2>2
    <3> DEFINE next == Staged(Chunk(journal, m, p, c + k).pending, Output[p][c + (k + 1)])
    <3>2. /\ r(c + (k + 1)) = r(c + k) \o next.ready
          /\ Chunk(journal, m, p, c + k) \in Held /\ Output[p][c + (k + 1)] \in Seq(Operation)
      <4> DEFINE n == c + (k + 1)
      <4> HIDE DEF n
      <4>1. n \in 1..Len(Output[p]) /\ n - 1 = c + k
        BY <3>1 DEF n
      <4>2. /\ Output[p][n] \in Seq(Operation)
            /\ Chunk(journal, m, p, n - 1) \in Held
            /\ Chunk(journal, m, p, n) =
                 Then(Chunk(journal, m, p, n - 1),
                      Staged(Chunk(journal, m, p, n - 1).pending, Output[p][n]))
        BY <4>1, ChunkNext
      <4>3. /\ Output[p][n] \in Seq(Operation)
            /\ Chunk(journal, m, p, c + k) \in Held
            /\ Chunk(journal, m, p, n) =
                 Then(Chunk(journal, m, p, c + k),
                      Staged(Chunk(journal, m, p, c + k).pending, Output[p][n]))
        BY <4>1, <4>2
      <4>4. r(n) = r(c + k) \o Staged(Chunk(journal, m, p, c + k).pending, Output[p][n]).ready
        <5> DEFINE h == Chunk(journal, m, p, c + k)
        <5>1. Then(h, Staged(h.pending, Output[p][n])).ready =
                h.ready \o Staged(h.pending, Output[p][n]).ready
          BY ThenFields
        <5> QED BY <4>3, <5>1
      <4> QED BY <4>3, <4>4 DEF n
    <3>3. next \in Held
      BY <3>2, StagedType DEF Held
    <3>4. next.ready \in Seq(Operation) /\ r(c + k) \in Seq(Operation) /\ r(c) \in Seq(Operation)
      BY <1>2, <3>1, <3>3 DEF Held
    <3> HIDE DEF r, next
    <3>5. Begins(r(c + k), r(c + k) \o next.ready)
      BY <3>4, BeginsConcat
    <3>6. Begins(r(c), r(c + k))
      BY <2>1, <3>1
    <3>7. Begins(r(c), r(c + (k + 1)))
      <4>1. r(c + k) \o next.ready \in Seq(Operation)
        <5> HIDE DEF Operation
        <5> QED BY <3>4
      <4> QED BY <3>2, <3>4, <3>5, <3>6, <4>1, BeginsTransitive
    <3> QED BY <2>1, <3>7
  <2> QED BY <2>1, <2>2
<1>5. T = Nat
  <2> HIDE DEF T
  <2> QED BY <1>3, <1>4, Induction
<1>6. d - c \in T
  <2> HIDE DEF T
  <2> QED BY <1>1, <1>5
<1> QED BY <1>1, <1>6

\* The chunks of the next record lead from one reference to the next.
LEMMA ChunkEnds ==
  ASSUME NEW journal, NEW m \in 0..MaxRecords, NEW p \in m + 1..MaxRecords,
         Translates(journal, p), \A q \in m + 1..p - 1 : ~Translates(journal, q)
  PROVE  /\ Chunk(journal, m, p, 0) = Staged(NoRoots, Emitted(journal, m))
         /\ Chunk(journal, m, p, Len(Output[p])) = Staged(NoRoots, Emitted(journal, p))
<1>1. p \in 1..MaxRecords /\ p - 1 \in m..MaxRecords
  BY OutputType
<1>2. Emitted(journal, p - 1) = Emitted(journal, m)
  BY <1>1, EmittedSkip
<1>3. Emitted(journal, p) = Emitted(journal, m) \o FlattenSeq(Output[p])
  BY <1>1, <1>2, EmittedFacts
<1>4. Emitted(journal, m) \o <<>> = Emitted(journal, m)
  <2>1. Emitted(journal, m) \in Seq(Operation)
    BY EmittedFacts
  <2> QED BY <2>1, ConcatEmptySeq
<1> QED BY <1>1, <1>3, <1>4, ChunkedFacts DEF Chunk

-----------------------------------------------------------------------------
(* What was emitted for a held root comes before its children.             *)

RootsFirst(s) ==
  \A j, k \in 1..Len(s) :
    j < k /\ s[k].span \in ToSet(s[j].parents) => s[k].id > s[j].id

\* h holds operations of E; what it holds back for a span comes after what
\* has that span for a parent.
HeldInv(h, E) ==
  /\ \A k \in 1..Len(h.ready) : h.ready[k] \in E
  /\ \A x \in Spans : \A o \in Elements(h.pending[x]) :
       /\ o \in E /\ o.span = x /\ x \in MayBeHeld
       /\ \A j \in 1..Len(h.ready) :
            x \in ToSet(h.ready[j].parents) => h.ready[j].id < o.id
  /\ RootsFirst(h.ready)

\* Two parts in order, with nothing out of order between them, are in order.
LEMMA RootsFirstConcat ==
  ASSUME NEW r \in Seq(Operation), NEW t \in Seq(Operation), RootsFirst(r), RootsFirst(t),
         \A j \in 1..Len(r), k \in 1..Len(t) :
           t[k].span \in ToSet(r[j].parents) => t[k].id > r[j].id
  PROVE  RootsFirst(r \o t)
<1> SUFFICES ASSUME NEW j \in 1..Len(r \o t), NEW k \in 1..Len(r \o t), j < k,
                    (r \o t)[k].span \in ToSet((r \o t)[j].parents)
             PROVE  (r \o t)[k].id > (r \o t)[j].id
  BY DEF RootsFirst
<1> HIDE DEF Operation
<1>1. Len(r) \in Nat /\ Len(t) \in Nat /\ Len(r \o t) = Len(r) + Len(t)
  OBVIOUS
<1>2. CASE k <= Len(r)
  <2>1. j \in 1..Len(r) /\ k \in 1..Len(r) /\ (r \o t)[k] = r[k] /\ (r \o t)[j] = r[j]
    BY <1>1, <1>2
  <2> QED BY <2>1 DEF RootsFirst
<1>3. CASE j > Len(r)
  <2>1. /\ j - Len(r) \in 1..Len(t) /\ k - Len(r) \in 1..Len(t) /\ j - Len(r) < k - Len(r)
        /\ (r \o t)[k] = t[k - Len(r)] /\ (r \o t)[j] = t[j - Len(r)]
    BY <1>1, <1>3
  <2> QED BY <2>1 DEF RootsFirst
<1>4. CASE j <= Len(r) /\ k > Len(r)
  <2>1. /\ j \in 1..Len(r) /\ k - Len(r) \in 1..Len(t)
        /\ (r \o t)[k] = t[k - Len(r)] /\ (r \o t)[j] = r[j]
    BY <1>1, <1>4
  <2> QED BY <2>1
<1> QED BY <1>1, <1>2, <1>3, <1>4

\* What a translator returns are operations.
LEMMA ReturnedFacts ==
  \A op \in Returned :
    /\ op \in Operation /\ op.id \in Nat /\ op.span \in Spans /\ op.parents \in Seq(Spans)
    /\ op.insert /\ op.defer => op.span \in MayBeHeld
    /\ op.span \in MayBeHeld => \A x \in MayBeHeld : x \notin ToSet(op.parents)
<1> SUFFICES ASSUME NEW op \in Returned
             PROVE  /\ op \in Operation
                    /\ op.insert /\ op.defer => op.span \in MayBeHeld
                    /\ op.span \in MayBeHeld => \A x \in MayBeHeld : x \notin ToSet(op.parents)
  BY DEF Operation
<1>1. op \in Operation
  <2> HIDE DEF Operation
  <2>1. PICK p \in 1..MaxRecords : \E chunk \in ToSet(Output[p]) : op \in ToSet(chunk)
    BY DEF Returned
  <2>2. PICK chunk \in ToSet(Output[p]) : op \in ToSet(chunk)
    BY <2>1
  <2>3. Output[p] \in Seq(Seq(Operation))
    BY OutputType
  <2>4. chunk \in Seq(Operation)
    BY <2>2, <2>3 DEF ToSet
  <2> QED BY <2>2, <2>4 DEF ToSet
<1>2. op.insert /\ op.defer => op.span \in MayBeHeld
  BY DEF MayBeHeld
<1>3. op.span \in MayBeHeld => ToSet(op.parents) \cap MayBeHeld = {}
  BY OutputAssumption
<1> QED BY <1>1, <1>2, <1>3

\* Staging keeps the order of roots and children.
LEMMA StageKeeps ==
  ASSUME NEW h \in Held, NEW E \in SUBSET Returned, NEW op \in Returned,
         HeldInv(h, E), \A e \in E : e.id < op.id
  PROVE  HeldInv(Stage(h, op), E \cup {op})
<1> DEFINE freed == Freed(h.pending, op.parents)
           without == Without(h.pending, op.parents)
<1>1. /\ h.ready \in Seq(Operation) /\ h.pending \in [Spans -> Seq(Operation)]
      /\ op \in Operation /\ op.id \in Nat /\ op.span \in Spans /\ op.parents \in Seq(Spans)
  BY ReturnedFacts DEF Held
<1>2. /\ freed \in Seq(Operation)
      /\ \A k \in 1..Len(freed) : \E x \in Spans : freed[k] \in Elements(h.pending[x])
  <2>1. freed \in Seq(Operation) /\ \A k \in DOMAIN freed : \E x \in ToSet(op.parents) :
          freed[k] \in Elements(h.pending[x])
    BY <1>1, FreedFacts
  <2>2. ToSet(op.parents) \subseteq Spans
    BY <1>1 DEF ToSet
  <2>3. DOMAIN freed = 1..Len(freed)
    BY <2>1
  <2> QED BY <2>1, <2>2, <2>3
<1>3. \A x \in Spans : without[x] = IF x \in ToSet(op.parents) THEN <<>> ELSE h.pending[x]
  BY DEF Without
<1> HIDE DEF freed, without
<1>4. \A k \in 1..Len(freed) :
        /\ freed[k] \in E /\ freed[k].span \in MayBeHeld
        /\ \A j \in 1..Len(h.ready) : freed[k].span \in ToSet(h.ready[j].parents)
             => h.ready[j].id < freed[k].id
        /\ \A x \in MayBeHeld : x \notin ToSet(freed[k].parents)
  BY <1>2, ReturnedFacts DEF HeldInv
<1> DEFINE ready == h.ready \o freed
<1>5. ready \in Seq(Operation) /\ \A k \in 1..Len(ready) :
        \/ \E j \in 1..Len(h.ready) : ready[k] = h.ready[j]
        \/ \E j \in 1..Len(freed) : ready[k] = freed[j]
  <2> HIDE DEF Operation
  <2>1. /\ ready \in Seq(Operation) /\ Len(ready) = Len(h.ready) + Len(freed)
        /\ Len(h.ready) \in Nat /\ Len(freed) \in Nat
    BY <1>1, <1>2
  <2>2. ASSUME NEW k \in 1..Len(ready)
        PROVE  \/ \E j \in 1..Len(h.ready) : ready[k] = h.ready[j]
               \/ \E j \in 1..Len(freed) : ready[k] = freed[j]
    <3>1. CASE k <= Len(h.ready)
      <4>1. k \in 1..Len(h.ready) /\ ready[k] = h.ready[k]
        BY <1>1, <1>2, <2>1, <3>1
      <4> QED BY <4>1
    <3>2. CASE k > Len(h.ready)
      <4>1. k - Len(h.ready) \in 1..Len(freed) /\ ready[k] = freed[k - Len(h.ready)]
        BY <1>1, <1>2, <2>1, <3>2
      <4> QED BY <4>1
    <3> QED BY <2>1, <3>1, <3>2
  <2> QED BY <2>1, <2>2
<1>6. RootsFirst(ready)
  <2>1. RootsFirst(freed)
    BY <1>4 DEF RootsFirst
  <2>2. RootsFirst(h.ready)
    BY DEF HeldInv
  <2>3. ASSUME NEW j \in 1..Len(h.ready), NEW k \in 1..Len(freed),
               freed[k].span \in ToSet(h.ready[j].parents)
        PROVE  freed[k].id > h.ready[j].id
    <3>1. h.ready[j].id < freed[k].id
      BY <1>4, <2>3
    <3>2. h.ready[j].id \in Nat /\ freed[k].id \in Nat
      BY <1>4, ReturnedFacts DEF HeldInv
    <3> QED BY <3>1, <3>2
  <2> QED BY <1>1, <1>2, <2>1, <2>2, <2>3, RootsFirstConcat
<1> HIDE DEF ready
<1>7. \A k \in 1..Len(ready) : ready[k] \in E
  BY <1>4, <1>5 DEF HeldInv
<1>8. \A x \in Spans : \A o \in Elements(h.pending[x]) :
        /\ o \in E /\ o.span = x /\ x \in MayBeHeld
        /\ \A j \in 1..Len(ready) : x \in ToSet(ready[j].parents) => ready[j].id < o.id
  <2> TAKE x \in Spans
  <2> TAKE o \in Elements(h.pending[x])
  <2>1. /\ o \in E /\ o.span = x /\ x \in MayBeHeld
        /\ \A j \in 1..Len(h.ready) : x \in ToSet(h.ready[j].parents) => h.ready[j].id < o.id
    BY DEF HeldInv
  <2>2. \A j \in 1..Len(freed) : x \notin ToSet(freed[j].parents)
    BY <1>4, <2>1
  <2> QED BY <1>5, <2>1, <2>2
<1>9. \A x \in Spans : \A o \in Elements(without[x]) :
         o \in Elements(h.pending[x]) /\ x \notin ToSet(op.parents)
  BY <1>3 DEF Elements
<1>10. CASE h.pending[op.span] # <<>>
  <2> DEFINE k == Stage(h, op)
  <2>1. k = [h EXCEPT !.pending[op.span] = Append(@, op)]
    BY <1>10 DEF Stage
  <2>2. k.ready = h.ready /\ k.pending = [h.pending EXCEPT ![op.span] = Append(@, op)]
    BY <2>1 DEF Held
  <2>3. \A x \in Spans : \A o \in Elements(k.pending[x]) :
          o \in Elements(h.pending[x]) \/ (o = op /\ x = op.span)
    BY <1>1, <2>2 DEF Elements
  <2>4. op.span \in MayBeHeld
    <3>1. h.pending[op.span][1] \in Elements(h.pending[op.span])
      BY <1>1, <1>10 DEF Elements
    <3> QED BY <1>1, <3>1 DEF HeldInv
  <2> HIDE DEF k
  <2> QED BY <2>2, <2>3, <2>4 DEF HeldInv, k
<1>11. CASE h.pending[op.span] = <<>> /\ op.insert /\ op.defer
  <2> DEFINE k == Stage(h, op)
  <2>1. k.ready = ready /\ k.pending = [without EXCEPT ![op.span] = <<op>>]
    BY <1>11 DEF Stage, ready, freed, without
  <2>2. \A x \in Spans : \A o \in Elements(k.pending[x]) :
          o \in Elements(h.pending[x]) \/ (o = op /\ x = op.span)
    <3>1. \A x \in Spans : k.pending[x] = IF x = op.span THEN <<op>> ELSE without[x]
      BY <1>1, <2>1 DEF Without, without
    <3> HIDE DEF k
    <3>2. ASSUME NEW x \in Spans, NEW o \in Elements(k.pending[x])
          PROVE  o \in Elements(h.pending[x]) \/ (o = op /\ x = op.span)
      <4>1. CASE x = op.span
        BY <3>1, <4>1 DEF Elements
      <4>2. CASE x # op.span
        <5>1. o \in Elements(without[x])
          BY <3>1, <4>2
        <5> QED BY <1>9, <5>1
      <4> QED BY <4>1, <4>2
    <3> QED BY <3>2
  <2>3. op.span \in MayBeHeld
    BY <1>11, ReturnedFacts
  <2> HIDE DEF k
  <2> QED BY <1>6, <1>7, <1>8, <2>1, <2>2, <2>3 DEF HeldInv, k
<1>12. CASE h.pending[op.span] = <<>> /\ ~(op.insert /\ op.defer)
  <2> DEFINE k == Stage(h, op)
  <2>1. k.ready = Append(ready, op) /\ k.pending = without
    BY <1>12 DEF Stage, ready, freed, without
  <2>2. /\ Append(ready, op) = ready \o <<op>> /\ <<op>> \in Seq(Operation)
        /\ Len(<<op>>) = 1 /\ <<op>>[1] = op
    <3> HIDE DEF Operation
    <3> QED BY <1>1, <1>5, AppendIsConcat
  <2>3. RootsFirst(k.ready)
    <3>1. RootsFirst(<<op>>)
      BY DEF RootsFirst
    <3>2. \A j \in 1..Len(ready) : op.id > ready[j].id
      BY <1>1, <1>7, ReturnedFacts
    <3>3. \A i \in 1..Len(ready), j \in 1..Len(<<op>>) : <<op>>[j].id > ready[i].id
      BY <2>2, <3>2
    <3>4. RootsFirst(ready \o <<op>>)
      <4> HIDE DEF k
      <4> QED BY <1>5, <1>6, <2>2, <3>1, <3>3, RootsFirstConcat
    <3> HIDE DEF k
    <3> QED BY <2>1, <2>2, <3>4
  <2>4. /\ Len(k.ready) = Len(ready) + 1 /\ Len(ready) \in Nat
        /\ \A j \in 1..Len(k.ready) : k.ready[j] = op \/ (j \in 1..Len(ready) /\ k.ready[j] = ready[j])
    <3> HIDE DEF Operation
    <3> QED BY <1>1, <1>5, <2>1
  <2> HIDE DEF k
  <2> QED BY <1>7, <1>8, <1>9, <2>1, <2>3, <2>4 DEF HeldInv, k
<1> QED BY <1>10, <1>11, <1>12

\* Operations that are returned, in the order of their numbers.
Rising(s) == \A j, k \in 1..Len(s) : j < k => s[j].id < s[k].id

\* The operations that are returned up to chunk c of record p.
Emissions(p, c) ==
  {op \in Returned :
     \E q \in 1..MaxRecords : \E d \in 1..Len(Output[q]) : \E i \in 1..Len(Output[q][d]) :
       op = Output[q][d][i] /\ (q < p \/ (q = p /\ d <= c))}

Numbered(s, p, c) ==
  s \in Seq(Operation) /\ Rising(s) /\ \A k \in 1..Len(s) : s[k] \in Emissions(p, c)

\* The operations of a chunk are among those returned.
LEMMA OutputReturned ==
  ASSUME NEW p \in 1..MaxRecords, NEW c \in 1..Len(Output[p]), NEW k \in 1..Len(Output[p][c])
  PROVE  /\ Output[p][c][k] \in Returned
         /\ c \in DOMAIN Output[p] /\ k \in DOMAIN Output[p][c]
<1> HIDE DEF Operation
<1>1. Output[p] \in Seq(Seq(Operation))
  BY OutputType
<1>2. Output[p][c] \in Seq(Operation) /\ c \in DOMAIN Output[p] /\ Output[p][c] \in ToSet(Output[p])
  BY <1>1 DEF ToSet
<1>3. k \in DOMAIN Output[p][c] /\ Output[p][c][k] \in ToSet(Output[p][c])
  BY <1>2 DEF ToSet
<1> QED BY <1>2, <1>3 DEF Returned

\* More records return more operations.
LEMMA EmissionsGrow ==
  ASSUME NEW p \in Int, NEW q \in Int, NEW c \in Int, NEW d \in Int,
         p < q \/ (p = q /\ c <= d)
  PROVE  Emissions(p, c) \subseteq Emissions(q, d)
<1> SUFFICES ASSUME NEW op \in Emissions(p, c) PROVE op \in Emissions(q, d)
  OBVIOUS
<1>1. PICK r \in 1..MaxRecords : \E e \in 1..Len(Output[r]) :
        \E i \in 1..Len(Output[r][e]) :
          op = Output[r][e][i] /\ (r < p \/ (r = p /\ e <= c))
  BY DEF Emissions
<1>2. PICK e \in 1..Len(Output[r]) : \E i \in 1..Len(Output[r][e]) :
        op = Output[r][e][i] /\ (r < p \/ (r = p /\ e <= c))
  BY <1>1
<1>3. r \in Int /\ e \in Int
  BY OutputType
<1>4. r < q \/ (r = q /\ e <= d)
  BY <1>2, <1>3
<1> QED BY <1>2, <1>4 DEF Emissions

\* The next chunk goes on with higher numbers.
LEMMA NumberedNext ==
  ASSUME NEW p \in 1..MaxRecords, NEW c \in 1..Len(Output[p]), NEW s, Numbered(s, p, c - 1)
  PROVE  Numbered(s \o Output[p][c], p, c)
<1> DEFINE t == Output[p][c]
<1>1. /\ Output[p] \in Seq(Seq(Operation)) /\ Len(Output[p]) \in Nat /\ c \in Nat /\ p \in Nat
  BY OutputType
<1>2. t \in Seq(Operation) /\ s \in Seq(Operation)
  <2> HIDE DEF Operation
  <2> QED BY <1>1 DEF Numbered
<1>3. \A k \in 1..Len(t) : t[k] \in Emissions(p, c)
  <2> SUFFICES ASSUME NEW k \in 1..Len(t) PROVE t[k] \in Emissions(p, c)
    OBVIOUS
  <2>1. t[k] \in Returned
    BY OutputReturned
  <2>2. c <= c
    BY <1>1
  <2> QED BY <2>1, <2>2 DEF Emissions
<1>4. Emissions(p, c - 1) \subseteq Emissions(p, c)
  BY <1>1, EmissionsGrow
<1>5. \A j, k \in 1..Len(t) : j < k => t[j].id < t[k].id
  <2>1. DOMAIN t = 1..Len(t) /\ c \in DOMAIN Output[p]
    BY <1>1, <1>2
  <2> QED BY <2>1, OutputAssumption
<1>6. ASSUME NEW j \in 1..Len(s), NEW k \in 1..Len(t) PROVE s[j].id < t[k].id
  <2>1. s[j] \in Emissions(p, c - 1)
    BY DEF Numbered
  <2>2a. PICK q \in 1..MaxRecords : \E d \in 1..Len(Output[q]) :
           \E i \in 1..Len(Output[q][d]) :
             s[j] = Output[q][d][i] /\ (q < p \/ (q = p /\ d <= c - 1))
    BY <2>1 DEF Emissions
  <2>2b. PICK d \in 1..Len(Output[q]) : \E i \in 1..Len(Output[q][d]) :
           s[j] = Output[q][d][i] /\ (q < p \/ (q = p /\ d <= c - 1))
    BY <2>2a
  <2>2. PICK i \in 1..Len(Output[q][d]) :
          s[j] = Output[q][d][i] /\ (q < p \/ (q = p /\ d <= c - 1))
    BY <2>2b
  <2>3. /\ d \in DOMAIN Output[q] /\ i \in DOMAIN Output[q][d]
        /\ c \in DOMAIN Output[p] /\ k \in DOMAIN Output[p][c]
    BY OutputReturned
  <2>4. q < p \/ (q = p /\ d < c)
    BY <1>1, <2>2, OutputType
  <2> QED BY <2>2, <2>3, <2>4, OutputAssumption
<1> HIDE DEF t
<1>7. Len(s) \in Nat /\ Len(t) \in Nat /\ Len(s \o t) = Len(s) + Len(t) /\ s \o t \in Seq(Operation)
  <2> HIDE DEF Operation
  <2> QED BY <1>2
<1>8. \A k \in 1..Len(s \o t) :
        \/ k \in 1..Len(s) /\ (s \o t)[k] = s[k]
        \/ k > Len(s) /\ k - Len(s) \in 1..Len(t) /\ (s \o t)[k] = t[k - Len(s)]
  <2> HIDE DEF Operation
  <2> QED BY <1>2, <1>7
<1> DEFINE st == s \o t
<1> HIDE DEF st
<1>9. ASSUME NEW j \in 1..Len(st), NEW k \in 1..Len(st), j < k PROVE st[j].id < st[k].id
  <2>1. CASE k \in 1..Len(s)
    <3>1. j \in 1..Len(s) /\ st[j] = s[j] /\ st[k] = s[k]
      BY <1>7, <1>8, <1>9, <2>1 DEF st
    <3> QED BY <1>9, <2>1, <3>1 DEF Numbered, Rising
  <2>2. CASE j > Len(s)
    <3>1. /\ j - Len(s) \in 1..Len(t) /\ k - Len(s) \in 1..Len(t) /\ j - Len(s) < k - Len(s)
          /\ st[j] = t[j - Len(s)] /\ st[k] = t[k - Len(s)]
      BY <1>7, <1>8, <1>9, <2>2 DEF st
    <3> QED BY <1>5, <3>1 DEF t
  <2>3. CASE j \in 1..Len(s) /\ k > Len(s)
    <3>1. st[j] = s[j] /\ k - Len(s) \in 1..Len(t) /\ st[k] = t[k - Len(s)]
      BY <1>7, <1>8, <2>3 DEF st
    <3> QED BY <1>6, <2>3, <3>1
  <2> QED BY <1>7, <2>1, <2>2, <2>3 DEF st
<1>10. \A k \in 1..Len(st) : st[k] \in Emissions(p, c)
  BY <1>3, <1>4, <1>8 DEF st, Numbered
<1> QED BY <1>7, <1>9, <1>10 DEF st, t, Numbered, Rising

\* Operations rise in the order in which they are returned.
LEMMA EmittedNumbered ==
  ASSUME NEW journal, NEW n \in 0..MaxRecords
  PROVE  Numbered(Emitted(journal, n), n + 1, 0)
<1> DEFINE T == {k \in Nat : k <= MaxRecords => Numbered(Emitted(journal, k), k + 1, 0)}
<1>1. T \in SUBSET Nat /\ 0 \in T
  <2>1. <<>> \in Seq(Operation) /\ Len(<<>>) = 0
    OBVIOUS
  <2>2. Numbered(<<>>, 0 + 1, 0)
    BY <2>1 DEF Numbered, Rising
  <2> QED BY <2>2, EmittedFacts
<1>2. ASSUME NEW k \in T, k + 1 <= MaxRecords PROVE Numbered(Emitted(journal, k + 1), k + 2, 0)
  <2> DEFINE p == k + 1  e == Emitted(journal, k)
  <2>1. /\ k \in Nat /\ p \in 1..MaxRecords /\ p - 1 = k /\ k <= MaxRecords /\ k \in 0..MaxRecords
        /\ p + 1 = k + 2 /\ p \in Int /\ p + 1 \in Int
    <3>1. k \in Nat
      OBVIOUS
    <3> QED BY <1>2, <3>1, OutputType
  <2>2. Numbered(e, p, 0)
    BY <2>1
  <2>3. e \in Seq(Operation)
    BY <2>1, EmittedFacts
  <2> HIDE DEF p, T
  <2> DEFINE C == {c \in Nat : c <= Len(Output[p]) => Numbered(e \o Chunked(p, c), p, c)}
  <2>4. C \in SUBSET Nat /\ 0 \in C
    <3>1. e \o <<>> = e
      BY <2>3, ConcatEmptySeq
    <3> QED BY <2>1, <2>2, <3>1, ChunkedFacts
  <2>5. ASSUME NEW c \in C PROVE c + 1 \in C
    <3>1. c \in Nat /\ (c <= Len(Output[p]) => Numbered(e \o Chunked(p, c), p, c))
      OBVIOUS
    <3>2. CASE c + 1 <= Len(Output[p])
      <4>1. /\ c + 1 \in 1..Len(Output[p]) /\ (c + 1) - 1 = c /\ c \in 0..Len(Output[p])
            /\ c <= Len(Output[p]) /\ Output[p] \in Seq(Seq(Operation))
        BY <2>1, <3>1, <3>2, OutputType
      <4>2. Numbered((e \o Chunked(p, c)) \o Output[p][c + 1], p, c + 1)
        BY <2>1, <3>1, <4>1, NumberedNext
      <4>3. Chunked(p, c + 1) = Chunked(p, c) \o Output[p][c + 1] /\ Chunked(p, c) \in Seq(Operation)
        BY <2>1, <4>1, ChunkedFacts
      <4>4. Output[p][c + 1] \in Seq(Operation)
        <5> HIDE DEF Operation
        <5> QED BY <4>1
      <4>5. (e \o Chunked(p, c)) \o Output[p][c + 1] = e \o (Chunked(p, c) \o Output[p][c + 1])
        <5> HIDE DEF e
        <5> QED BY <2>3, <4>3, <4>4, Associative
      <4>6. Numbered(e \o Chunked(p, c + 1), p, c + 1)
        BY <4>2, <4>3, <4>5
      <4> HIDE DEF e
      <4> QED BY <3>1, <4>6
    <3> QED BY <3>1, <3>2
  <2>6. C = Nat
    <3> HIDE DEF C
    <3> QED BY <2>4, <2>5, Induction
  <2>7. Numbered(e \o FlattenSeq(Output[p]), p, Len(Output[p]))
    <3>1. Len(Output[p]) \in Nat /\ Len(Output[p]) <= Len(Output[p])
      BY <2>1, OutputType
    <3>2. Len(Output[p]) \in C
      <4> HIDE DEF C
      <4> QED BY <2>6, <3>1
    <3> QED BY <2>1, <3>1, <3>2, ChunkedFacts
  <2>8. Emissions(p, Len(Output[p])) \subseteq Emissions(p + 1, 0) /\ Emissions(p, 0) \subseteq Emissions(p + 1, 0)
    <3>1. Len(Output[p]) \in Int
      BY <2>1, OutputType
    <3> QED BY <2>1, <3>1, EmissionsGrow
  <2>9. Numbered(e \o FlattenSeq(Output[p]), p + 1, 0) /\ Numbered(e, p + 1, 0)
    BY <2>2, <2>7, <2>8 DEF Numbered
  <2>10. Emitted(journal, p) = e \o FlattenSeq(Output[p]) \/ Emitted(journal, p) = e
    BY <2>1, EmittedFacts
  <2>11. Numbered(Emitted(journal, p), p + 1, 0)
    BY <2>9, <2>10
  <2> QED BY <2>1, <2>11 DEF p
<1>3. ASSUME NEW k \in T PROVE k + 1 \in T
  <2>1. k \in Nat /\ k + 1 + 1 = k + 2
    OBVIOUS
  <2> QED BY <1>2, <2>1
<1>4. T = Nat
  <2> HIDE DEF T
  <2> QED BY <1>1, <1>3, Induction
<1> QED BY <1>4, OutputType

\* The translation of a journal puts held roots before their children.
LEMMA ReferenceRootsFirst ==
  ASSUME NEW journal, NEW n \in 0..MaxRecords
  PROVE  RootsFirst(Staged(NoRoots, Emitted(journal, n)).ready)
<1> DEFINE good(s) == Rising(s) /\ \A k \in 1..Len(s) : s[k] \in Returned
           T == {s \in Seq(Operation) : good(s) => HeldInv(Staged(NoRoots, s), Elements(s))}
<1>1. T \in SUBSET Seq(Operation) /\ <<>> \in T
  <2>1. <<>> \in Seq(Operation)
    OBVIOUS
  <2>2. Staged(NoRoots, <<>>) = Alone(NoRoots)
    BY NoRootsType, StagedEmpty
  <2>3. HeldInv(Alone(NoRoots), Elements(<<>>))
    BY DEF HeldInv, Alone, NoRoots, Elements, RootsFirst
  <2> QED BY <2>1, <2>2, <2>3
<1>2. ASSUME NEW s \in T, NEW x \in Operation PROVE Append(s, x) \in T
  <2>1. s \in Seq(Operation) /\ (good(s) => HeldInv(Staged(NoRoots, s), Elements(s)))
    OBVIOUS
  <2>2. /\ Append(s, x) \in Seq(Operation) /\ Len(Append(s, x)) = Len(s) + 1 /\ Len(s) \in Nat
        /\ DOMAIN s = 1..Len(s) /\ DOMAIN Append(s, x) = 1..Len(s) + 1
        /\ \A k \in 1..Len(s) : Append(s, x)[k] = s[k]
        /\ Append(s, x)[Len(s) + 1] = x
    <3> HIDE DEF Operation
    <3> QED BY <2>1
  <2> HIDE DEF T
  <2>3. ASSUME good(Append(s, x)) PROVE HeldInv(Staged(NoRoots, Append(s, x)), Elements(Append(s, x)))
    <3> DEFINE a == Append(s, x)
    <3> HIDE DEF a
    <3>1. /\ Len(a) = Len(s) + 1 /\ Len(s) \in Nat
          /\ \A k \in 1..Len(s) : a[k] = s[k] /\ k \in 1..Len(a)
          /\ a[Len(s) + 1] = x /\ Len(s) + 1 \in 1..Len(a)
      BY <2>2 DEF a
    <3>2. Rising(a) /\ \A k \in 1..Len(a) : a[k] \in Returned
      BY <2>3 DEF a
    <3>3. x \in Returned /\ \A k \in 1..Len(s) : s[k] \in Returned /\ s[k].id < x.id
      BY <3>1, <3>2 DEF Rising
    <3>4. Rising(s)
      BY <3>1, <3>2 DEF Rising
    <3>5. HeldInv(Staged(NoRoots, s), Elements(s))
      BY <2>1, <3>3, <3>4
    <3>6. Elements(s) \in SUBSET Returned /\ \A e \in Elements(s) : e.id < x.id
      BY <2>2, <3>3 DEF Elements
    <3>7. /\ Staged(NoRoots, s) \in Held
          /\ Staged(NoRoots, Append(s, x)) = Stage(Staged(NoRoots, s), x)
      BY <2>1, NoRootsType, StagedAppend
    <3>8. HeldInv(Stage(Staged(NoRoots, s), x), Elements(s) \cup {x})
      BY <3>3, <3>5, <3>6, <3>7, StageKeeps
    <3>9. Elements(Append(s, x)) = Elements(s) \cup {x}
      BY <2>2 DEF Elements
    <3> QED BY <3>7, <3>8, <3>9
  <2> QED BY <2>2, <2>3 DEF T
<1> HIDE DEF T
<1>3. T = Seq(Operation)
  BY <1>1, <1>2, SeqInduction
<1>4. Numbered(Emitted(journal, n), n + 1, 0)
  BY EmittedNumbered
<1>5. good(Emitted(journal, n)) /\ Emitted(journal, n) \in Seq(Operation)
  BY <1>4 DEF Numbered, Emissions
<1> HIDE DEF good
<1>6. HeldInv(Staged(NoRoots, Emitted(journal, n)), Elements(Emitted(journal, n)))
  BY <1>3, <1>5 DEF T
<1> QED BY <1>6 DEF HeldInv

\* ... and so does every beginning of it.
LEMMA RootsFirstBegins ==
  ASSUME NEW s \in Seq(Operation), NEW t \in Seq(Operation), Begins(s, t), RootsFirst(t)
  PROVE  RootsFirst(s)
<1>1. Len(s) \in Nat /\ Len(t) \in Nat /\ Len(s) <= Len(t) /\ \A k \in 1..Len(s) : s[k] = t[k] /\ k \in 1..Len(t)
  <2> HIDE DEF Operation
  <2> QED BY DEF Begins
<1> QED BY <1>1 DEF RootsFirst

-----------------------------------------------------------------------------
(* The log and the open input, as functions of the journal.                *)

\* What the translation of the first n records comes to.
Ref(journal, n) == Staged(NoRoots, Emitted(journal, n))

\* The translation of p is the next one behind m.
IsNext(journal, m, p) ==
  /\ p \in m + 1..Len(journal) /\ Translates(journal, p)
  /\ \A q \in m + 1..p - 1 : ~Translates(journal, q)

\* The log s has what m records come to, and n operations of what comes next.
Logged(journal, m, s, n, held) ==
  /\ s \in Seq(Operation) /\ n \in Nat
  /\ held = Ref(journal, m).pending
  /\ Begins(Ref(journal, m).ready, s)
  /\ Len(s) = Len(Ref(journal, m).ready) + n
  /\ n # 0 => \E p \in 1..Len(journal) :
                IsNext(journal, m, p) /\ Begins(s, Ref(journal, p).ready)

\* The first c - 1 chunks of p are published, n operations in all, ...
Unprepared(journal, m, p, c, n, held) ==
  /\ held = Chunk(journal, m, p, c - 1).pending
  /\ Len(Chunk(journal, m, p, c - 1).ready) = Len(Ref(journal, m).ready) + n

\* ... or the first c, but for ops.
Prepared(journal, m, p, c, n, ops, held) ==
  /\ held = Chunk(journal, m, p, c).pending
  /\ ops \in Seq(Operation)
  /\ Len(Chunk(journal, m, p, c).ready) = Len(Ref(journal, m).ready) + n + Len(ops)
  /\ \A k \in 1..Len(ops) :
       ops[k] = Chunk(journal, m, p, c).ready[Len(Ref(journal, m).ready) + n + k]

\* What records come to are operations and roots.
LEMMA RefType ==
  ASSUME NEW journal, NEW n \in 0..MaxRecords
  PROVE  /\ Ref(journal, n) \in Held
         /\ Ref(journal, n).ready \in Seq(Operation)
         /\ Len(Ref(journal, n).ready) \in Nat
<1>1. Ref(journal, n) \in Held
  BY EmittedFacts, NoRootsType, StagedType DEF Ref
<1>2. Ref(journal, n).ready \in Seq(Operation)
  BY <1>1 DEF Held
<1>3. Len(Ref(journal, n).ready) \in Nat
  BY <1>2
<1> QED BY <1>1, <1>2, <1>3

\* What is appended to a journal leaves what it came to.
LEMMA JournalGrows ==
  ASSUME NEW journal, NEW longer, Len(journal) \in Nat, Len(longer) \in Nat,
         Len(journal) <= Len(longer), \A p \in 1..Len(journal) : longer[p] = journal[p]
  PROVE  /\ \A n \in 0..Len(journal) : Ref(longer, n) = Ref(journal, n)
         /\ \A m \in 0..Len(journal) : \A p, c : Chunk(longer, m, p, c) = Chunk(journal, m, p, c)
         /\ \A m \in Nat, p \in 1..Len(journal) :
              IsNext(journal, m, p) => IsNext(longer, m, p)
<1>1. ASSUME NEW n \in 0..Len(journal) PROVE Emitted(longer, n) = Emitted(journal, n)
  <2>1. \A p \in 1..n : longer[p] = journal[p]
    OBVIOUS
  <2> QED BY <2>1, EmittedSame
<1>2. ASSUME NEW m \in Nat, NEW p \in 1..Len(journal), IsNext(journal, m, p)
      PROVE  IsNext(longer, m, p)
  <2>1. p \in m + 1..Len(longer) /\ \A q \in m + 1..p : longer[q] = journal[q]
    BY <1>2 DEF IsNext
  <2>2. p \in m + 1..p /\ \A q \in m + 1..p - 1 : q \in m + 1..p
    BY <1>2 DEF IsNext
  <2> QED BY <1>2, <2>1, <2>2 DEF IsNext, Translates
<1> QED BY <1>1, <1>2 DEF Ref, Chunk

\* What is appended to a journal leaves what is published of it.
LEMMA LoggedGrows ==
  ASSUME NEW journal, NEW longer, Len(journal) \in Nat, Len(longer) \in Nat,
         Len(journal) <= Len(longer), \A p \in 1..Len(journal) : longer[p] = journal[p],
         NEW m \in 0..Len(journal), NEW s, NEW n, NEW held, Logged(journal, m, s, n, held)
  PROVE  Logged(longer, m, s, n, held)
<1>1. Ref(longer, m) = Ref(journal, m) /\ m \in Nat
  BY JournalGrows
<1>2. ASSUME NEW p \in 1..Len(journal), IsNext(journal, m, p), Begins(s, Ref(journal, p).ready)
      PROVE  p \in 1..Len(longer) /\ IsNext(longer, m, p) /\ Begins(s, Ref(longer, p).ready)
  <2>1. p \in 0..Len(journal) /\ p \in 1..Len(longer)
    OBVIOUS
  <2>2. Ref(longer, p) = Ref(journal, p)
    BY <2>1, JournalGrows
  <2>3. IsNext(longer, m, p)
    BY <1>1, <1>2, JournalGrows
  <2> QED BY <1>2, <2>1, <2>2, <2>3
<1> QED BY <1>1, <1>2 DEF Logged

\* Records that are not translated change nothing.
LEMMA LoggedSkips ==
  ASSUME NEW journal, Len(journal) \in 0..MaxRecords, NEW m \in 0..Len(journal),
         NEW e \in m..Len(journal), \A q \in m + 1..e : ~Translates(journal, q),
         NEW s, NEW n, NEW held, Logged(journal, m, s, n, held)
  PROVE  Logged(journal, e, s, n, held)
<1>0. Len(journal) \in Nat /\ m \in Nat /\ e \in Nat /\ m <= e
  BY OutputType
<1>1. Ref(journal, e) = Ref(journal, m)
  <2>1. m \in 0..MaxRecords /\ e \in m..MaxRecords
    BY OutputType
  <2> QED BY <2>1, EmittedSkip DEF Ref
<1>2. ASSUME NEW p \in 1..Len(journal), IsNext(journal, m, p) PROVE IsNext(journal, e, p)
  <2>1. p \in m + 1..Len(journal) /\ Translates(journal, p)
    BY <1>2 DEF IsNext
  <2>2. p \in e + 1..Len(journal)
    BY <1>0, <2>1
  <2>3. \A q \in e + 1..p - 1 : q \in m + 1..p - 1
    BY <1>0
  <2> QED BY <1>2, <2>1, <2>2, <2>3 DEF IsNext
<1> QED BY <1>1, <1>2 DEF Logged

\* Staging the next chunk adds its operations to what is published.
LEMMA PrepareFacts ==
  ASSUME NEW journal, NEW m \in 0..MaxRecords, NEW p \in 1..MaxRecords,
         NEW c \in 1..Len(Output[p]), NEW n \in Nat, NEW held,
         Unprepared(journal, m, p, c, n, held)
  PROVE  Prepared(journal, m, p, c, n, Staged(held, Output[p][c]).ready,
                  Staged(held, Output[p][c]).pending)
<1> DEFINE before == Chunk(journal, m, p, c - 1)
           after == Chunk(journal, m, p, c)
           next == Staged(held, Output[p][c])
<1>1. /\ Output[p][c] \in Seq(Operation) /\ before \in Held
      /\ after = Then(before, Staged(before.pending, Output[p][c]))
  BY ChunkNext
<1>2. held = before.pending /\ Len(before.ready) = Len(Ref(journal, m).ready) + n
  BY DEF Unprepared
<1>3. next \in Held
  BY <1>1, <1>2, StagedType DEF Held
<1> HIDE DEF before, after, next
<1>4. after = Then(before, next)
  BY <1>1, <1>2 DEF next
<1>5. after.ready = before.ready \o next.ready /\ after.pending = next.pending
  BY <1>4, ThenFields
<1>6. before.ready \in Seq(Operation) /\ next.ready \in Seq(Operation)
  BY <1>1, <1>3 DEF Held
<1>7. Len(Ref(journal, m).ready) \in Nat
  BY RefType
<1> DEFINE r == before.ready  t == next.ready  l == Len(Ref(journal, m).ready)
<1>8. /\ Len(r) \in Nat /\ Len(t) \in Nat /\ Len(r \o t) = Len(r) + Len(t)
      /\ \A k \in 1..Len(t) : (r \o t)[Len(r) + k] = t[k]
  <2> HIDE DEF r, t, l, Operation
  <2>1. r \in Seq(Operation) /\ t \in Seq(Operation)
    BY <1>6 DEF r, t
  <2> QED BY <2>1
<1>9. Len(r) = l + n
  BY <1>2
<1> HIDE DEF r, t, l
<1>10. Len(after.ready) = l + n + Len(t) /\ \A k \in 1..Len(t) : t[k] = after.ready[l + n + k]
  BY <1>5, <1>8, <1>9 DEF r, t
<1> QED BY <1>5, <1>6, <1>10 DEF Prepared, l, t, after, next

\* Publishing one operation.
LEMMA TakeFacts ==
  ASSUME NEW journal, NEW m \in 0..MaxRecords, NEW p \in 1..MaxRecords, NEW c,
         NEW n \in Nat, NEW ops, NEW held, Prepared(journal, m, p, c, n, ops, held), ops # <<>>
  PROVE  /\ Prepared(journal, m, p, c, n + 1, Tail(ops), held)
         /\ Head(ops) \in Operation
         /\ Len(Ref(journal, m).ready) + n + 1 <= Len(Chunk(journal, m, p, c).ready)
         /\ Head(ops) = Chunk(journal, m, p, c).ready[Len(Ref(journal, m).ready) + n + 1]
<1> DEFINE l == Len(Ref(journal, m).ready)  r == Chunk(journal, m, p, c).ready
<1>1. l \in Nat
  BY RefType
<1>2. /\ ops \in Seq(Operation) /\ Len(r) = l + n + Len(ops)
      /\ \A k \in 1..Len(ops) : ops[k] = r[l + n + k]
  BY DEF Prepared
<1> HIDE DEF l, r
<1>3. /\ Head(ops) \in Operation /\ Head(ops) = ops[1] /\ Tail(ops) \in Seq(Operation)
      /\ Len(ops) \in Nat \ {0} /\ Len(Tail(ops)) = Len(ops) - 1
      /\ \A k \in 1..Len(ops) - 1 : Tail(ops)[k] = ops[k + 1]
  <2> HIDE DEF Operation
  <2> QED BY <1>2
<1>4. 1 \in 1..Len(ops) /\ l + n + 1 <= Len(r) /\ Len(r) = l + (n + 1) + Len(Tail(ops))
  BY <1>1, <1>2, <1>3
<1>5. ASSUME NEW k \in 1..Len(Tail(ops)) PROVE Tail(ops)[k] = r[l + (n + 1) + k]
  <2>1. k + 1 \in 1..Len(ops) /\ Tail(ops)[k] = ops[k + 1] /\ l + n + (k + 1) = l + (n + 1) + k
    BY <1>1, <1>3
  <2> QED BY <1>2, <2>1
<1>6. Prepared(journal, m, p, c, n + 1, Tail(ops), held)
  <2>1. held = Chunk(journal, m, p, c).pending
    BY DEF Prepared
  <2> QED BY <1>3, <1>4, <1>5, <2>1 DEF Prepared, l, r
<1> QED BY <1>2, <1>3, <1>4, <1>6 DEF l, r

\* The last operation of a chunk leads to the next chunk.
LEMMA DrainFacts ==
  ASSUME NEW journal, NEW m \in 0..MaxRecords, NEW p, NEW c \in Nat, NEW n \in Nat, NEW held,
         Prepared(journal, m, p, c, n, <<>>, held)
  PROVE  Unprepared(journal, m, p, c + 1, n, held)
<1>1. Len(Ref(journal, m).ready) \in Nat /\ (c + 1) - 1 = c /\ Len(<<>>) = 0
  BY RefType
<1> QED BY <1>1 DEF Prepared, Unprepared

\* The first chunk starts where the committed records end.
LEMMA FirstChunk ==
  ASSUME NEW journal, Len(journal) \in 0..MaxRecords, NEW m \in 0..MaxRecords,
         NEW p \in 1..MaxRecords, IsNext(journal, m, p)
  PROVE  /\ Unprepared(journal, m, p, 1, 0, Ref(journal, m).pending)
         /\ Chunk(journal, m, p, Len(Output[p])) = Ref(journal, p)
         /\ p \in m + 1..MaxRecords
<1>1. p \in m + 1..MaxRecords /\ Translates(journal, p)
      /\ \A q \in m + 1..p - 1 : ~Translates(journal, q)
  BY OutputType DEF IsNext
<1>2. /\ Chunk(journal, m, p, 0) = Ref(journal, m)
      /\ Chunk(journal, m, p, Len(Output[p])) = Ref(journal, p)
  BY <1>1, ChunkEnds DEF Ref
<1>3. Len(Ref(journal, m).ready) \in Nat
  BY RefType
<1> QED BY <1>1, <1>2, <1>3 DEF Unprepared

\* What the open input has come to is the beginning of what it comes to.
LEMMA ChunkBegins ==
  ASSUME NEW journal, Len(journal) \in 0..MaxRecords, NEW m \in 0..MaxRecords,
         NEW p \in 1..MaxRecords, IsNext(journal, m, p), NEW c \in 1..Len(Output[p])
  PROVE  /\ Begins(Chunk(journal, m, p, c).ready, Ref(journal, p).ready)
         /\ Begins(Ref(journal, m).ready, Chunk(journal, m, p, c).ready)
         /\ Chunk(journal, m, p, c).ready \in Seq(Operation)
         /\ Len(Chunk(journal, m, p, c).ready) \in Nat
<1>1. /\ Chunk(journal, m, p, 0) = Ref(journal, m)
      /\ Chunk(journal, m, p, Len(Output[p])) = Ref(journal, p)
  <2>1. p \in m + 1..MaxRecords /\ Translates(journal, p)
        /\ \A q \in m + 1..p - 1 : ~Translates(journal, q)
    BY OutputType DEF IsNext
  <2> QED BY <2>1, ChunkEnds DEF Ref
<1>2. /\ Len(Output[p]) \in c..Len(Output[p]) /\ c \in 0..Len(Output[p]) /\ 0 \in 0..Len(Output[p])
      /\ c \in 0..Len(Output[p])
  BY OutputType
<1>3. Chunk(journal, m, p, c) \in Held
  BY <1>2, ChunkType
<1>4. Chunk(journal, m, p, c).ready \in Seq(Operation)
  BY <1>3 DEF Held
<1>5. Len(Chunk(journal, m, p, c).ready) \in Nat
  BY <1>4
<1>6. Begins(Chunk(journal, m, p, c).ready, Chunk(journal, m, p, Len(Output[p])).ready)
  BY <1>2, ChunkGrows
<1>7. Begins(Chunk(journal, m, p, 0).ready, Chunk(journal, m, p, c).ready)
  BY <1>2, ChunkGrows
<1> QED BY <1>1, <1>4, <1>5, <1>6, <1>7

\* Only one record comes next.
LEMMA NextIsOne ==
  ASSUME NEW journal, Len(journal) \in Nat, NEW m \in Nat, NEW p, NEW q,
         IsNext(journal, m, p), IsNext(journal, m, q)
  PROVE  p = q
<1>1. p \in m + 1..Len(journal) /\ q \in m + 1..Len(journal)
  BY DEF IsNext
<1>2. Translates(journal, p) /\ Translates(journal, q)
  BY DEF IsNext
<1>3. ~(p \in m + 1..q - 1) /\ ~(q \in m + 1..p - 1)
  BY <1>2 DEF IsNext
<1> QED BY <1>1, <1>3

\* What is published of the open input is the beginning of what it comes to.
LEMMA LogBegins ==
  ASSUME NEW journal, Len(journal) \in 0..MaxRecords, NEW m \in 0..MaxRecords, NEW p \in 1..MaxRecords,
         IsNext(journal, m, p), NEW s, NEW n, NEW held, Logged(journal, m, s, n, held)
  PROVE  Begins(s, Ref(journal, p).ready)
<1>1. /\ s \in Seq(Operation) /\ n \in Nat
      /\ Begins(Ref(journal, m).ready, s) /\ Len(s) = Len(Ref(journal, m).ready) + n
  BY DEF Logged
<1>2. CASE n # 0
  <2>1. PICK q \in 1..Len(journal) : IsNext(journal, m, q) /\ Begins(s, Ref(journal, q).ready)
    BY <1>2 DEF Logged
  <2>2. Len(journal) \in Nat /\ m \in Nat
    BY OutputType
  <2>3. q = p
    BY <2>1, <2>2, NextIsOne
  <2> QED BY <2>1, <2>3
<1>3. CASE n = 0
  <2>1. Len(Output[p]) \in 1..Len(Output[p])
    BY OutputType
  <2>2. Begins(Ref(journal, m).ready, Chunk(journal, m, p, Len(Output[p])).ready)
    BY <2>1, ChunkBegins
  <2>3. Begins(Ref(journal, m).ready, Ref(journal, p).ready)
    BY <2>2, FirstChunk
  <2>4. Len(Ref(journal, m).ready) \in Nat /\ Len(s) = Len(Ref(journal, m).ready)
    BY <1>1, <1>3, RefType
  <2> QED BY <1>1, <2>3, <2>4 DEF Begins
<1> QED BY <1>1, <1>2, <1>3

\* Publishing the next operation.
LEMMA AppendLog ==
  ASSUME NEW journal, Len(journal) \in 0..MaxRecords, NEW m \in 0..MaxRecords, NEW p \in 1..MaxRecords,
         IsNext(journal, m, p), NEW s, NEW n, NEW held, Logged(journal, m, s, n, held),
         NEW c \in 1..Len(Output[p]), NEW ops, NEW roots2, ops # <<>>,
         Prepared(journal, m, p, c, n, ops, roots2)
  PROVE  Logged(journal, m, Append(s, Head(ops)), n + 1, held)
<1> DEFINE l == Len(Ref(journal, m).ready)
           r == Ref(journal, m).ready
           t == Ref(journal, p).ready
           d == Chunk(journal, m, p, c).ready
           o == Head(ops)
<1>1. /\ s \in Seq(Operation) /\ n \in Nat /\ held = Ref(journal, m).pending
      /\ Begins(r, s) /\ Len(s) = l + n
  BY DEF Logged
<1>2. Begins(s, t)
  BY LogBegins
<1>3. o \in Operation /\ l + n + 1 <= Len(d) /\ o = d[l + n + 1]
  BY <1>1, TakeFacts
<1>4. Begins(d, t) /\ Len(d) \in Nat
  BY ChunkBegins
<1>5. l \in Nat /\ Len(t) \in Nat
  BY RefType
<1> HIDE DEF l, r, t, d, o
<1>6. /\ Append(s, o) \in Seq(Operation) /\ Len(Append(s, o)) = Len(s) + 1
      /\ Append(s, o)[Len(s) + 1] = o /\ Len(s) \in Nat
      /\ \A k \in 1..Len(s) : Append(s, o)[k] = s[k]
  <2> HIDE DEF Operation
  <2> QED BY <1>1, <1>3
<1>7. l + n + 1 \in 1..Len(d) /\ d[l + n + 1] = t[l + n + 1] /\ l + n + 1 <= Len(t)
  BY <1>1, <1>3, <1>4, <1>5 DEF Begins
<1>8. Begins(Append(s, o), t)
  BY <1>1, <1>2, <1>3, <1>5, <1>6, <1>7 DEF Begins
<1>9. Begins(r, Append(s, o))
  BY <1>1, <1>5, <1>6 DEF Begins, l, r
<1>10. p \in 1..Len(journal)
  BY OutputType DEF IsNext
<1>11. Len(Append(s, o)) = l + (n + 1) /\ n + 1 \in Nat
  BY <1>1, <1>5, <1>6
<1> QED BY <1>1, <1>6, <1>8, <1>9, <1>10, <1>11 DEF Logged, l, r, t, o

\* Committing an input whose operations are all published.
LEMMA CommitLog ==
  ASSUME NEW journal, Len(journal) \in 0..MaxRecords, NEW m \in 0..MaxRecords, NEW p \in 1..MaxRecords,
         IsNext(journal, m, p), NEW s, NEW n, NEW held, Logged(journal, m, s, n, held),
         NEW k \in 0..n, NEW roots2, Prepared(journal, m, p, Len(Output[p]), k, <<>>, roots2)
  PROVE  Logged(journal, p, s, 0, roots2)
<1> DEFINE l == Len(Ref(journal, m).ready)
           t == Ref(journal, p).ready
<1>1. s \in Seq(Operation) /\ n \in Nat /\ Len(s) = l + n
  BY DEF Logged
<1>2. Begins(s, t)
  BY LogBegins
<1>3. Chunk(journal, m, p, Len(Output[p])) = Ref(journal, p)
  BY FirstChunk
<1>4. roots2 = Ref(journal, p).pending /\ Len(t) = l + k + Len(<<>>)
  BY <1>3 DEF Prepared
<1>5. l \in Nat /\ Len(t) \in Nat /\ Len(<<>>) = 0
  BY RefType
<1> HIDE DEF l, t
<1>6. Len(s) = Len(t)
  BY <1>1, <1>2, <1>4, <1>5 DEF Begins
<1>7. Begins(t, s)
  BY <1>2, <1>5, <1>6 DEF Begins
<1>8. Len(s) = Len(t) + 0
  BY <1>5, <1>6
<1> QED BY <1>1, <1>4, <1>7, <1>8 DEF Logged, t
-----------------------------------------------------------------------------
(* The log in every state.                                                 *)

BoundInv == Len(file) <= MaxRecords

LogInv == Logged(file, committed, log, partial, candidates)

\* The roots are those of the log, but for an open input; a producer that
\* works has a translator.
RootsInv ==
  /\ translator \in Seq(Nat)
  /\ translator = Missing => pub.input = 0 /\ at \in {"wait", "open"}
  /\ translator # Missing /\ (pub.input = 0 \/ ~New) => roots = candidates

\* How far the open input is.
Opened ==
  /\ IsNext(file, committed, pub.input) /\ pub.ordinal \in 0..partial
  /\ pub.prepared \/ pub.complete =>
       Prepared(file, committed, pub.input, pub.chunk, pub.ordinal, pub.ops, roots)
  /\ ~(pub.prepared \/ pub.complete) =>
       /\ Unprepared(file, committed, pub.input, pub.chunk, pub.ordinal, roots)
       /\ pub.ops = Output[pub.input][pub.chunk]

ChunkInv ==
  pub.input # 0 =>
    /\ pub.input \in 1..MaxRecords /\ pub.chunk \in 1..Len(Output[pub.input])
    /\ pub.complete => pub.chunk = Len(Output[pub.input]) /\ pub.ops = <<>>
    /\ New => Opened

PublishInv == BoundInv /\ LogInv /\ RootsInv /\ ChunkInv

\* The numbers of the journal.
LEMMA JournalNumbers ==
  ASSUME IInv, PublishInv
  PROVE  /\ MaxRecords \in Nat /\ Len(file) \in Nat /\ Len(file) \in 0..MaxRecords
         /\ committed \in Nat /\ committed \in 0..Len(file) /\ committed \in 0..MaxRecords
         /\ pub.input \in Nat /\ taken \in Nat /\ position \in Nat
         /\ taken <= Len(file) /\ position <= Len(file) /\ pub.input <= Len(file)
<1>1. /\ TypeOK /\ ReachInv /\ BoundInv
  BY DEF IInv, PublishInv
<1>2. /\ Len(file) \in Nat /\ committed \in Nat /\ Reach \in Nat /\ committed <= Reach
      /\ pub.input \in Nat /\ taken \in Nat /\ position \in Nat /\ MaxRecords \in Nat
  BY <1>1, Numbers, ReachFacts, OutputType
<1>3. Reach <= Len(file) /\ taken <= Reach /\ position <= Reach /\ pub.input <= Reach
  BY <1>1 DEF ReachInv
<1> QED BY <1>1, <1>2, <1>3 DEF BoundInv

\* What is not translated yet comes next.
LEMMA TakenIsNext ==
  ASSUME IInv, PublishInv, at = "record", taken > committed
  PROVE  /\ \A q \in committed + 1..taken - 1 : ~Translates(file, q)
         /\ Translates(file, taken) => IsNext(file, committed, taken)
<1>1. taken \in Nat /\ committed \in Nat /\ taken <= Len(file) /\ Len(file) \in Nat
  BY JournalNumbers
<1>2. taken - 1 \in Finished
  BY DEF IInv, BehindInv
<1>3. ASSUME NEW q \in committed + 1..taken - 1 PROVE ~Translates(file, q)
  <2>1. q \in 1..taken - 1 /\ ~(q <= committed)
    BY <1>1
  <2>2. file[q] = "foreign"
    BY <1>2, <2>1 DEF Finished
  <2> QED BY <2>2 DEF Translates, Controls
<1> QED BY <1>1, <1>3 DEF IsNext

\* The bound is kept.
LEMMA BoundStep ==
  ASSUME IInv, PublishInv, [Next]_vars
  PROVE  BoundInv'
BY JournalStep DEF IInv, PublishInv, BoundInv

\* A step that leaves what is published alone.
LEMMA Kept ==
  ASSUME IInv, PublishInv, [Next]_vars, UNCHANGED <<committed, log, partial, candidates>>,
         pub' = pub \/ pub'.input = 0, pub'.input # 0 => roots' = roots
  PROVE  LogInv' /\ ChunkInv'
<1>1. /\ committed \in 0..Len(file) /\ Len(file) \in Nat /\ committed \in Nat
      /\ MaxRecords \in Nat
  BY JournalNumbers
<1>2. /\ Len(file) <= Len(file') /\ \A p \in 1..Len(file) : file'[p] = file[p]
      /\ Len(file') \in Nat
  BY TypeStep, JournalStep, Numbers DEF IInv
<1>3. LogInv'
  <2>1. Logged(file, committed, log, partial, candidates)
    BY DEF PublishInv, LogInv
  <2>2. Logged(file', committed, log, partial, candidates)
    BY <1>1, <1>2, <2>1, LoggedGrows
  <2> QED BY <2>2 DEF LogInv
<1>4. ChunkInv'
  <2> SUFFICES ASSUME pub'.input # 0 PROVE ChunkInv'
    BY DEF ChunkInv
  <2>1. pub' = pub /\ roots' = roots /\ ChunkInv
    BY DEF PublishInv
  <2>2. ASSUME Opened PROVE Opened'
    <3>1. IsNext(file, committed, pub.input) /\ pub.input \in 1..Len(file)
      BY <1>1, <2>2 DEF Opened, IsNext
    <3>2. IsNext(file', committed, pub.input)
      BY <1>1, <1>2, <3>1, JournalGrows
    <3>3. Ref(file', committed) = Ref(file, committed)
      BY <1>1, <1>2, JournalGrows
    <3>4. \A p, c : Chunk(file', committed, p, c) = Chunk(file, committed, p, c)
      BY <1>1, <1>2, JournalGrows
    <3>5. \A p, c, n, ops, held : Prepared(file, committed, p, c, n, ops, held)
                                    => Prepared(file', committed, p, c, n, ops, held)
      BY <3>3, <3>4 DEF Prepared
    <3>6. \A p, c, n, held : Unprepared(file, committed, p, c, n, held)
                                    => Unprepared(file', committed, p, c, n, held)
      BY <3>3, <3>4 DEF Unprepared
    <3> QED BY <2>1, <2>2, <3>2, <3>5, <3>6 DEF Opened
  <2> QED BY <2>1, <2>2 DEF ChunkInv, New
<1> QED BY <1>3, <1>4

\* A new translator takes the roots of the log.
LEMMA RootsOpen ==
  ASSUME IInv, PublishInv, Open
  PROVE  RootsInv'
<1>1. /\ pub' = pub /\ candidates' = candidates /\ committed' = committed /\ at = "open"
      /\ translator' = (IF translator = Missing THEN <<>> ELSE translator)
      /\ roots' = (IF translator = Missing THEN candidates ELSE roots)
  BY DEF Open, Initialize, durable
<1>2. RootsInv /\ (pub.input # 0 => at = "publish" \/ at = "wait")
  BY DEF IInv, PublishInv, StageInv
<1>3. translator' \in Seq(Nat) /\ translator' # Missing
  <2>1. <<>> \in Seq(Nat) /\ <<>> # <<0>>
    OBVIOUS
  <2> QED BY <1>1, <1>2, <2>1 DEF RootsInv, Missing
<1> QED BY <1>1, <1>2, <1>3 DEF RootsInv, New

\* The steps that only move the producer, its channel, its reader or the journal.
LEMMA RootsKept ==
  ASSUME RootsInv, UNCHANGED <<committed, candidates, pub, roots>>,
         \/ translator' = translator
            /\ (translator = Missing => at' \in {"wait", "open"})
         \/ translator' = Missing /\ pub.input = 0 /\ at' \in {"wait", "open"}
  PROVE  RootsInv'
<1>1. <<0>> \in Seq(Nat)
  OBVIOUS
<1> QED BY <1>1 DEF RootsInv, New, Missing

\* The first chunk of a record that is handled waits to be staged.
LEMMA HandleStep ==
  ASSUME IInv, PublishInv, [Next]_vars, Handle
  PROVE  PublishInv'
<1>1. /\ at = "record" /\ Translates(file, taken)
      /\ translator' = Append(translator, taken) /\ at' = "publish"
      /\ UNCHANGED <<file, committed, log, partial, candidates, roots>>
  BY DEF Handle, durable, Translated, Translates, Controls
<1>2. /\ pub'.input = taken /\ pub'.chunk = 1 /\ pub'.ordinal = 0 /\ pub'.ops = Output[taken][1]
      /\ pub'.prepared = FALSE /\ pub'.complete = FALSE
  BY DEF Handle, NoPublication
<1>3. at = "record" /\ taken # 0 /\ pub.input = 0 /\ translator # Missing /\ translator \in Seq(Nat)
  BY <1>1 DEF Handle, IInv, PublishInv, StageInv, RootsInv
<1>4. /\ taken \in 1..MaxRecords /\ taken \in Nat /\ committed \in 0..MaxRecords
      /\ Len(file) \in 0..MaxRecords /\ committed \in Nat
  BY <1>3, JournalNumbers
<1>5. roots = candidates
  BY <1>3 DEF PublishInv, RootsInv
<1>6. BoundInv'
  BY BoundStep
<1>7. LogInv'
  BY <1>1 DEF PublishInv, LogInv
<1>8. RootsInv'
  <2>1. translator' \in Seq(Nat) /\ translator'[Len(translator')] = taken
    BY <1>1, <1>3, <1>4
  <2>2. translator' # Missing
    BY <1>3, <2>1 DEF Missing
  <2> QED BY <1>1, <1>5, <2>1, <2>2 DEF RootsInv
<1>9. ChunkInv'
  <2>1. 1 \in 1..Len(Output[taken])
    BY <1>4, OutputType
  <2>2. ASSUME taken > committed PROVE Opened'
    <3>1. IsNext(file, committed, taken)
      BY <1>1, <1>3, <1>4, <2>2, TakenIsNext
    <3>2. Unprepared(file, committed, taken, 1, 0, candidates)
      <4>1. Unprepared(file, committed, taken, 1, 0, Ref(file, committed).pending)
        BY <1>4, <3>1, FirstChunk
      <4> QED BY <4>1 DEF PublishInv, LogInv, Logged
    <3>3. partial \in Nat
      BY DEF PublishInv, LogInv, Logged
    <3> QED BY <1>1, <1>2, <1>5, <3>1, <3>2, <3>3 DEF Opened
  <2> QED BY <1>1, <1>2, <1>4, <2>1, <2>2 DEF ChunkInv, New
<1> QED BY <1>6, <1>7, <1>8, <1>9 DEF PublishInv

\* A record that is passed over adds nothing.
LEMMA PassOverStep ==
  ASSUME IInv, PublishInv, [Next]_vars, PassOver
  PROVE  PublishInv'
<1>1. /\ at = "record" /\ ~Translated(taken)
      /\ committed' = IF file[taken] = "legacy" THEN Larger(committed, taken) ELSE committed
      /\ UNCHANGED <<file, log, partial, candidates, roots, translator, pub>>
      /\ at' = "input"
  BY DEF PassOver
<1>2. taken # 0 /\ pub.input = 0 /\ translator # Missing
  BY <1>1 DEF IInv, PublishInv, StageInv, RootsInv
<1>3. /\ Len(file) \in 0..MaxRecords /\ committed \in 0..Len(file) /\ taken \in Nat
      /\ taken <= Len(file) /\ committed \in Nat /\ Len(file) \in Nat
  BY JournalNumbers
<1>4. BoundInv' /\ RootsInv' /\ ChunkInv'
  BY <1>1, <1>2, BoundStep DEF PublishInv, RootsInv, ChunkInv
<1>5. LogInv'
  <2>1. LogInv /\ (committed' = committed \/ (file[taken] = "legacy" /\ taken > committed /\ committed' = taken))
    BY <1>1, <1>3 DEF PublishInv, Larger
  <2>2. CASE committed' = committed
    BY <1>1, <2>1, <2>2 DEF LogInv
  <2>3. CASE file[taken] = "legacy" /\ taken > committed /\ committed' = taken
    <3>1. \A q \in committed + 1..taken - 1 : ~Translates(file, q)
      BY <1>1, <2>3, TakenIsNext
    <3>2. ~Translates(file, taken)
      BY <2>3 DEF Translates, Controls
    <3>3. \A q \in committed + 1..taken : ~Translates(file, q)
      BY <1>3, <3>1, <3>2
    <3>4. taken \in committed..Len(file)
      BY <1>3, <2>3
    <3>5. Logged(file, taken, log, partial, candidates)
      BY <1>3, <2>1, <3>3, <3>4, LoggedSkips DEF LogInv
    <3> QED BY <1>1, <2>3, <3>5 DEF LogInv
  <2> QED BY <2>1, <2>2, <2>3
<1> QED BY <1>4, <1>5 DEF PublishInv

\* What the steps of a publication keep.
LEMMA Publishing ==
  ASSUME IInv, PublishInv, PrepareChunk \/ AppendOp \/ DrainPending
  PROVE  /\ pub.input \in 1..MaxRecords /\ pub.chunk \in 1..Len(Output[pub.input])
         /\ Len(Output[pub.input]) \in Nat /\ translator # Missing
         /\ translator \in Seq(Nat) /\ LogInv /\ RootsInv
         /\ pub = [f \in PubFields |-> pub[f]] /\ pub'.input = pub.input
         /\ UNCHANGED <<file, committed, candidates, translator, at>>
<1>1. at = "publish" /\ UNCHANGED <<file, committed, candidates, translator, at>>
  BY Zenon DEF PrepareChunk, AppendOp, DrainPending, durable, source, run
<1>2. pub.input # 0 /\ translator # Missing /\ translator \in Seq(Nat) /\ LogInv /\ RootsInv
  BY <1>1 DEF IInv, PublishInv, StageInv, RootsInv
<1>3. pub.input \in 1..MaxRecords /\ pub.chunk \in 1..Len(Output[pub.input])
  BY <1>2 DEF PublishInv, ChunkInv
<1>4. Len(Output[pub.input]) \in Nat
  BY <1>3, OutputType
<1>5. DOMAIN pub = PubFields /\ pub = [f \in PubFields |-> pub[f]] /\ pub.input \in Nat
  BY DEF IInv, TypeOK
<1>6. pub'.input = pub.input
  BY <1>2, <1>5, PubFacts
<1> QED BY <1>1, <1>2, <1>3, <1>4, <1>5, <1>6

\* Staging a chunk puts its operations in hand.
LEMMA PrepareStep ==
  ASSUME IInv, PublishInv, [Next]_vars, PrepareChunk
  PROVE  PublishInv'
<1>1. /\ pub.input \in 1..MaxRecords /\ pub.chunk \in 1..Len(Output[pub.input])
      /\ translator # Missing /\ translator \in Seq(Nat) /\ LogInv /\ RootsInv
      /\ pub = [f \in PubFields |-> pub[f]] /\ pub'.input = pub.input
      /\ UNCHANGED <<file, committed, candidates, translator, at>>
  BY Publishing
<1>2. /\ ~pub.complete /\ ~pub.prepared /\ UNCHANGED <<log, partial>>
      /\ roots' = IF New THEN Staged(roots, pub.ops).pending ELSE roots
      /\ pub' = [pub EXCEPT !.prepared = TRUE,
                            !.ops = IF New THEN Staged(roots, pub.ops).ready ELSE @]
  BY DEF PrepareChunk, durable
<1>3. /\ pub'.prepared = TRUE /\ pub'.chunk = pub.chunk /\ pub'.ordinal = pub.ordinal
      /\ pub'.complete = pub.complete
      /\ pub'.ops = IF New THEN Staged(roots, pub.ops).ready ELSE pub.ops
  BY <1>1, <1>2 DEF PubFields
<1>4. BoundInv'
  BY BoundStep
<1>5. LogInv'
  BY <1>1, <1>2 DEF LogInv
<1>6. RootsInv'
  BY <1>1, <1>2 DEF RootsInv, New
<1>7. ASSUME New PROVE Opened'
  <2>1. Opened
    BY <1>1, <1>7 DEF PublishInv, ChunkInv
  <2>2. /\ Unprepared(file, committed, pub.input, pub.chunk, pub.ordinal, roots)
        /\ pub.ops = Output[pub.input][pub.chunk] /\ pub.ordinal \in 0..partial
        /\ IsNext(file, committed, pub.input)
    BY <1>2, <2>1 DEF Opened
  <2>3. pub.ordinal \in Nat /\ committed \in 0..MaxRecords
    BY <1>1, <2>2, JournalNumbers DEF LogInv, Logged
  <2>4. Prepared(file, committed, pub.input, pub.chunk, pub.ordinal,
                 Staged(roots, pub.ops).ready, Staged(roots, pub.ops).pending)
    BY <1>1, <2>2, <2>3, PrepareFacts
  <2> QED BY <1>1, <1>2, <1>3, <1>7, <2>2, <2>4 DEF Opened
<1>8. ChunkInv'
  BY <1>1, <1>2, <1>3, <1>7 DEF ChunkInv, New
<1> QED BY <1>4, <1>5, <1>6, <1>8 DEF PublishInv

\* Publishing an operation, or recognising a published one.
LEMMA AppendStep ==
  ASSUME IInv, PublishInv, [Next]_vars, AppendOp
  PROVE  PublishInv'
<1>1. /\ pub.input \in 1..MaxRecords /\ pub.chunk \in 1..Len(Output[pub.input])
      /\ translator # Missing /\ translator \in Seq(Nat) /\ LogInv /\ RootsInv
      /\ pub = [f \in PubFields |-> pub[f]] /\ pub'.input = pub.input
      /\ UNCHANGED <<file, committed, candidates, translator, at>>
  BY Publishing
<1>2. /\ pub.prepared /\ New /\ pub.ops # <<>> /\ roots' = roots
      /\ IF pub.ordinal < partial THEN UNCHANGED <<log, partial>>
         ELSE log' = Append(log, Head(pub.ops)) /\ partial' = partial + 1
      /\ pub' = [pub EXCEPT !.ops = Tail(@), !.ordinal = @ + 1]
  BY DEF AppendOp
<1>3. /\ pub'.prepared = pub.prepared /\ pub'.chunk = pub.chunk /\ pub'.ordinal = pub.ordinal + 1
      /\ pub'.complete = pub.complete /\ pub'.ops = Tail(pub.ops)
  BY <1>1, <1>2 DEF PubFields
<1>4. BoundInv'
  BY BoundStep
<1>5. /\ Opened /\ ~pub.complete
      /\ IsNext(file, committed, pub.input) /\ pub.ordinal \in 0..partial
      /\ Prepared(file, committed, pub.input, pub.chunk, pub.ordinal, pub.ops, roots)
  BY <1>1, <1>2 DEF PublishInv, ChunkInv, Opened
<1>6. /\ partial \in Nat /\ pub.ordinal \in Nat /\ committed \in 0..MaxRecords
      /\ Len(file) \in 0..MaxRecords
  BY <1>1, <1>5, JournalNumbers DEF LogInv, Logged
<1>7. LogInv'
  <2>1. CASE pub.ordinal < partial
    BY <1>1, <1>2, <2>1 DEF LogInv
  <2>2. CASE ~(pub.ordinal < partial)
    <3>1. pub.ordinal = partial
      BY <1>5, <1>6, <2>2
    <3>2. Logged(file, committed, Append(log, Head(pub.ops)), partial + 1, candidates)
      BY <1>1, <1>2, <1>5, <1>6, <3>1, AppendLog DEF LogInv
    <3> QED BY <1>1, <1>2, <2>2, <3>2 DEF LogInv
  <2> QED BY <2>1, <2>2
<1>8. RootsInv'
  BY <1>1, <1>2 DEF RootsInv, New
<1>9. Opened'
  <2>1. Prepared(file, committed, pub.input, pub.chunk, pub.ordinal + 1, Tail(pub.ops), roots)
    BY <1>1, <1>2, <1>5, <1>6, TakeFacts
  <2>2. pub.ordinal + 1 \in 0..partial'
    BY <1>2, <1>5, <1>6
  <2> QED BY <1>1, <1>2, <1>3, <1>5, <2>1, <2>2 DEF Opened
<1>10. ChunkInv'
  BY <1>1, <1>3, <1>5, <1>9 DEF ChunkInv
<1> QED BY <1>4, <1>7, <1>8, <1>10 DEF PublishInv

\* The next chunk, or the end of the input.
LEMMA DrainStep ==
  ASSUME IInv, PublishInv, [Next]_vars, DrainPending
  PROVE  PublishInv'
<1>1. /\ pub.input \in 1..MaxRecords /\ pub.chunk \in 1..Len(Output[pub.input])
      /\ Len(Output[pub.input]) \in Nat
      /\ translator # Missing /\ translator \in Seq(Nat) /\ LogInv /\ RootsInv
      /\ pub = [f \in PubFields |-> pub[f]] /\ pub'.input = pub.input
      /\ UNCHANGED <<file, committed, candidates, translator, at>>
  BY Publishing
<1>2. /\ pub.prepared /\ (New => pub.ops = <<>>) /\ UNCHANGED <<log, partial, roots>>
      /\ IF pub.chunk < Len(Output[pub.input])
         THEN pub' = [pub EXCEPT !.chunk = @ + 1, !.prepared = FALSE,
                                 !.ops = Output[pub.input][pub.chunk + 1]]
         ELSE pub' = [pub EXCEPT !.complete = TRUE, !.prepared = FALSE,
                                 !.ops = <<>>]
  BY DEF DrainPending, durable
<1>3. BoundInv'
  BY BoundStep
<1>4. LogInv'
  BY <1>1, <1>2 DEF LogInv
<1>5. RootsInv'
  BY <1>1, <1>2 DEF RootsInv, New
<1>6. ASSUME New
      PROVE  /\ IsNext(file, committed, pub.input) /\ pub.ordinal \in 0..partial
             /\ Prepared(file, committed, pub.input, pub.chunk, pub.ordinal, <<>>, roots)
  BY <1>1, <1>2, <1>6 DEF PublishInv, ChunkInv, Opened
<1>7. CASE pub.chunk < Len(Output[pub.input])
  <2>1. /\ pub'.prepared = FALSE /\ pub'.chunk = pub.chunk + 1 /\ pub'.ordinal = pub.ordinal
        /\ pub'.complete = pub.complete /\ pub'.ops = Output[pub.input][pub.chunk + 1]
    BY <1>1, <1>2, <1>7 DEF PubFields
  <2>2. ~pub.complete
    BY <1>1, <1>7 DEF PublishInv, ChunkInv
  <2>3. pub'.chunk \in 1..Len(Output[pub.input])
    BY <1>1, <1>7, <2>1
  <2>4. ASSUME New PROVE Opened'
    <3>1. pub.ordinal \in Nat /\ committed \in 0..MaxRecords /\ pub.chunk \in Nat
      BY <1>1, <1>6, <2>4, JournalNumbers DEF LogInv, Logged
    <3>2. Unprepared(file, committed, pub.input, pub.chunk + 1, pub.ordinal, roots)
      BY <1>6, <2>4, <3>1, DrainFacts
    <3> QED BY <1>1, <1>2, <1>6, <2>1, <2>2, <2>4, <3>2 DEF Opened
  <2>5. ChunkInv'
    BY <1>1, <2>1, <2>2, <2>3, <2>4 DEF ChunkInv, New
  <2> QED BY <1>3, <1>4, <1>5, <2>5 DEF PublishInv
<1>8. CASE ~(pub.chunk < Len(Output[pub.input]))
  <2>1. /\ pub'.prepared = FALSE /\ pub'.chunk = pub.chunk /\ pub'.ordinal = pub.ordinal
        /\ pub'.complete = TRUE /\ pub'.ops = <<>>
    BY <1>1, <1>2, <1>8 DEF PubFields
  <2>2. pub.chunk = Len(Output[pub.input])
    BY <1>1, <1>8
  <2>3. ASSUME New PROVE Opened'
    BY <1>1, <1>2, <1>6, <2>1, <2>3 DEF Opened
  <2>4. ChunkInv'
    BY <1>1, <2>1, <2>2, <2>3 DEF ChunkInv, New
  <2> QED BY <1>3, <1>4, <1>5, <2>4 DEF PublishInv
<1> QED BY <1>7, <1>8

\* What is published of a record becomes committed with its roots.
LEMMA CommitStep ==
  ASSUME IInv, PublishInv, [Next]_vars, CommitInput
  PROVE  PublishInv'
<1>1. /\ at = "publish" /\ pub.complete
      /\ committed' = Larger(committed, pub.input)
      /\ partial' = (IF New THEN 0 ELSE partial)
      /\ candidates' = (IF New THEN roots ELSE candidates)
      /\ UNCHANGED <<file, log, roots, translator>>
      /\ pub'.input = 0
  BY DEF CommitInput, NoPublication
<1>2. pub.input # 0 /\ translator # Missing
  BY <1>1 DEF IInv, PublishInv, StageInv, RootsInv
<1>3. /\ pub.input \in 1..MaxRecords /\ pub.chunk = Len(Output[pub.input]) /\ pub.ops = <<>>
      /\ (New => Opened)
  BY <1>1, <1>2 DEF PublishInv, ChunkInv
<1>4. /\ committed \in Nat /\ pub.input \in Nat /\ Len(file) \in 0..MaxRecords
      /\ committed \in 0..MaxRecords
  BY JournalNumbers
<1>5. BoundInv' /\ ChunkInv'
  BY <1>1, BoundStep DEF ChunkInv
<1>6. RootsInv'
  BY <1>1, <1>2 DEF PublishInv, RootsInv
<1>7. LogInv'
  <2>1. CASE New
    <3>1. committed' = pub.input /\ partial' = 0 /\ candidates' = roots
      BY <1>1, <1>4, <2>1 DEF New, Larger
    <3>2. /\ IsNext(file, committed, pub.input) /\ pub.ordinal \in 0..partial
          /\ Prepared(file, committed, pub.input, Len(Output[pub.input]), pub.ordinal, <<>>, roots)
      BY <1>1, <1>3, <2>1 DEF Opened
    <3>3. Logged(file, pub.input, log, 0, roots)
      BY <1>3, <1>4, <3>2, CommitLog DEF PublishInv, LogInv
    <3> QED BY <1>1, <3>1, <3>3 DEF LogInv
  <2>2. CASE ~New
    <3>1. committed' = committed /\ partial' = partial /\ candidates' = candidates
      BY <1>1, <1>4, <2>2 DEF New, Larger
    <3> QED BY <1>1, <3>1 DEF PublishInv, LogInv
  <2> QED BY <2>1, <2>2
<1> QED BY <1>5, <1>6, <1>7 DEF PublishInv

\* Every step keeps the log and what is in hand for it.
LEMMA PublishStep ==
  ASSUME IInv, PublishInv, [Next]_vars
  PROVE  PublishInv'
<1>1. BoundInv' /\ RootsInv
  BY BoundStep DEF PublishInv
<1>2. pub.input = 0 => pub = NoPublication
  BY DEF IInv, TypeOK
<1>3. ASSUME UNCHANGED <<committed, log, partial, candidates, pub, roots>>,
             \/ translator' = translator
                /\ (translator = Missing => at' \in {"wait", "open"})
             \/ translator' = Missing /\ pub.input = 0 /\ at' \in {"wait", "open"}
      PROVE  PublishInv'
  BY <1>1, <1>3, Kept, RootsKept DEF PublishInv
<1>4. translator = Missing => at \in {"wait", "open"}
  BY <1>1 DEF RootsInv
<1>5. ASSUME Capture \/ Hand \/ Refuse \/ RecordEvidence \/ UNCHANGED vars
             \/ (\E op \in {"barrier"} \cup Controls : Ask(op))
      PROVE  UNCHANGED <<committed, log, partial, candidates, pub, roots, translator, at>>
  BY <1>5, Zenon DEF Capture, Hand, Dispatch, SendAdvance, Ask, Refuse, RecordEvidence, vars,
                     durable, run, source
<1>6. ASSUME \/ ReceiveAdvance \/ ReceiveBarrier \/ ReceiveControl \/ FinishControl
             \/ ClearEvidence
      PROVE  /\ UNCHANGED <<committed, log, partial, candidates, pub, roots, translator>>
             /\ at' \in {at, "wait", "open"}
  BY <1>6, Zenon DEF ReceiveAdvance, ReceiveBarrier, ReceiveControl, FinishControl, ClearEvidence,
                     Receive, Rest, durable, source, run
<1>7. ASSUME TakeLive \/ ReadNext \/ Reached
      PROVE  /\ UNCHANGED <<committed, log, partial, candidates, pub, roots, translator>>
             /\ at = "input"
  BY <1>7, Zenon DEF TakeLive, ReadNext, Reached, durable, source
<1>8. ASSUME NEW f \in {"delay", "revision"}, Failed(f)
      PROVE  /\ UNCHANGED <<committed, log, partial, candidates, pub, roots, translator>>
             /\ at' = "wait"
  BY <1>8 DEF Failed, Rest, durable
<1>9. CASE Retry
  <2>1. /\ UNCHANGED <<committed, log, partial, candidates, pub, roots>>
        /\ at' = (IF pub = NoPublication THEN "open" ELSE "publish")
        /\ IF pub = NoPublication /\ requested > committed THEN translator' = Missing
           ELSE translator' = translator
    BY <1>9 DEF Retry, durable
  <2>2. NoPublication.input = 0
    BY DEF NoPublication
  <2> QED BY <1>1, <1>2, <1>3, <2>1, <2>2 DEF RootsInv
<1>10. CASE Open
  <2>1. UNCHANGED <<committed, log, partial, candidates, pub>>
    BY <1>10 DEF Open, durable
  <2>2. pub'.input # 0 => roots' = roots
    BY <1>1, <1>10, <2>1 DEF Open, Initialize, RootsInv
  <2> QED BY <1>1, <1>10, <2>1, <2>2, RootsOpen, Kept DEF PublishInv
<1>11. CASE Restart
  <2>1. /\ UNCHANGED <<committed, log, partial, candidates>> /\ pub'.input = 0
        /\ translator' = Missing /\ at' = "wait"
    BY <1>11 DEF Restart, Rest, durable, NoPublication
  <2>2. RootsInv'
    <3>1. <<0>> \in Seq(Nat)
      OBVIOUS
    <3> QED BY <2>1, <3>1 DEF RootsInv, Missing
  <2> QED BY <1>1, <2>1, <2>2, Kept DEF PublishInv
<1>12. ASSUME UNCHANGED <<committed, log, partial, candidates, pub, roots, translator>>,
              at' \in {at, "wait", "open"} \/ at = "input"
       PROVE  PublishInv'
  BY <1>3, <1>4, <1>12
<1> QED BY <1>5, <1>6, <1>7, <1>8, <1>9, <1>10, <1>11, <1>12, FailFacts, HandleStep, PassOverStep,
           PrepareStep, AppendStep, DrainStep, CommitStep DEF Next, Work

\* At first nothing is published.
LEMMA PublishStart == ASSUME Init PROVE PublishInv
<1>1. /\ committed = 0 /\ log = <<>> /\ partial = 0 /\ candidates = NoRoots /\ at = "wait"
      /\ translator = Missing /\ pub.input = 0 /\ Len(file) <= MaxRecords
      /\ Len(file) \in Nat
  BY TranslationAssumption DEF Init, NoPublication
<1>2. Emitted(file, 0) = <<>> /\ 0 \in 0..MaxRecords
  BY EmittedFacts, OutputType
<1>3. Ref(file, 0) = [ready |-> <<>>, pending |-> NoRoots]
  BY <1>2, NoRootsType, StagedEmpty DEF Ref, Alone
<1>4. Logged(file, 0, <<>>, 0, NoRoots)
  <2>1. <<>> \in Seq(Operation) /\ Len(<<>>) = 0
    OBVIOUS
  <2> QED BY <1>3, <2>1 DEF Logged, Begins
<1>5. <<0>> \in Seq(Nat)
  OBVIOUS
<1> QED BY <1>1, <1>4, <1>5 DEF PublishInv, BoundInv, LogInv, RootsInv, ChunkInv, Missing

\* The log and the open publication are, at the start and after every step, those
\* that the translation of the journal calls for.
THEOREM PublishInductive == Spec => [](IInv /\ PublishInv)
<1>1. Init => IInv /\ PublishInv
  BY Start, PublishStart
<1>2. IInv /\ PublishInv /\ [Next]_vars => IInv' /\ PublishInv'
  BY PublishStep, TypeStep, ReachStep, StageStep, BehindStep, AnswerStep, FaultsStep DEF IInv
<1> QED BY <1>1, <1>2, PTL DEF Spec

\* The beginning of a sequence, as the library cuts it.
LEMMA BeginsPrefix ==
  ASSUME NEW s \in Seq(Operation), NEW t \in Seq(Operation), Begins(s, t)
  PROVE  IsPrefix(s, t) /\ SubSeq(t, 1, Len(s)) = s
<1> HIDE DEF Operation
<1>1. Len(s) <= Len(t) /\ \A k \in 1..Len(s) : s[k] = t[k]
  BY DEF Begins
<1>2. SubSeq(t, 1, Len(s)) = s
  BY <1>1
<1>3. IsPrefix(s, t)
  BY <1>1, <1>2 DEF IsPrefix
<1> QED BY <1>2, <1>3

\* Whatever fails and is retried, what is published is the translation of the
\* committed records, each operation once and in order, and the roots held back
\* beside it are those of that translation; beyond it there is only a prefix of
\* what the next input comes to, and what was emitted for a held root before its
\* first child comes before that child.
THEOREM PublishesTranslation == Spec => []LogIsTranslation
<1>1. IInv /\ PublishInv => LogIsTranslation
  <2> SUFFICES ASSUME IInv, PublishInv PROVE LogIsTranslation
    OBVIOUS
  <2> DEFINE r == Ref(file, committed)
  <2>1. /\ Len(file) \in 0..MaxRecords /\ committed \in 0..MaxRecords /\ committed \in Nat
        /\ committed \in 0..Len(file) /\ Len(file) \in Nat /\ MaxRecords \in Nat
    BY JournalNumbers
  <2>2. /\ log \in Seq(Operation) /\ partial \in Nat /\ candidates = r.pending
        /\ Begins(r.ready, log) /\ Len(log) = Len(r.ready) + partial
    BY DEF PublishInv, LogInv, Logged
  <2>3. r.ready \in Seq(Operation) /\ Len(r.ready) \in Nat
    BY <2>1, RefType
  <2>4. \A n : Reference(n) = Ref(file, n)
    BY DEF Reference, Ref
  <2> HIDE DEF r
  <2>5. SubSeq(log, 1, Len(log) - partial) = r.ready
    <3>1. Len(log) - partial = Len(r.ready)
      BY <2>2, <2>3
    <3> QED BY <2>2, <2>3, <3>1, BeginsPrefix
  <2>6. PICK n \in committed..Len(file) : Begins(log, Ref(file, n).ready)
    <3>1. CASE partial = 0
      <4>1. Len(log) = Len(r.ready)
        BY <2>2, <2>3, <3>1
      <4>2. Begins(log, r.ready)
        BY <2>2, <4>1 DEF Begins
      <4> QED BY <2>1, <4>2 DEF r
    <3>2. CASE partial # 0
      <4>1. PICK p \in 1..Len(file) :
              IsNext(file, committed, p) /\ Begins(log, Ref(file, p).ready)
        BY <3>2 DEF PublishInv, LogInv, Logged
      <4>2. p \in committed..Len(file)
        BY <2>1, <4>1 DEF IsNext
      <4> QED BY <4>1, <4>2
    <3> QED BY <3>1, <3>2
  <2>7. n \in 0..MaxRecords
    BY <2>1
  <2>8. Ref(file, n).ready \in Seq(Operation)
    BY <2>7, RefType
  <2>9. IsPrefix(log, Reference(n).ready)
    BY <2>2, <2>4, <2>6, <2>8, BeginsPrefix
  <2>10. RootBeforeChildren
    <3>1. RootsFirst(Ref(file, n).ready)
      BY <2>7, ReferenceRootsFirst DEF Ref
    <3>2. RootsFirst(log)
      BY <2>2, <2>6, <2>8, <3>1, RootsFirstBegins
    <3> QED BY <3>2 DEF RootsFirst, RootBeforeChildren
  <2> QED BY <2>2, <2>4, <2>5, <2>6, <2>9, <2>10 DEF LogIsTranslation, r
<1> QED BY <1>1, PublishInductive, PTL
-----------------------------------------------------------------------------
(* What a translator has handled.                                          *)

\* A translator has handled s of the first e records.
HandledTo(s, journal, e) ==
  /\ \A j, k \in 1..Len(s) : j < k => s[j] < s[k]
  /\ \A k \in 1..Len(s) : s[k] \in 1..e
  /\ {p \in ToSet(s) : journal[p] # "retire"} =
       {p \in 1..e : journal[p] \in {"event", "checkpoint"}}

\* A new translator has handled nothing.
LEMMA HandledNone ==
  ASSUME NEW journal
  PROVE  HandledTo(<<>>, journal, 0)
<1>1. Len(<<>>) = 0 /\ ToSet(<<>>) = {}
  BY DEF ToSet
<1> QED BY <1>1 DEF HandledTo

\* What is appended to a journal leaves what was handled of it.
LEMMA HandledGrows ==
  ASSUME NEW journal, NEW longer, NEW e \in Nat, \A p \in 1..e : longer[p] = journal[p],
         NEW s \in Seq(Nat), HandledTo(s, journal, e)
  PROVE  HandledTo(s, longer, e)
<1>1. ToSet(s) \subseteq 1..e
  BY DEF HandledTo, ToSet
<1>2. {p \in ToSet(s) : longer[p] # "retire"} = {p \in ToSet(s) : journal[p] # "retire"}
  BY <1>1
<1>3. {p \in 1..e : longer[p] \in {"event", "checkpoint"}}
        = {p \in 1..e : journal[p] \in {"event", "checkpoint"}}
  OBVIOUS
<1> QED BY <1>2, <1>3 DEF HandledTo

\* A record that does not shape the translator is passed over.
LEMMA HandledSkips ==
  ASSUME NEW journal, NEW e \in Nat, journal[e + 1] \notin {"event", "checkpoint"},
         NEW s \in Seq(Nat), HandledTo(s, journal, e)
  PROVE  HandledTo(s, journal, e + 1)
<1>1. \A p \in 1..e + 1 : p \in 1..e \/ p = e + 1
  OBVIOUS
<1>2. {p \in 1..e + 1 : journal[p] \in {"event", "checkpoint"}}
        = {p \in 1..e : journal[p] \in {"event", "checkpoint"}}
  BY <1>1
<1> QED BY <1>2 DEF HandledTo

\* The next record is handled.
LEMMA HandledNext ==
  ASSUME NEW journal, NEW e \in Nat, journal[e + 1] \in {"event", "checkpoint", "retire"},
         NEW s \in Seq(Nat), HandledTo(s, journal, e)
  PROVE  HandledTo(Append(s, e + 1), journal, e + 1)
<1> DEFINE t == Append(s, e + 1)
<1>1. /\ t \in Seq(Nat) /\ Len(t) = Len(s) + 1 /\ t[Len(s) + 1] = e + 1 /\ Len(s) \in Nat
      /\ \A k \in 1..Len(s) : t[k] = s[k]
  OBVIOUS
<1>2. DOMAIN s = 1..Len(s) /\ DOMAIN t = 1..Len(t)
  BY <1>1
<1> HIDE DEF t
<1>3. ToSet(t) = ToSet(s) \cup {e + 1}
  <2>1. ToSet(s) = {s[k] : k \in 1..Len(s)} /\ ToSet(t) = {t[k] : k \in 1..Len(t)}
    BY <1>2 DEF ToSet
  <2>2. ASSUME NEW k \in 1..Len(t) PROVE t[k] \in ToSet(s) \cup {e + 1}
    <3>1. k \in 1..Len(s) \/ k = Len(s) + 1
      BY <1>1
    <3> QED BY <1>1, <2>1, <3>1
  <2>3. ASSUME NEW k \in 1..Len(s) PROVE s[k] \in ToSet(t)
    <3>1. k \in 1..Len(t) /\ t[k] = s[k]
      BY <1>1
    <3> QED BY <2>1, <3>1
  <2>4. e + 1 \in ToSet(t)
    <3>1. Len(s) + 1 \in 1..Len(t) /\ t[Len(s) + 1] = e + 1
      BY <1>1
    <3> QED BY <2>1, <3>1
  <2>5. ToSet(t) \subseteq ToSet(s) \cup {e + 1}
    BY <2>1, <2>2
  <2>6. ToSet(s) \subseteq ToSet(t)
    BY <2>1, <2>3
  <2> QED BY <2>4, <2>5, <2>6
<1>4. /\ \A k \in 1..Len(s) : s[k] \in 1..e
      /\ \A j, k \in 1..Len(s) : j < k => s[j] < s[k]
  BY DEF HandledTo
<1>5. ASSUME NEW j \in 1..Len(t), NEW k \in 1..Len(t), j < k PROVE t[j] < t[k]
  <2>0. j \in 1..Len(s) + 1 /\ k \in 1..Len(s) + 1 /\ j < k /\ Len(s) \in Nat
    <3>1. Len(t) = Len(s) + 1 /\ Len(s) \in Nat
      BY <1>1
    <3> QED BY <1>5, <3>1
  <2>1. j \in 1..Len(s) /\ (k \in 1..Len(s) \/ k = Len(s) + 1)
    BY <2>0
  <2>2. CASE k \in 1..Len(s)
    BY <1>1, <1>4, <1>5, <2>1, <2>2
  <2>3. CASE k = Len(s) + 1
    <3>1. s[j] \in 1..e /\ t[j] = s[j] /\ t[k] = e + 1
      BY <1>1, <1>4, <2>1, <2>3
    <3> QED BY <3>1
  <2> QED BY <2>1, <2>2, <2>3
<1>6. ASSUME NEW k \in 1..Len(t) PROVE t[k] \in 1..e + 1
  <2>1. k \in 1..Len(s) \/ k = Len(s) + 1
    BY <1>1
  <2>2. 1..e \subseteq 1..e + 1 /\ e + 1 \in 1..e + 1
    OBVIOUS
  <2> QED BY <1>1, <1>4, <2>1, <2>2
<1>7. {p \in ToSet(t) : journal[p] # "retire"}
        = {p \in 1..e + 1 : journal[p] \in {"event", "checkpoint"}}
  <2>1. {p \in ToSet(s) : journal[p] # "retire"}
          = {p \in 1..e : journal[p] \in {"event", "checkpoint"}}
    BY DEF HandledTo
  <2>2. \A p : p \in 1..e + 1 <=> p \in 1..e \/ p = e + 1
    OBVIOUS
  <2> QED BY <1>3, <2>1, <2>2
<1> QED BY <1>5, <1>6, <1>7 DEF HandledTo, t

\* The last record that the translator of this producer was given.
End == IF pub.input = 0 THEN position ELSE pub.input

\* The record in hand and the one being published are the next ones, and the
\* reader follows the translator, or the translator is given up.
NextInv ==
  translator # Missing =>
    /\ at = "record" => taken = position + 1
    /\ pub.input # 0 => pub.input = position + 1 /\ reader \in {NoReader, pub.input}
    /\ \/ at = "record" \/ pub.input # 0 \/ reader \in {NoReader, position}
       \/ fail = "delay" /\ requested > committed
       \/ fail = "revision"

HandledInv == translator # Missing => HandledTo(translator, file, End)

HistoryInv == NextInv /\ HandledInv

\* The record in hand is handled, or passed over.
LEMMA HistoryRecord ==
  ASSUME IInv, PublishInv, HistoryInv, Handle \/ PassOver
  PROVE  HistoryInv'
<1>1. /\ at = "record" /\ file' = file /\ (Handle => Translated(taken))
      /\ UNCHANGED <<reader, fail, requested>> /\ at' \in {"publish", "input"}
  BY Zenon DEF Handle, PassOver, durable, inputs, failing
<1>2. /\ pub.input = 0 /\ translator # Missing /\ translator \in Seq(Nat)
      /\ reader \in {taken, NoReader} /\ file \in Seq(Kinds)
  BY <1>1 DEF IInv, PublishInv, StageInv, RootsInv, TypeOK
<1>3. /\ position \in Nat /\ taken = position + 1 /\ End = position
      /\ HandledTo(translator, file, position) /\ taken \in 1..Len(file)
  BY <1>1, <1>2, JournalNumbers DEF HistoryInv, NextInv, HandledInv, End
<1>4. file[taken] \in Kinds
  BY <1>2, <1>3
<1>5. CASE Handle
  <2>1. /\ translator' = Append(translator, taken) /\ pub'.input = taken
        /\ position' = position
    BY <1>5 DEF Handle, NoPublication
  <2>2. file[position + 1] \in {"event", "checkpoint", "retire"}
    BY <1>1, <1>3, <1>5 DEF Translated
  <2>3. HandledTo(Append(translator, taken), file, taken)
    BY <1>2, <1>3, <2>2, HandledNext
  <2>4. pub'.input # 0 /\ at' = "publish"
    BY <1>3, <1>5, <2>1 DEF Handle
  <2>5. HandledInv'
    <3>1. End' = taken
      BY <2>1, <2>4 DEF End
    <3> QED BY <1>1, <2>1, <2>3, <3>1 DEF HandledInv
  <2>6. NextInv'
    BY <1>1, <1>2, <1>3, <2>1, <2>4 DEF NextInv
  <2> QED BY <2>5, <2>6 DEF HistoryInv
<1>6. CASE PassOver
  <2>1. /\ translator' = translator /\ pub' = pub /\ position' = taken /\ ~Translated(taken)
        /\ at' = "input"
    BY <1>6 DEF PassOver
  <2>2. file[position + 1] \notin {"event", "checkpoint"}
    BY <1>3, <2>1 DEF Translated
  <2>3. HandledTo(translator, file, taken)
    BY <1>2, <1>3, <2>2, HandledSkips
  <2>4. HandledInv'
    <3>1. End' = taken
      BY <1>2, <2>1 DEF End
    <3> QED BY <1>1, <2>1, <2>3, <3>1 DEF HandledInv
  <2>5. NextInv'
    BY <1>1, <1>2, <2>1 DEF NextInv
  <2> QED BY <2>4, <2>5 DEF HistoryInv
<1> QED BY <1>5, <1>6

\* The translator and where it is are left alone.
LEMMA HandledKept ==
  ASSUME IInv, PublishInv, HistoryInv, [Next]_vars,
         translator' = Missing \/ (translator' = translator /\ End' = End)
  PROVE  HandledInv'
<1> SUFFICES ASSUME translator' # Missing PROVE HandledInv'
  BY DEF HandledInv
<1>1. HandledTo(translator, file, End) /\ translator \in Seq(Nat)
  BY DEF HistoryInv, HandledInv, PublishInv, RootsInv
<1>2. \A p \in 1..Len(file) : file'[p] = file[p]
  BY JournalStep DEF IInv
<1>3. End \in Nat /\ \A p \in 1..End : p \in 1..Len(file)
  BY JournalNumbers DEF End
<1>4. HandledTo(translator, file', End)
  BY <1>1, <1>2, <1>3, HandledGrows
<1> QED BY <1>4 DEF HandledInv

\* Opening, with the translator there is or a new one.
LEMMA HistoryOpen ==
  ASSUME IInv, PublishInv, HistoryInv, [Next]_vars, Open
  PROVE  HistoryInv'
<1>1. /\ at = "open" /\ at' = "input" /\ UNCHANGED <<file, fail, requested, committed, pub>>
      /\ translator' = (IF translator = Missing THEN <<>> ELSE translator)
      /\ position' = (IF translator = Missing THEN 0 ELSE position)
      /\ reader' = (IF translator # Missing THEN reader ELSE IF committed > 0 THEN 0 ELSE NoReader)
  BY DEF Open, Initialize, durable, inputs, failing
<1>2. pub.input = 0 /\ at' # "record"
  BY <1>1 DEF IInv, StageInv
<1>3. CASE translator = Missing
  <2>1. HandledInv'
    <3>1. translator' = <<>> /\ End' = 0 /\ HandledTo(<<>>, file', 0)
      BY <1>1, <1>2, <1>3, HandledNone DEF End
    <3> QED BY <3>1 DEF HandledInv
  <2>2. NextInv'
    BY <1>1, <1>2, <1>3 DEF NextInv
  <2> QED BY <2>1, <2>2 DEF HistoryInv
<1>4. CASE translator # Missing
  <2>1. translator' = translator /\ End' = End
    BY <1>1, <1>2, <1>4 DEF End
  <2>2. NextInv'
    BY <1>1, <1>2, <1>4 DEF HistoryInv, NextInv
  <2> QED BY <2>1, <2>2, HandledKept DEF HistoryInv
<1> QED BY <1>3, <1>4

\* The next record is taken from the window or read.
LEMMA NextTaken ==
  ASSUME IInv, HistoryInv, TakeLive \/ ReadNext
  PROVE  NextInv' /\ translator' = translator /\ End' = End
<1>1. /\ at = "input" /\ at' = "record" /\ UNCHANGED <<translator, position, pub>>
  BY Zenon DEF TakeLive, ReadNext
<1>2. pub.input = 0 /\ fail = "none"
  BY <1>1 DEF IInv, StageInv
<1>3. translator # Missing => taken' = position + 1
  <2>1. CASE TakeLive
    BY <2>1 DEF TakeLive, Live
  <2>2. CASE ReadNext
    <3>1. translator # Missing => reader \in {NoReader, position}
      BY <1>1, <1>2 DEF HistoryInv, NextInv
    <3>2. taken' = Following
      BY <2>2 DEF ReadNext
    <3> QED BY <3>1, <3>2 DEF Following
  <2> QED BY <2>1, <2>2
<1> QED BY <1>1, <1>2, <1>3 DEF NextInv, End

\* A failure leaves a reader ahead of its translator only if the translator is
\* given up before work goes on.
LEMMA NextFails ==
  ASSUME ReplayMayFail = FALSE, IInv, HistoryInv, StorageFails \/ TranslatorFails
  PROVE  NextInv'
<1>1. PICK f \in {"delay", "revision"} : Failed(f)
  BY FailFacts
<1>2. /\ UNCHANGED <<translator, reader, position, pub, requested, committed>>
      /\ at' = "wait" /\ fail' \in {"delay", "revision"}
  BY <1>1 DEF Failed, Rest, durable, inputs
<1>3. at = "record" => reader \in {taken, NoReader}
  BY DEF IInv, StageInv
<1>4. at # "wait"
  BY Zenon DEF StorageFails, TranslatorFails
<1>5. fail = "none"
  BY <1>4 DEF IInv, StageInv
<1>6. ASSUME at = "record" PROVE reader = NoReader \/ requested > committed \/ fail' = "revision"
  <2>1. CASE StorageFails
    <3>1. reader # NoReader /\ requested <= committed => ReplayMayFail
      BY <1>6, <2>1 DEF StorageFails
    <3>2. requested \in Nat /\ committed \in Nat
      BY Numbers DEF IInv
    <3> QED BY <3>1, <3>2
  <2>2. CASE TranslatorFails
    BY <2>2 DEF TranslatorFails, Failed
  <2> QED BY <2>1, <2>2
<1> QED BY <1>2, <1>5, <1>6 DEF HistoryInv, NextInv

\* Every step keeps what the translator has handled.
LEMMA HistoryStep ==
  ASSUME ReplayMayFail = FALSE, IInv, PublishInv, HistoryInv, [Next]_vars
  PROVE  HistoryInv'
<1>1. /\ StageInv /\ requested \in Nat /\ committed \in Nat /\ requested' \in Nat
      /\ committed' \in Nat /\ position \in Nat /\ pub.input \in Nat
      /\ requested <= requested' \/ Restart
  BY RequestsGrow, TypeStep, Numbers, ReachStepNumbers DEF IInv
<1>2. ASSUME UNCHANGED <<translator, reader, position, pub, fail, committed>>,
             (at' # "record" /\ at # "record") \/ UNCHANGED <<at, taken>>, ~Restart
      PROVE  HistoryInv'
  <2>1. HandledInv'
    BY <1>2, HandledKept DEF End
  <2>2. NextInv'
    BY <1>1, <1>2 DEF HistoryInv, NextInv
  <2> QED BY <2>1, <2>2 DEF HistoryInv
<1>3. CASE Restart
  <2>1. translator' = Missing
    BY <1>3 DEF Restart
  <2> QED BY <2>1 DEF HistoryInv, NextInv, HandledInv
<1>4. CASE ~Restart
  <2>1. ASSUME Capture \/ Hand \/ Refuse \/ RecordEvidence \/ UNCHANGED vars
               \/ (\E op \in {"barrier"} \cup Controls : Ask(op))
        PROVE  UNCHANGED <<translator, reader, position, pub, fail, committed, at, taken>>
    BY <2>1, Zenon DEF Capture, Hand, Dispatch, SendAdvance, Ask, Refuse, RecordEvidence, vars,
                       durable, run, source, failing
  <2>2. ASSUME \/ ReceiveAdvance \/ ReceiveBarrier \/ ReceiveControl \/ FinishControl
               \/ ClearEvidence \/ Reached
        PROVE  /\ UNCHANGED <<translator, reader, position, pub, fail, committed>>
               /\ at \in {"wait", "control", "clear", "input"}
               /\ at' \in {at, "wait", "open", "control", "clear"}
    BY <2>2, Zenon DEF ReceiveAdvance, ReceiveBarrier, ReceiveControl, FinishControl,
                       ClearEvidence, Reached, Receive, Rest, durable, source, run, failing
  <2>3. CASE TakeLive \/ ReadNext
    BY <2>3, NextTaken, HandledKept DEF HistoryInv
  <2>4. CASE StorageFails \/ TranslatorFails
    <3>1. PICK f \in {"delay", "revision"} : Failed(f)
      BY <2>4, FailFacts
    <3>2. UNCHANGED <<translator, position, pub>>
      BY <3>1 DEF Failed
    <3> QED BY <2>4, <3>2, NextFails, HandledKept DEF HistoryInv, End
  <2>5. CASE Retry
    <3>1. /\ UNCHANGED <<committed, pub, requested>> /\ fail = "delay" /\ at' # "record"
          /\ at = "wait"
          /\ IF pub = NoPublication /\ requested > committed THEN translator' = Missing
             ELSE UNCHANGED <<translator, reader, position>>
      BY <2>5 DEF Retry, durable, inputs
    <3>2. pub.input = 0 => pub = NoPublication
      BY DEF IInv, TypeOK
    <3>3. NextInv'
      BY <3>1, <3>2 DEF HistoryInv, NextInv
    <3>4. translator' = Missing \/ (translator' = translator /\ End' = End)
      BY <3>1 DEF End
    <3> QED BY <3>3, <3>4, HandledKept DEF HistoryInv
  <2>6. CASE PrepareChunk \/ AppendOp \/ DrainPending
    <3>1. pub'.input = pub.input /\ pub.input # 0
      BY <2>6, OutputType, Publishing
    <3>2. UNCHANGED <<translator, reader, position, fail, at, taken>> /\ at = "publish"
      BY <2>6, Zenon DEF PrepareChunk, AppendOp, DrainPending, source, failing, run
    <3>3. NextInv'
      BY <3>1, <3>2 DEF HistoryInv, NextInv
    <3> QED BY <3>1, <3>2, <3>3, HandledKept DEF HistoryInv, End
  <2>7. CASE CommitInput
    <3>1. /\ at = "publish" /\ at' \in {"open", "input"} /\ UNCHANGED <<translator, reader, fail>>
          /\ position' = pub.input /\ pub'.input = 0
      BY <2>7 DEF CommitInput, NoPublication, failing
    <3>2. pub.input # 0
      BY <1>1, <3>1 DEF StageInv
    <3>3. NextInv'
      BY <3>1, <3>2 DEF HistoryInv, NextInv
    <3> QED BY <3>1, <3>2, <3>3, HandledKept DEF HistoryInv, End
  <2>8. ASSUME UNCHANGED <<translator, reader, position, pub, fail, committed, at, taken>>
        PROVE  HistoryInv'
    BY <1>2, <1>4, <2>8
  <2>9. ASSUME \/ ReceiveAdvance \/ ReceiveBarrier \/ ReceiveControl \/ FinishControl
               \/ ClearEvidence \/ Reached
        PROVE  HistoryInv'
    <3>1. at' # "record" /\ at # "record"
      BY <2>2, <2>9
    <3> QED BY <1>2, <1>4, <2>2, <2>9, <3>1
  <2> QED BY <1>4, <2>1, <2>3, <2>4, <2>5, <2>6, <2>7, <2>8, <2>9, HistoryOpen, HistoryRecord
          DEF Next, Work
<1> QED BY <1>3, <1>4

\* "Replaying a journal MUST converge on the same logical spans": unless the
\* storage fails while a control rebuilds the translator, a translator has handled
\* the records of its journal up to the position in their order, none skipped
\* and none twice, whatever fails, is retried or is rebuilt.
THEOREM HandlesExactly == ASSUME ReplayMayFail = FALSE PROVE Spec => []ExactHistory
<1>1. Init => IInv /\ PublishInv /\ HistoryInv
  <2>1. Init => translator = Missing
    BY DEF Init
  <2> QED BY <2>1, Start, PublishStart DEF HistoryInv, NextInv, HandledInv
<1>2. IInv /\ PublishInv /\ HistoryInv /\ [Next]_vars => IInv' /\ PublishInv' /\ HistoryInv'
  BY HistoryStep, PublishStep, TypeStep, ReachStep, StageStep, BehindStep, AnswerStep, FaultsStep
     DEF IInv
<1>3. IInv /\ PublishInv /\ HistoryInv => ExactHistory
  <2> SUFFICES ASSUME IInv, PublishInv, HistoryInv, translator # Missing PROVE ExactHistory
    BY DEF ExactHistory
  <2>1. HandledTo(translator, file, End) /\ translator \in Seq(Nat)
    BY DEF HistoryInv, HandledInv, PublishInv, RootsInv
  <2>2. End = IF pub = NoPublication THEN position ELSE pub.input
    BY DEF End, IInv, TypeOK, NoPublication
  <2>3. DOMAIN translator = 1..Len(translator)
    BY <2>1
  <2> HIDE DEF End
  <2> QED BY <2>1, <2>2, <2>3 DEF HandledTo, ExactHistory, Shaping
<1> QED BY <1>1, <1>2, <1>3, PTL DEF Spec
=============================================================================
