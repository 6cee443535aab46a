-------------------------------- MODULE Sums --------------------------------
(***************************************************************************)
(* The laws of SumFunctionOnSet(f, S) over finite sets, which sums up what *)
(* the budgets of src/cf_h2.rs are charged with.  Functions defines it by  *)
(* recursion over the subsets of S; here a sum is shown to be the number   *)
(* of the cells of a bar chart, one bar of f[x] cells for each x, and its  *)
(* laws are those of cardinalities.                                        *)
(***************************************************************************)
EXTENDS Integers, Sequences, FiniteSets, Functions, FiniteSetTheorems,
        WellFoundedInduction, TLAPS

\* The cells of the chart, and that f has a natural number for each of S.
Bar(f, x) == {x} \X (1..f[x])
Cells(f, S) == UNION {Bar(f, x) : x \in S}
Summable(f, S) == \A x \in S : f[x] \in Nat

-----------------------------------------------------------------------------
(* The cells.                                                               *)

LEMMA BarFacts ==
  ASSUME NEW f, NEW x, f[x] \in Nat
  PROVE  IsFiniteSet(Bar(f, x)) /\ Cardinality(Bar(f, x)) = f[x]
<1>1. IsFiniteSet({x}) /\ Cardinality({x}) = 1
  BY FS_Singleton
<1>2. 1 \in Int /\ f[x] \in Int
  OBVIOUS
<1>3. IsFiniteSet(1..f[x])
  BY <1>2, FS_Interval
<1>4. Cardinality(1..f[x]) = f[x]
  <2>1. Cardinality(1..f[x]) = IF 1 > f[x] THEN 0 ELSE f[x] - 1 + 1
    BY <1>2, FS_Interval
  <2> QED
    BY <2>1
<1>5. /\ IsFiniteSet({x} \X (1..f[x]))
      /\ Cardinality({x} \X (1..f[x])) = Cardinality({x}) * Cardinality(1..f[x])
  BY <1>1, <1>3, FS_Product
<1> QED
  BY <1>1, <1>4, <1>5 DEF Bar

LEMMA CellsFinite ==
  ASSUME NEW f, NEW S, IsFiniteSet(S), Summable(f, S)
  PROVE  IsFiniteSet(Cells(f, S)) /\ Cardinality(Cells(f, S)) \in Nat
<1> DEFINE B == {Bar(f, x) : x \in S}
<1>1. IsFiniteSet(B)
  <2> DEFINE g == [x \in S |-> Bar(f, x)]
  <2>1. g \in Surjection(S, B)
    BY DEF Surjection
  <2> QED
    BY <2>1, FS_Surjection
<1>2. \A T \in B : IsFiniteSet(T)
  BY BarFacts DEF Summable
<1>3. IsFiniteSet(UNION B)
  BY <1>1, <1>2, FS_UNION
<1> QED
  BY <1>3, FS_CardinalityType DEF Cells

\* A bar more: its cells are apart from the others.
LEMMA CellsAdd ==
  ASSUME NEW f, NEW S, IsFiniteSet(S), Summable(f, S), NEW x \in S
  PROVE  Cardinality(Cells(f, S)) = f[x] + Cardinality(Cells(f, S \ {x}))
<1>1. IsFiniteSet(S \ {x}) /\ Summable(f, S \ {x})
  BY FS_RemoveElement DEF Summable
<1>2. Cells(f, S) = Bar(f, x) \cup Cells(f, S \ {x})
  BY DEF Cells
<1>3. Bar(f, x) \cap Cells(f, S \ {x}) = {}
  BY DEF Cells, Bar
<1>4. IsFiniteSet(Bar(f, x)) /\ Cardinality(Bar(f, x)) = f[x] /\ f[x] \in Nat
  BY BarFacts DEF Summable
<1>5. /\ IsFiniteSet(Cells(f, S \ {x}))
      /\ Cardinality(Cells(f, S \ {x})) \in Nat
  BY <1>1, CellsFinite
<1>6. Cardinality(Bar(f, x) \cup Cells(f, S \ {x}))
        = Cardinality(Bar(f, x)) + Cardinality(Cells(f, S \ {x}))
            - Cardinality(Bar(f, x) \cap Cells(f, S \ {x}))
  BY <1>4, <1>5, FS_Union
<1>7. Cardinality(Bar(f, x) \cap Cells(f, S \ {x})) = 0
  BY <1>3, FS_EmptySet
<1> QED
  BY <1>2, <1>4, <1>5, <1>6, <1>7

-----------------------------------------------------------------------------
(* The recursion.                                                           *)

\* g sums up every subset of S, by the recursion of MapThenFoldSet.
Adds(f, S, g) ==
  g = [s \in SUBSET S |->
         IF s = {} THEN 0
         ELSE LET x == CHOOSE y \in s : TRUE IN f[x] + g[s \ {x}]]

LEMMA CellsAddUp ==
  ASSUME NEW f, NEW S, IsFiniteSet(S), Summable(f, S)
  PROVE  Adds(f, S, [s \in SUBSET S |-> Cardinality(Cells(f, s))])
<1> DEFINE g == [s \in SUBSET S |-> Cardinality(Cells(f, s))]
<1> SUFFICES ASSUME NEW s \in SUBSET S
             PROVE  Cardinality(Cells(f, s)) =
                      IF s = {} THEN 0
                      ELSE LET x == CHOOSE y \in s : TRUE IN f[x] + g[s \ {x}]
  BY DEF Adds
<1>1. CASE s = {}
  <2>1. Cells(f, s) = {}
    BY <1>1 DEF Cells
  <2> QED
    BY <1>1, <2>1, FS_EmptySet
<1>2. CASE s # {}
  <2> DEFINE x == CHOOSE y \in s : TRUE
  <2>1. x \in s
    BY <1>2
  <2>2. IsFiniteSet(s) /\ Summable(f, s)
    BY FS_Subset DEF Summable
  <2>3. g[s \ {x}] = Cardinality(Cells(f, s \ {x}))
    OBVIOUS
  <2> HIDE DEF x
  <2>4. Cardinality(Cells(f, s)) = f[x] + Cardinality(Cells(f, s \ {x}))
    BY <2>1, <2>2, CellsAdd
  <2> QED
    BY <1>2, <2>3, <2>4 DEF x
<1> QED
  BY <1>1, <1>2

\* The recursion has one solution: a smallest set for which two of them differ
\* would have a smaller one.
LEMMA AddsOneWay ==
  ASSUME NEW f, NEW S, IsFiniteSet(S), NEW g, NEW h, Adds(f, S, g), Adds(f, S, h)
  PROVE  \A s \in SUBSET S : g[s] = h[s]
<1> DEFINE D == {s \in SUBSET S : g[s] # h[s]}
<1> SUFFICES ASSUME D # {} PROVE FALSE
  OBVIOUS
<1>1. D \subseteq FiniteSubsetsOf(S)
  BY FS_Subset DEF FiniteSubsetsOf
<1>2. IsWellFoundedOn(StrictSubsetOrdering(S), FiniteSubsetsOf(S))
  BY FS_StrictSubsetOrderingWellFounded
<1>3. PICK s \in D : \A t \in D : <<t, s>> \notin StrictSubsetOrdering(S)
  <2> HIDE DEF D
  <2> QED
    BY <1>1, <1>2, WFMin, Zenon
<1>4. s # {}
  BY DEF Adds
<1> DEFINE x == CHOOSE y \in s : TRUE
<1>5. x \in s
  BY <1>4
<1>6. g[s] = f[x] + g[s \ {x}] /\ h[s] = f[x] + h[s \ {x}]
  <2> g[s] = IF s = {} THEN 0
             ELSE LET z == CHOOSE y \in s : TRUE IN f[z] + g[s \ {z}]
    BY DEF Adds
  <2> h[s] = IF s = {} THEN 0
             ELSE LET z == CHOOSE y \in s : TRUE IN f[z] + h[s \ {z}]
    BY DEF Adds
  <2> QED
    BY <1>4
<1>7. s \ {x} \in D
  BY <1>6
<1>8. <<s \ {x}, s>> \in StrictSubsetOrdering(S)
  BY <1>5 DEF StrictSubsetOrdering
<1> QED
  BY <1>3, <1>7, <1>8

\* A sum is the number of its cells, whatever the order of the summands.
LEMMA SumIsCells ==
  ASSUME NEW f, NEW S, IsFiniteSet(S), Summable(f, S)
  PROVE  SumFunctionOnSet(f, S) = Cardinality(Cells(f, S))
<1> DEFINE g == CHOOSE r : Adds(f, S, r)
<1>1. Adds(f, S, g)
  BY CellsAddUp
<1>2. SumFunctionOnSet(f, S) = g[S]
  BY DEF SumFunctionOnSet, FoldFunctionOnSet, MapThenFoldSet, Adds
<1> DEFINE h == [s \in SUBSET S |-> Cardinality(Cells(f, s))]
<1>3. Adds(f, S, h)
  BY CellsAddUp
<1>4. h[S] = Cardinality(Cells(f, S))
  OBVIOUS
<1>5. g[S] = h[S]
  <2> HIDE DEF g, h
  <2>1. \A s \in SUBSET S : g[s] = h[s]
    BY <1>1, <1>3, AddsOneWay
  <2> QED
    BY <2>1
<1> QED
  BY <1>2, <1>4, <1>5

-----------------------------------------------------------------------------
(* The laws.                                                                *)

LEMMA SumType ==
  ASSUME NEW f, NEW S, IsFiniteSet(S), Summable(f, S)
  PROVE  SumFunctionOnSet(f, S) \in Nat
BY SumIsCells, CellsFinite

\* One summand more, or less.
LEMMA SumAdd ==
  ASSUME NEW f, NEW S, IsFiniteSet(S), Summable(f, S), NEW x \in S
  PROVE  SumFunctionOnSet(f, S) = f[x] + SumFunctionOnSet(f, S \ {x})
<1>1. IsFiniteSet(S \ {x}) /\ Summable(f, S \ {x})
  BY FS_RemoveElement DEF Summable
<1> QED
  BY <1>1, SumIsCells, CellsAdd

LEMMA SumNothing ==
  ASSUME NEW f
  PROVE  SumFunctionOnSet(f, {}) = 0
<1>1. IsFiniteSet({}) /\ Summable(f, {})
  BY FS_EmptySet DEF Summable
<1>2. Cells(f, {}) = {}
  BY DEF Cells
<1> QED
  BY <1>1, <1>2, SumIsCells, FS_EmptySet

\* A sum depends on the values of its summands alone.
LEMMA SumSame ==
  ASSUME NEW f, NEW g, NEW S, IsFiniteSet(S), Summable(f, S),
         \A x \in S : g[x] = f[x]
  PROVE  SumFunctionOnSet(g, S) = SumFunctionOnSet(f, S)
<1>1. Summable(g, S)
  BY DEF Summable
<1>2. \A x \in S : Bar(g, x) = Bar(f, x)
  BY DEF Bar
<1>3. Cells(g, S) = Cells(f, S)
  BY <1>2 DEF Cells
<1> QED
  BY <1>1, <1>3, SumIsCells

\* One summand changes.
LEMMA SumChange ==
  ASSUME NEW f, NEW g, NEW S, IsFiniteSet(S), Summable(f, S), NEW x \in S,
         g[x] \in Nat, \A y \in S \ {x} : g[y] = f[y]
  PROVE  SumFunctionOnSet(g, S) = SumFunctionOnSet(f, S) - f[x] + g[x]
<1>1. IsFiniteSet(S \ {x}) /\ Summable(f, S \ {x}) /\ Summable(g, S)
  BY FS_RemoveElement DEF Summable
<1>2. SumFunctionOnSet(g, S \ {x}) = SumFunctionOnSet(f, S \ {x})
  BY <1>1, SumSame
<1>3. /\ SumFunctionOnSet(f, S) = f[x] + SumFunctionOnSet(f, S \ {x})
      /\ SumFunctionOnSet(g, S) = g[x] + SumFunctionOnSet(g, S \ {x})
  BY <1>1, SumAdd
<1>4. /\ f[x] \in Nat /\ SumFunctionOnSet(f, S \ {x}) \in Nat
  BY <1>1, SumType DEF Summable
<1> QED
  BY <1>2, <1>3, <1>4

-----------------------------------------------------------------------------
(* The sum of a sequence.                                                   *)

LEMMA SeqSummable ==
  ASSUME NEW q \in Seq(Nat)
  PROVE  IsFiniteSet(DOMAIN q) /\ Summable(q, DOMAIN q)
<1>1. DOMAIN q = 1..Len(q) /\ Len(q) \in Nat
  OBVIOUS
<1>2. 1 \in Int /\ Len(q) \in Int
  BY <1>1
<1>3. IsFiniteSet(1..Len(q))
  BY <1>2, FS_Interval
<1> QED
  BY <1>1, <1>3 DEF Summable

LEMMA SumSeqType ==
  ASSUME NEW q \in Seq(Nat)
  PROVE  SumFunction(q) \in Nat
BY SeqSummable, SumType DEF SumFunction

LEMMA SumEmptySeq == SumFunction(<<>>) = 0
BY SumNothing DEF SumFunction

LEMMA SumAppend ==
  ASSUME NEW q \in Seq(Nat), NEW n \in Nat
  PROVE  SumFunction(Append(q, n)) = SumFunction(q) + n
<1> DEFINE r == Append(q, n)
           k == Len(q) + 1
<1>0. Len(q) \in Nat /\ DOMAIN q = 1..Len(q) /\ r \in Seq(Nat) /\ Len(r) = k
  OBVIOUS
<1>1. /\ r \in Seq(Nat) /\ k \in DOMAIN r /\ r[k] = n
      /\ DOMAIN r \ {k} = DOMAIN q
      /\ \A i \in DOMAIN q : r[i] = q[i]
  <2>1. DOMAIN r = 1..k
    BY <1>0
  <2>2. k \in DOMAIN r /\ DOMAIN r \ {k} = DOMAIN q
    BY <1>0, <2>1
  <2>3. r[k] = n /\ \A i \in DOMAIN q : r[i] = q[i]
    BY <1>0
  <2> QED
    BY <1>0, <2>2, <2>3
<1> HIDE DEF r, k
<1>2. SumFunctionOnSet(r, DOMAIN r) = r[k] + SumFunctionOnSet(r, DOMAIN r \ {k})
  BY <1>1, SeqSummable, SumAdd
<1>3. SumFunctionOnSet(r, DOMAIN q) = SumFunctionOnSet(q, DOMAIN q)
  BY <1>1, SeqSummable, SumSame
<1>4. SumFunctionOnSet(q, DOMAIN q) \in Nat
  BY SeqSummable, SumType
<1> QED
  BY <1>1, <1>2, <1>3, <1>4 DEF SumFunction, r

LEMMA SumTail ==
  ASSUME NEW q \in Seq(Nat), q # <<>>
  PROVE  SumFunction(q) = Head(q) + SumFunction(Tail(q))
<1> DEFINE t == Tail(q)
           n == Len(q)
<1>1. /\ n \in Nat /\ n # 0 /\ DOMAIN q = 1..n /\ DOMAIN t = 1..(n - 1)
      /\ t \in Seq(Nat) /\ \A i \in 1..(n - 1) : t[i] = q[i + 1]
      /\ Head(q) = q[1] /\ 1 \in DOMAIN q /\ DOMAIN q \ {1} = 2..n
  OBVIOUS
<1>2. SumFunctionOnSet(q, DOMAIN q) = q[1] + SumFunctionOnSet(q, 2..n)
  BY <1>1, SeqSummable, SumAdd
<1>3. IsFiniteSet(2..n) /\ Summable(q, 2..n)
  <2>1. 2 \in Int /\ n \in Int
    BY <1>1
  <2>2. IsFiniteSet(2..n)
    BY <2>1, FS_Interval
  <2> QED
    BY <1>1, <2>2 DEF Summable
<1>4. IsFiniteSet(1..(n - 1)) /\ Summable(t, 1..(n - 1))
  BY <1>1, SeqSummable
<1>5. Cardinality(Cells(t, 1..(n - 1))) = Cardinality(Cells(q, 2..n))
  <2> DEFINE A == Cells(t, 1..(n - 1))
             B == Cells(q, 2..n)
             m == [c \in A |-> <<c[1] + 1, c[2]>>]
  <2>1. \A c : c \in A <=> \E i \in 1..(n - 1) : \E j \in Nat :
                 j \in 1..q[i + 1] /\ c = <<i, j>>
    <3>1. \A c : c \in A <=> \E i \in 1..(n - 1) : \E j \in 1..t[i] : c = <<i, j>>
      BY DEF Cells, Bar
    <3>2. \A i \in 1..(n - 1) : 1..t[i] = 1..q[i + 1] /\ 1..q[i + 1] \subseteq Nat
      BY <1>1
    <3> HIDE DEF A
    <3> QED
      BY <3>1, <3>2
  <2>2. \A c : c \in B <=> \E i \in 2..n : \E j \in Nat :
                 j \in 1..q[i] /\ c = <<i, j>>
    BY <1>1 DEF Cells, Bar
  <2>3. m \in [A -> B]
    <3> SUFFICES ASSUME NEW c \in A PROVE <<c[1] + 1, c[2]>> \in B
      OBVIOUS
    <3>1. PICK i \in 1..(n - 1), j \in Nat : j \in 1..q[i + 1] /\ c = <<i, j>>
      BY <2>1
    <3>2. i + 1 \in 2..n /\ <<c[1] + 1, c[2]>> = <<i + 1, j>>
      BY <1>1, <3>1
    <3> HIDE DEF A, B
    <3> QED
      BY <2>2, <3>1, <3>2
  <2>4. \A c, d \in A : m[c] = m[d] => c = d
    <3> SUFFICES ASSUME NEW c \in A, NEW d \in A, m[c] = m[d]
                 PROVE  c = d
      OBVIOUS
    <3>1. PICK i \in 1..(n - 1), j \in Nat : j \in 1..q[i + 1] /\ c = <<i, j>>
      BY <2>1
    <3>2. PICK k \in 1..(n - 1), l \in Nat : l \in 1..q[k + 1] /\ d = <<k, l>>
      BY <2>1
    <3>3. i + 1 = k + 1 /\ j = l
      BY <3>1, <3>2
    <3>4. i = k
      BY <1>1, <3>3
    <3> QED
      BY <3>1, <3>2, <3>3, <3>4
  <2>5. \A d \in B : \E c \in A : m[c] = d
    <3> SUFFICES ASSUME NEW d \in B PROVE \E c \in A : m[c] = d
      OBVIOUS
    <3>1. PICK i \in 2..n, j \in Nat : j \in 1..q[i] /\ d = <<i, j>>
      BY <2>2
    <3>2. i - 1 \in 1..(n - 1) /\ (i - 1) + 1 = i
      BY <1>1
    <3>3. <<i - 1, j>> \in A
      <4> HIDE DEF A, B
      <4>1. j \in 1..q[(i - 1) + 1]
        BY <3>1, <3>2
      <4> QED
        BY <2>1, <3>2, <4>1
    <3> QED
      BY <3>1, <3>2, <3>3
  <2>6. m \in Bijection(A, B)
    <3> HIDE DEF m, A, B
    <3> QED
      BY <2>3, <2>4, <2>5 DEF Bijection, Injection, Surjection, IsInjective
  <2>7. IsFiniteSet(A)
    BY <1>4, CellsFinite
  <2> HIDE DEF m, A, B
  <2>8. ExistsBijection(A, B)
    BY <2>6 DEF ExistsBijection
  <2> QED
    BY <2>7, <2>8, FS_Bijection DEF A, B
<1>6. SumFunctionOnSet(t, 1..(n - 1)) = SumFunctionOnSet(q, 2..n)
  BY <1>3, <1>4, <1>5, SumIsCells
<1> QED
  BY <1>1, <1>2, <1>6 DEF SumFunction

=============================================================================
