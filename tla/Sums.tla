-------------------------------- MODULE Sums --------------------------------
(***************************************************************************)
(* Sums over a finite set (SumFunctionOnSet): a sum of integers is an      *)
(* integer, it depends on the values summed only, and any element can be   *)
(* taken out of it.  Induction over the set is done with the smallest set  *)
(* that would be an exception.                                             *)
(***************************************************************************)
EXTENDS Integers, FiniteSets, Functions, FiniteSetTheorems, TLAPS

First(s) == CHOOSE x \in s : TRUE

\* Function g holds the sums of f over the subsets of S.
Adds(f, S, g) ==
  g = [s \in SUBSET S |-> IF s = {} THEN 0 ELSE f[First(s)] + g[s \ {First(s)}]]

Running(f, S) == CHOOSE g : Adds(f, S, g)

LEMMA SumIs ==
  ASSUME NEW f, NEW S
  PROVE  SumFunctionOnSet(f, S) = Running(f, S)[S]
BY DEF SumFunctionOnSet, FoldFunctionOnSet, MapThenFoldSet, Running, Adds, First

\* A property of the subsets that fails has a smallest failure.
LEMMA Smallest ==
  ASSUME NEW S, IsFiniteSet(S), NEW B \in SUBSET SUBSET S, B # {}
  PROVE  \E s \in B : \A t \in B : ~(t \subseteq s /\ t # s)
<1>1. B \subseteq FiniteSubsetsOf(S)
  BY FS_Subset DEF FiniteSubsetsOf
<1>2. \E s \in B : \A t \in B : ~ (<<t, s>> \in StrictSubsetOrdering(S))
  BY <1>1, FS_StrictSubsetOrderingWellFounded, WFMin
<1>3. QED
  BY <1>2 DEF StrictSubsetOrdering

LEMMA Rest ==
  ASSUME NEW s, s # {}
  PROVE  /\ First(s) \in s /\ s \ {First(s)} \subseteq s /\ s \ {First(s)} # s
BY DEF First

LEMMA AddsAt ==
  ASSUME NEW f, NEW S, NEW g, Adds(f, S, g), NEW s \in SUBSET S
  PROVE  g[s] = IF s = {} THEN 0 ELSE f[First(s)] + g[s \ {First(s)}]
BY DEF Adds

LEMMA AddsUnique ==
  ASSUME NEW f, NEW S, IsFiniteSet(S), NEW g, NEW h, Adds(f, S, g), Adds(f, S, h)
  PROVE  g = h
<1>1. \A s \in SUBSET S : g[s] = h[s]
  <2> SUFFICES ASSUME NEW t \in SUBSET S, g[t] # h[t] PROVE FALSE
    OBVIOUS
  <2>1. PICK B \in SUBSET SUBSET S : B = {s \in SUBSET S : g[s] # h[s]}
    OBVIOUS
  <2>2. PICK s \in B : \A u \in B : ~(u \subseteq s /\ u # s)
    BY <2>1, Smallest
  <2>3. s # {} => g[s \ {First(s)}] = h[s \ {First(s)}]
    BY <2>1, <2>2, Rest
  <2>4. g[s] = h[s]
    BY <2>1, <2>3, AddsAt
  <2>5. QED
    BY <2>1, <2>4
<1>2. g = [s \in SUBSET S |-> g[s]] /\ h = [s \in SUBSET S |-> h[s]]
  BY DEF Adds
<1>3. QED
  BY <1>1, <1>2

LEMMA AddsWithin ==
  ASSUME NEW f, NEW S, NEW g, Adds(f, S, g), NEW T \in SUBSET S
  PROVE  Adds(f, T, [s \in SUBSET T |-> g[s]])
<1>1. PICK h : h = [s \in SUBSET T |-> g[s]]
  OBVIOUS
<1>2. ASSUME NEW s \in SUBSET T
      PROVE  h[s] = IF s = {} THEN 0 ELSE f[First(s)] + h[s \ {First(s)}]
  <2>1. s \in SUBSET S /\ s \ {First(s)} \in SUBSET T
    OBVIOUS
  <2>2. h[s] = g[s] /\ h[s \ {First(s)}] = g[s \ {First(s)}]
    BY <1>1, <2>1
  <2>3. QED
    BY <2>1, <2>2, AddsAt
<1>3. QED
  BY <1>1, <1>2 DEF Adds

LEMMA AddsExists ==
  ASSUME NEW f, NEW S, IsFiniteSet(S)
  PROVE  Adds(f, S, Running(f, S))
<1> SUFFICES ASSUME ~ \E g : Adds(f, S, g) PROVE FALSE
  BY DEF Running
<1>1. PICK B \in SUBSET SUBSET S : B = {s \in SUBSET S : ~ \E g : Adds(f, s, g)}
  OBVIOUS
<1>2. PICK s \in B : \A t \in B : ~(t \subseteq s /\ t # s)
  <2>1. S \in B
    BY <1>1
  <2>2. QED
    BY <2>1, Smallest
<1>3. \A t \in SUBSET s : t # s => Adds(f, t, Running(f, t))
  BY <1>1, <1>2 DEF Running
<1>4. \A t \in SUBSET s : IsFiniteSet(t)
  BY <1>1, FS_Subset
<1>5. \A t \in SUBSET s : \A u \in SUBSET t : t # s => Running(f, t)[u] = Running(f, u)[u]
  <2> SUFFICES ASSUME NEW t \in SUBSET s, NEW u \in SUBSET t, t # s
               PROVE  Running(f, t)[u] = Running(f, u)[u]
    OBVIOUS
  <2>1. PICK g, h : g = Running(f, t) /\ h = Running(f, u)
    OBVIOUS
  <2>2. Adds(f, t, g) /\ Adds(f, u, h)
    BY <1>3, <2>1
  <2>3. PICK k : k = [v \in SUBSET u |-> g[v]]
    OBVIOUS
  <2>4. Adds(f, u, k)
    BY <2>2, <2>3, AddsWithin
  <2>5. IsFiniteSet(u)
    BY <1>4
  <2>6. k = h
    BY <2>2, <2>4, <2>5, AddsUnique
  <2>7. QED
    BY <2>1, <2>3, <2>6
<1>6. PICK h : h = [t \in SUBSET s |->
                      IF t = {} THEN 0
                      ELSE f[First(t)] + Running(f, t \ {First(t)})[t \ {First(t)}]]
  OBVIOUS
<1>7. \A u \in SUBSET s : u # s => h[u] = Running(f, u)[u]
  <2> SUFFICES ASSUME NEW u \in SUBSET s, u # s PROVE h[u] = Running(f, u)[u]
    OBVIOUS
  <2>1. Running(f, u)[u] = IF u = {} THEN 0
                           ELSE f[First(u)] + Running(f, u)[u \ {First(u)}]
    BY <1>3, AddsAt
  <2>2. Running(f, u)[u \ {First(u)}] = Running(f, u \ {First(u)})[u \ {First(u)}]
    BY <1>5
  <2>3. QED
    BY <1>6, <2>1, <2>2
<1>8. \A t \in SUBSET s : t # {} => h[t \ {First(t)}] = Running(f, t \ {First(t)})[t \ {First(t)}]
  BY <1>7, Rest
<1>9. Adds(f, s, h)
  BY <1>6, <1>8 DEF Adds
<1>10. QED
  BY <1>1, <1>9

LEMMA SumInt ==
  ASSUME NEW S, IsFiniteSet(S), NEW f, \A x \in S : f[x] \in Int
  PROVE  SumFunctionOnSet(f, S) \in Int
<1>1. PICK g : g = Running(f, S)
  OBVIOUS
<1>2. Adds(f, S, g)
  BY <1>1, AddsExists
<1>3. \A s \in SUBSET S : g[s] \in Int
  <2> SUFFICES ASSUME NEW t \in SUBSET S, g[t] \notin Int PROVE FALSE
    OBVIOUS
  <2>1. PICK B \in SUBSET SUBSET S : B = {s \in SUBSET S : g[s] \notin Int}
    OBVIOUS
  <2>2. PICK s \in B : \A u \in B : ~(u \subseteq s /\ u # s)
    BY <2>1, Smallest
  <2>3. s # {} => g[s \ {First(s)}] \in Int /\ f[First(s)] \in Int
    BY <2>1, <2>2, Rest
  <2>4. g[s] \in Int
    <3>1. s \in SUBSET S
      BY <2>1
    <3>2. CASE s = {}
      BY <1>2, <3>1, <3>2 DEF Adds
    <3>3. CASE s # {}
      <4>1. g[s] = f[First(s)] + g[s \ {First(s)}]
        BY <1>2, <3>1, <3>3 DEF Adds
      <4>2. QED
        BY <2>3, <3>3, <4>1
    <3>4. QED
      BY <3>2, <3>3
  <2>5. QED
    BY <2>1, <2>4
<1>4. QED
  BY <1>1, <1>3, SumIs

LEMMA SumAgree ==
  ASSUME NEW S, IsFiniteSet(S), NEW f, NEW g, \A x \in S : f[x] = g[x]
  PROVE  SumFunctionOnSet(f, S) = SumFunctionOnSet(g, S)
<1>1. PICK a, b : a = Running(f, S) /\ b = Running(g, S)
  OBVIOUS
<1>2. Adds(f, S, a) /\ Adds(g, S, b)
  BY <1>1, AddsExists
<1>3. \A s \in SUBSET S : b[s] = IF s = {} THEN 0 ELSE f[First(s)] + b[s \ {First(s)}]
  BY <1>2, AddsAt, Rest
<1>4. Adds(f, S, b)
  BY <1>2, <1>3 DEF Adds
<1>5. QED
  BY <1>1, <1>2, <1>4, AddsUnique, SumIs

LEMMA SumWithin ==
  ASSUME NEW S, IsFiniteSet(S), NEW f, NEW T \in SUBSET S
  PROVE  Running(f, S)[T] = SumFunctionOnSet(f, T)
<1>1. PICK g, h : g = Running(f, S) /\ h = Running(f, T)
  OBVIOUS
<1>2. IsFiniteSet(T)
  BY FS_Subset
<1>3. Adds(f, S, g) /\ Adds(f, T, h)
  BY <1>1, <1>2, AddsExists
<1>4. PICK k : k = [t \in SUBSET T |-> g[t]]
  OBVIOUS
<1>5. Adds(f, T, k)
  BY <1>3, <1>4, AddsWithin
<1>6. k = h
  BY <1>2, <1>3, <1>5, AddsUnique
<1>7. QED
  BY <1>1, <1>4, <1>6, SumIs

\* What the fold takes first.
LEMMA SumFirst ==
  ASSUME NEW S, IsFiniteSet(S), NEW f, S # {}
  PROVE  SumFunctionOnSet(f, S) = f[First(S)] + SumFunctionOnSet(f, S \ {First(S)})
<1>1. Running(f, S)[S] = f[First(S)] + Running(f, S)[S \ {First(S)}]
  BY AddsExists, AddsAt
<1>2. S \ {First(S)} \in SUBSET S
  OBVIOUS
<1>3. QED
  BY <1>1, <1>2, SumIs, SumWithin

\* The value of any element can be split off, not only that of the element the
\* fold takes first.
LEMMA SumTake ==
  ASSUME NEW S, IsFiniteSet(S), NEW f, \A y \in S : f[y] \in Int, NEW x \in S
  PROVE  SumFunctionOnSet(f, S) = f[x] + SumFunctionOnSet(f, S \ {x})
<1> DEFINE Splits(s, y) ==
             SumFunctionOnSet(f, s) = f[y] + SumFunctionOnSet(f, s \ {y})
<1>1. \A s \in SUBSET S : SumFunctionOnSet(f, s) \in Int
  BY FS_Subset, SumInt
<1>2. SUFFICES ASSUME ~Splits(S, x) PROVE FALSE
  OBVIOUS
<1>3. PICK B \in SUBSET SUBSET S : B = {s \in SUBSET S : \E y \in s : ~Splits(s, y)}
  OBVIOUS
<1>4. PICK s \in B : \A t \in B : ~(t \subseteq s /\ t # s)
  <2>1. S \in B
    BY <1>2, <1>3
  <2> HIDE DEF Splits
  <2>2. QED
    BY <2>1, Smallest
<1>5. PICK y \in s : ~Splits(s, y)
  BY <1>3
<1>6. PICK a \in s : a = First(s)
  BY Rest
<1>7. Splits(s, a)
  BY <1>3, <1>6, FS_Subset, SumFirst
<1>8. y # a
  BY <1>5, <1>7
<1>9. Splits(s \ {a}, y) /\ Splits(s \ {y}, a)
  <2>1. s \ {a} \notin B /\ s \ {y} \notin B /\ s \in SUBSET S
    BY <1>3, <1>4
  <2>2. y \in s \ {a} /\ a \in s \ {y}
    BY <1>8
  <2> HIDE DEF Splits
  <2>3. QED
    BY <1>3, <2>1, <2>2
<1>10. (s \ {a}) \ {y} = (s \ {y}) \ {a}
  OBVIOUS
<1>11. QED
  <2>1. PICK r, u, v, n \in Int :
          /\ r = SumFunctionOnSet(f, (s \ {a}) \ {y}) /\ u = SumFunctionOnSet(f, s \ {a})
          /\ v = SumFunctionOnSet(f, s \ {y}) /\ n = SumFunctionOnSet(f, s)
    <3>1. (s \ {a}) \ {y} \in SUBSET S /\ s \ {a} \in SUBSET S /\ s \ {y} \in SUBSET S
          /\ s \in SUBSET S
      BY <1>3
    <3>2. QED
      BY <1>1, <3>1
  <2>2. f[a] \in Int /\ f[y] \in Int
    BY <1>3
  <2>3. n = f[a] + u /\ u = f[y] + r /\ v = f[a] + r /\ n # f[y] + v
    BY <1>5, <1>7, <1>9, <1>10, <2>1
  <2>4. QED
    BY <2>2, <2>3

\* The value of g is moved to d.
LEMMA SumMoved ==
  ASSUME NEW S, IsFiniteSet(S), NEW f, NEW h, \A x \in S : f[x] \in Int /\ h[x] \in Int,
         NEW g \in S, NEW d \in S, g # d,
         h[d] = f[d] + f[g], \A x \in S \ {g, d} : h[x] = f[x]
  PROVE  SumFunctionOnSet(h, S \ {g}) = SumFunctionOnSet(f, S)
<1>1. PICK R, T : R = S \ {g} /\ T = R \ {d}
  OBVIOUS
<1>2. IsFiniteSet(R) /\ IsFiniteSet(T) /\ T \subseteq S \ {g, d}
  BY <1>1, FS_Subset
<1>3. PICK m \in Int : m = SumFunctionOnSet(f, T)
  BY <1>2, SumInt
<1>4. SumFunctionOnSet(h, T) = m
  BY <1>2, <1>3, SumAgree
<1>5. SumFunctionOnSet(f, S) = f[g] + SumFunctionOnSet(f, R)
  BY <1>1, SumTake
<1>6. SumFunctionOnSet(f, R) = f[d] + m /\ SumFunctionOnSet(h, R) = h[d] + m
  BY <1>1, <1>2, <1>3, <1>4, SumTake
<1>7. QED
  BY <1>1, <1>3, <1>5, <1>6
=============================================================================
