--------------------------- MODULE OperatorLemmas ---------------------------
(***************************************************************************)
(* Lemmas about the operators that the models are built from: induction and  *)
(* the loops of the code, the lists they make (SequencesExt), the compiled   *)
(* hierarchy of a statechart (Shape) and its tables (Chart).  They hold for  *)
(* all definitions; the modules with the proofs about a component take them  *)
(* from here.                                                              *)
(***************************************************************************)
EXTENDS Chart, FiniteSetTheorems, SequenceTheorems, TLAPS

-----------------------------------------------------------------------------
(* Natural numbers, and loops up to a bound.                                *)

\* A non-empty set of natural numbers has a least element: the intervals that end
\* at its elements are finite, and strict inclusion of finite sets is well founded.
LEMMA Least ==
    ASSUME NEW T \in SUBSET Nat, T # {}
    PROVE  \E n \in T : \A m \in T : n <= m
<1> DEFINE TT == {0 .. n : n \in T}
<1>1. IsWellFoundedOn(StrictSubsetOrdering(Nat), FiniteSubsetsOf(Nat))
    BY FS_StrictSubsetOrderingWellFounded
<1>2. TT \subseteq FiniteSubsetsOf(Nat) /\ TT # {}
  <2>1. ASSUME NEW n \in T PROVE 0 .. n \in FiniteSubsetsOf(Nat)
    <3>1. n \in Int
        OBVIOUS
    <3>2. IsFiniteSet(0 .. n)
        BY <3>1, FS_Interval
    <3>3. 0 .. n \subseteq Nat
        OBVIOUS
    <3> QED
        BY <3>2, <3>3 DEF FiniteSubsetsOf
  <2> QED
      BY <2>1
<1>3. PICK x \in TT : \A y \in TT : << y, x >> \notin StrictSubsetOrdering(Nat)
  <2> HIDE DEF TT
  <2> QED
      BY <1>1, <1>2, WFMin
<1>4. PICK n \in T : x = 0 .. n
    OBVIOUS
<1>5. ASSUME NEW m \in T, m < n PROVE FALSE
  <2>1. m \in 0 .. n /\ n \notin 0 .. m /\ 0 .. m \subseteq 0 .. n
      BY <1>5
  <2>2. << 0 .. m, 0 .. n >> \in StrictSubsetOrdering(Nat)
    <3>1. 0 .. m \in SUBSET Nat /\ 0 .. n \in SUBSET Nat /\ n \in 0 .. n
        OBVIOUS
    <3>2. 0 .. m # 0 .. n
        BY <2>1, <3>1
    <3> QED
        BY <2>1, <3>1, <3>2 DEF StrictSubsetOrdering
  <2> QED
      BY <1>3, <1>4, <2>2
<1>6. \A m \in T : n <= m
    BY <1>5
<1> QED
    BY <1>6

\* A set that has 0, and n + 1 if it has n, has every natural number.
THEOREM InductOn ==
    ASSUME NEW T, 0 \in T, \A n \in Nat : n \in T => n + 1 \in T
    PROVE  Nat \subseteq T
<1> SUFFICES ASSUME NEW k \in Nat, k \notin T
             PROVE  FALSE
    OBVIOUS
<1> DEFINE U == {n \in Nat : n \notin T}
<1>1. PICK n \in U : \A m \in U : n <= m
  <2>1. U # {} /\ U \in SUBSET Nat
      OBVIOUS
  <2> HIDE DEF U
  <2> QED
      BY <2>1, Least
<1>2. n \in Nat /\ n # 0 /\ n - 1 \in Nat /\ ~(n <= n - 1) /\ (n - 1) + 1 = n
    OBVIOUS
<1>3. n - 1 \notin U
    BY <1>1, <1>2
<1> QED
    BY <1>2, <1>3

\* The values of a loop whose iterations are given by a function.
Loops(V, b, n, F, g) ==
    /\ g \in [0 .. n -> V]
    /\ \A i \in 0 .. n : g[i] = IF i = 0 THEN b ELSE F[<< g[i - 1], i >>]

\* A loop that stays in a set has its values.
LEMMA Iterates ==
    ASSUME NEW V, NEW b \in V, NEW n \in Nat, NEW F \in [V \X (1 .. n) -> V]
    PROVE  \E g : Loops(V, b, n, F, g)
<1> DEFINE Good(g, m) == /\ g \in [0 .. m -> V]
                         /\ \A i \in 0 .. m : g[i] = IF i = 0 THEN b ELSE F[<< g[i - 1], i >>]
           T == {m \in Nat : m <= n => \E g : Good(g, m)}
<1>1. 0 \in T
  <2> DEFINE g == [i \in 0 .. 0 |-> b]
  <2>1. \A i \in 0 .. 0 : i = 0
      OBVIOUS
  <2>2. Good(g, 0)
      BY <2>1
  <2> QED
      BY <2>2
<1>2. ASSUME NEW m \in Nat, m \in T PROVE m + 1 \in T
  <2> SUFFICES ASSUME m + 1 <= n PROVE \E g : Good(g, m + 1)
      BY SMTT(60)
  <2>1. PICK g : Good(g, m)
      BY <1>2
  <2>2. m \in 0 .. m /\ m + 1 \in 1 .. n /\ m + 1 # 0 /\ m + 1 \notin 0 .. m
      OBVIOUS
  <2>3. g[m] \in V /\ F[<< g[m], m + 1 >>] \in V
      BY <2>1, <2>2
  <2> DEFINE h == [i \in 0 .. m + 1 |-> IF i = m + 1 THEN F[<< g[m], m + 1 >>] ELSE g[i]]
  <2>4. \A i \in 0 .. m + 1 : i # m + 1 => i \in 0 .. m
      OBVIOUS
  <2>5. h \in [0 .. m + 1 -> V]
      BY <2>1, <2>3, <2>4
  <2>6. ASSUME NEW i \in 0 .. m + 1
        PROVE  h[i] = IF i = 0 THEN b ELSE F[<< h[i - 1], i >>]
    <3>1. CASE i = m + 1
      <4>1. i - 1 = m /\ m \in 0 .. m + 1 /\ m # m + 1
          BY <3>1
      <4>2. h[i] = F[<< g[m], i >>] /\ h[i - 1] = g[m]
          BY <3>1, <4>1
      <4> HIDE DEF h
      <4> QED
          BY <2>2, <3>1, <4>2
    <3>2. CASE i # m + 1
      <4>1. i \in 0 .. m /\ (i # 0 => i - 1 \in 0 .. m + 1 /\ i - 1 # m + 1)
          BY <3>2
      <4>2. h[i] = g[i] /\ (i # 0 => h[i - 1] = g[i - 1])
          BY <3>2, <4>1
      <4>3. g[i] = IF i = 0 THEN b ELSE F[<< g[i - 1], i >>]
          BY <2>1, <4>1
      <4> HIDE DEF h
      <4> QED
          BY <4>2, <4>3
    <3> QED
        BY <3>1, <3>2
  <2>7. Good(h, m + 1)
    <3> HIDE DEF h
    <3> QED
        BY <2>5, <2>6
  <2> QED
      BY <2>7
<1>3. n \in T
  <2> HIDE DEF T
  <2> QED
      BY <1>1, <1>2, InductOn
<1>4. PICK g : Good(g, n)
    BY <1>3
<1>5. Loops(V, b, n, F, g)
    BY SMTT(60), <1>4 DEF Loops
<1> QED
    BY <1>5

-----------------------------------------------------------------------------
(* A list of lists, one after the other: the nested loops of the code        *)
(* (statechart.go, Fire and selectTransition).                              *)
LEMMA FlattenSteps ==
    ASSUME NEW S, NEW ss \in Seq(Seq(S)), ss # << >>
    PROVE  \E f \in [1 .. Len(ss) -> Seq(S)] :
              /\ f[1] = ss[1]
              /\ \A i \in 2 .. Len(ss) : f[i] = f[i - 1] \o ss[i]
              /\ FlattenSeq(ss) = f[Len(ss)]
<1> DEFINE L == Len(ss)
           V == Seq(S)
           F == [p \in V \X (1 .. L) |-> p[1] \o ss[p[2]]]
           Good(f) == f = [i \in 1 .. L |-> IF i = 1 THEN ss[i] ELSE f[i - 1] \o ss[i]]
           c == CHOOSE f : Good(f)
<1>1. L \in Nat \ {0} /\ \A i \in 1 .. L : ss[i] \in V
    BY EmptySeq, ElementOfSeq
<1>2. F \in [V \X (1 .. L) -> V]
    BY <1>1
<1>3. PICK g : Loops(V, << >>, L, F, g)
  <2>1. << >> \in V /\ L \in Nat
      BY <1>1
  <2> HIDE DEF F, V, L
  <2> QED
      BY <1>2, <2>1, Iterates
<1>. g \in [0 .. L -> V]
    BY <1>3 DEF Loops
<1>4. ASSUME NEW i \in 1 .. L PROVE g[i] = g[i - 1] \o ss[i] /\ g[i - 1] \in V
  <2>1. i \in 0 .. L /\ i # 0 /\ i - 1 \in 0 .. L
      BY <1>1
  <2>2. g[i - 1] \in V /\ << g[i - 1], i >> \in V \X (1 .. L)
      BY <2>1
  <2>3. g[i] = F[<< g[i - 1], i >>]
      BY <1>3, <2>1 DEF Loops
  <2>4. F[<< g[i - 1], i >>] = g[i - 1] \o ss[i]
      BY <2>2
  <2> QED
      BY <2>2, <2>3, <2>4
<1>5. g[1] = ss[1]
  <2>1. 1 \in 1 .. L /\ 0 \in 0 .. L /\ 1 - 1 = 0
      BY <1>1
  <2>2. g[0] = << >>
    <3> HIDE DEF F, V, L
    <3> QED
        BY <1>3, <2>1 DEF Loops
  <2>3. g[1] = << >> \o ss[1] /\ ss[1] \in Seq(S)
    <3> HIDE DEF L
    <3> QED
        BY <1>1, <1>4, <2>1, <2>2
  <2> QED
      BY <2>3, ConcatEmptySeq
<1>6. \E f : Good(f)
  <2> DEFINE f == [i \in 1 .. L |-> g[i]]
             h == [i \in 1 .. L |-> IF i = 1 THEN ss[i] ELSE f[i - 1] \o ss[i]]
  <2>1. ASSUME NEW i \in 1 .. L PROVE f[i] = h[i]
    <3>1. CASE i = 1
        BY <1>5, <3>1
    <3>2. CASE i # 1
      <4>1. i - 1 \in 1 .. L
          BY <1>1, <3>2
      <4> QED
          BY <1>4, <3>2, <4>1
    <3> QED
        BY <3>1, <3>2
  <2>2. f = h
      BY <2>1
  <2>3. Good(f)
      BY <2>2
  <2> QED
      BY <2>3
<1>7. Good(c)
  <2> HIDE DEF Good
  <2> QED
      BY <1>6
<1>8. /\ DOMAIN c = 1 .. L
      /\ \A i \in 1 .. L : c[i] = IF i = 1 THEN ss[i] ELSE c[i - 1] \o ss[i]
  <2> HIDE DEF c
  <2> QED
      BY <1>7
<1>9. \A i \in 1 .. L : c[i] = g[i]
  <2> DEFINE T == {i \in Nat : i + 1 <= L => c[i + 1] = g[i + 1]}
  <2> HIDE DEF c
  <2>1. 0 \in T
    <3>1. 1 \in 1 .. L /\ 0 + 1 = 1
        BY <1>1
    <3> QED
        BY <1>5, <1>8, <3>1
  <2>2. ASSUME NEW i \in Nat, i \in T PROVE i + 1 \in T
    <3> SUFFICES ASSUME (i + 1) + 1 <= L PROVE c[(i + 1) + 1] = g[(i + 1) + 1]
        OBVIOUS
    <3> DEFINE j == (i + 1) + 1
    <3>1. j \in 1 .. L /\ j # 1 /\ j - 1 = i + 1
        BY <1>1
    <3>2. c[i + 1] = g[i + 1]
        BY <1>1, <2>2
    <3> HIDE DEF j, T, L, V
    <3>3. c[j] = g[j]
      <4>1. c[j] = c[i + 1] \o ss[j]
          BY <1>8, <3>1
      <4>2. g[j] = g[i + 1] \o ss[j]
          BY <1>4, <3>1
      <4> QED
          BY <3>2, <4>1, <4>2
    <3> QED
        BY <3>3 DEF j
  <2>3. Nat \subseteq T
    <3> HIDE DEF T
    <3> QED
        BY <2>1, <2>2, InductOn
  <2>4. ASSUME NEW i \in 1 .. L PROVE c[i] = g[i]
    <3>1. i - 1 \in Nat /\ (i - 1) + 1 = i /\ i <= L
        BY <1>1
    <3> QED
        BY <2>3, <3>1
  <2> QED
      BY <2>4
<1>10. c \in [1 .. L -> V]
  <2>1. \A i \in 1 .. L : i \in 0 .. L
      BY <1>1
  <2> HIDE DEF c
  <2>2. c = [i \in 1 .. L |-> c[i]]
    <3> DEFINE d == [i \in 1 .. L |-> IF i = 1 THEN ss[i] ELSE c[i - 1] \o ss[i]]
    <3>1. c = d
        BY <1>7
    <3>2. d = [i \in 1 .. L |-> d[i]]
        OBVIOUS
    <3> QED
        BY <3>1, <3>2
  <2> QED
      BY <1>9, <2>1, <2>2
<1>11. FlattenSeq(ss) = c[L]
  <2>1. Len(ss) # 0
      BY <1>1
  <2> QED
      BY <2>1 DEF FlattenSeq
<1>12. c[1] = ss[1] /\ \A i \in 2 .. L : c[i] = c[i - 1] \o ss[i]
  <2> HIDE DEF c
  <2>1. 1 \in 1 .. L /\ \A i \in 2 .. L : i \in 1 .. L /\ i # 1
      BY <1>1
  <2> QED
      BY <1>8, <2>1
<1> QED
    BY <1>10, <1>11, <1>12

(* The elements of two lists, one after the other (statechart.go, Fire).      *)
LEMMA ConcatRange ==
    ASSUME NEW S, NEW p \in Seq(S), NEW q \in Seq(S)
    PROVE  \A x : x \in ToSet(p \o q) <=> x \in ToSet(p) \/ x \in ToSet(q)
<1> DEFINE r == p \o q
<1>1. /\ Len(p) \in Nat /\ Len(q) \in Nat /\ r \in Seq(S) /\ Len(r) = Len(p) + Len(q)
      /\ \A i \in 1 .. Len(p) : r[i] = p[i]
      /\ \A i \in 1 .. Len(q) : r[Len(p) + i] = q[i]
    OBVIOUS
<1>2. DOMAIN p = 1 .. Len(p) /\ DOMAIN q = 1 .. Len(q) /\ DOMAIN r = 1 .. Len(r)
    BY <1>1
<1> HIDE DEF r
<1>3. ASSUME NEW i \in 1 .. Len(r)
      PROVE  \/ i \in 1 .. Len(p) /\ r[i] = p[i]
             \/ i - Len(p) \in 1 .. Len(q) /\ r[i] = q[i - Len(p)]
  <2>1. CASE i <= Len(p)
      BY <1>1, <2>1
  <2>2. CASE i > Len(p)
    <3>1. i - Len(p) \in 1 .. Len(q) /\ Len(p) + (i - Len(p)) = i
        BY <1>1, <2>2
    <3> QED
        BY <1>1, <3>1
  <2> QED
      BY <1>1, <2>1, <2>2
<1>4. /\ \A i \in 1 .. Len(p) : i \in 1 .. Len(r)
      /\ \A i \in 1 .. Len(q) : Len(p) + i \in 1 .. Len(r)
    BY <1>1
<1>5. ASSUME NEW x, x \in ToSet(r) PROVE x \in ToSet(p) \/ x \in ToSet(q)
    BY <1>2, <1>3, <1>5 DEF ToSet
<1>6. ASSUME NEW x, x \in ToSet(p) PROVE x \in ToSet(r)
    BY <1>1, <1>2, <1>4, <1>6 DEF ToSet
<1>7. ASSUME NEW x, x \in ToSet(q) PROVE x \in ToSet(r)
    BY <1>1, <1>2, <1>4, <1>7 DEF ToSet
<1> QED
    BY <1>5, <1>6, <1>7 DEF r

(* What is in the lists, and nothing else, is in the flat one (statechart.go, *)
(* Fire and selectTransition).                                              *)
LEMMA FlattenFacts ==
    ASSUME NEW S, NEW ss \in Seq(Seq(S))
    PROVE  /\ FlattenSeq(ss) \in Seq(S)
           /\ \A x : x \in ToSet(FlattenSeq(ss))
                    <=> \E i \in 1 .. Len(ss) : x \in ToSet(ss[i])
           /\ ss = << >> => FlattenSeq(ss) = << >>
<1>1. CASE ss = << >>
  <2>1. FlattenSeq(ss) = << >> /\ Len(ss) = 0
      BY <1>1 DEF FlattenSeq
  <2> QED
      BY <2>1 DEF ToSet
<1>2. CASE ss # << >>
  <2> DEFINE L == Len(ss)
  <2>1. L \in Nat \ {0} /\ \A i \in 1 .. L : ss[i] \in Seq(S)
      BY <1>2, EmptySeq, ElementOfSeq
  <2>2. PICK f \in [1 .. L -> Seq(S)] :
            /\ f[1] = ss[1]
            /\ \A i \in 2 .. L : f[i] = f[i - 1] \o ss[i]
            /\ FlattenSeq(ss) = f[L]
      BY <1>2, FlattenSteps
  <2> HIDE DEF L
  <2> DEFINE Holds(n) == \A x : x \in ToSet(f[n]) <=> \E i \in 1 .. n : x \in ToSet(ss[i])
             T == {n \in Nat : n + 1 <= L => Holds(n + 1)}
  <2>3. 0 \in T
    <3>1. 0 + 1 = 1 /\ \A i \in 1 .. 1 : i = 1
        OBVIOUS
    <3>2. Holds(1)
        BY <2>2, <3>1
    <3> HIDE DEF Holds
    <3> QED
        BY <3>1, <3>2
  <2>4. ASSUME NEW n \in Nat, n \in T PROVE n + 1 \in T
    <3> SUFFICES ASSUME (n + 1) + 1 <= L PROVE Holds((n + 1) + 1)
        OBVIOUS
    <3> DEFINE j == (n + 1) + 1
    <3>1. /\ j \in 2 .. L /\ j \in 1 .. L /\ j - 1 = n + 1 /\ n + 1 \in 1 .. L
          /\ \A i : i \in 1 .. j <=> i \in 1 .. n + 1 \/ i = j
        BY <2>1
    <3>2. Holds(n + 1)
        BY <2>1, <2>4
    <3>3. f[j] = f[n + 1] \o ss[j] /\ f[n + 1] \in Seq(S) /\ ss[j] \in Seq(S)
      <4> HIDE DEF j
      <4> QED
          BY <2>1, <2>2, <3>1
    <3>4. \A x : x \in ToSet(f[j]) <=> x \in ToSet(f[n + 1]) \/ x \in ToSet(ss[j])
        BY <3>3, ConcatRange
    <3> HIDE DEF j
    <3>5. Holds(j)
        BY <3>1, <3>2, <3>4
    <3> QED
        BY <3>5 DEF j
  <2>5. Nat \subseteq T
    <3> HIDE DEF T
    <3> QED
        BY <2>3, <2>4, InductOn
  <2>6. Holds(L)
    <3>1. L - 1 \in Nat /\ (L - 1) + 1 = L /\ L <= L
        BY <2>1
    <3> HIDE DEF Holds
    <3>2. L - 1 \in T
        BY <2>5, <3>1
    <3> QED
        BY <3>1, <3>2
  <2> QED
      BY SMTT(60), <1>2, <2>1, <2>2, <2>6 DEF L
<1> QED
    BY <1>1, <1>2

(* One more position at the end (statechart.go, Fire).                       *)
LEMMA JoinRising ==
    ASSUME NEW k \in Nat, NEW p \in Seq(Nat),
           \A i \in 1 .. Len(p) : p[i] \in 1 .. k,
           \A i, j \in 1 .. Len(p) : i < j => p[i] < p[j]
    PROVE  LET q == p \o << k + 1 >>
           IN  /\ \A i \in 1 .. Len(q) : q[i] \in 1 .. k + 1
               /\ \A i, j \in 1 .. Len(q) : i < j => q[i] < q[j]
<1> DEFINE q == p \o << k + 1 >>
<1>1. /\ Len(p) \in Nat /\ Len(q) = Len(p) + 1 /\ q[Len(p) + 1] = k + 1
      /\ \A i \in 1 .. Len(p) : q[i] = p[i]
    OBVIOUS
<1> HIDE DEF q
<1>2. \A i \in 1 .. Len(q) : i \in 1 .. Len(p) \/ i = Len(p) + 1
    BY <1>1
<1>3. \A i \in 1 .. Len(p) : q[i] \in 1 .. k
    BY <1>1
<1>4. \A i \in 1 .. Len(q) : q[i] \in 1 .. k + 1
    BY <1>1, <1>2, <1>3
<1>5. ASSUME NEW i \in 1 .. Len(q), NEW j \in 1 .. Len(q), i < j
      PROVE  q[i] < q[j]
  <2>1. i \in 1 .. Len(p)
      BY <1>1, <1>2, <1>5
  <2>2. CASE j \in 1 .. Len(p)
      BY <1>1, <1>5, <2>1, <2>2
  <2>3. CASE j = Len(p) + 1
    <3>1. q[i] \in 1 .. k /\ q[j] = k + 1
        BY <1>1, <1>3, <2>1, <2>3
    <3> QED
        BY <3>1
  <2> QED
      BY <1>2, <2>2, <2>3
<1> QED
    BY <1>4, <1>5 DEF q

(* The positions of the elements that a loop does not pass over are in order *)
(* (statechart.go, Fire: a nil action is skipped, its index is counted).     *)
LEMMA PositionsFacts ==
    ASSUME NEW n \in Nat, NEW flags, DOMAIN flags = 1 .. n
    PROVE  /\ Positions(flags) \in Seq(1 .. n)
           /\ ToSet(Positions(flags)) = {k \in 1 .. n : flags[k]}
           /\ \A i, j \in 1 .. Len(Positions(flags)) :
                 i < j => Positions(flags)[i] < Positions(flags)[j]
<1> DEFINE S == 1 .. n
           ss == [k \in 1 .. n |-> IF flags[k] THEN << k >> ELSE << >>]
           Rising(p) == \A i, j \in 1 .. Len(p) : i < j => p[i] < p[j]
<1>1. ss \in Seq(Seq(S)) /\ Len(ss) = n /\ \A k \in 1 .. n : ss[k] \in Seq(S)
  <2>1. \A k \in S : << k >> \in Seq(S)
      OBVIOUS
  <2>2. << >> \in Seq(S)
      OBVIOUS
  <2>3. \A k \in S : (IF flags[k] THEN << k >> ELSE << >>) \in Seq(S)
    <3> HIDE DEF S
    <3> QED
        BY <2>1, <2>2
  <2>4. ss \in [1 .. n -> Seq(S)]
      BY <2>3
  <2> QED
      BY <2>4
<1>2. Positions(flags) = FlattenSeq(ss)
    BY DEF Positions
<1>3. \A k \in 1 .. n : ToSet(ss[k]) = IF flags[k] THEN {k} ELSE {}
  <2> TAKE k \in 1 .. n
  <2>1. ToSet(<< k >>) = {k} /\ ToSet(<< >>) = {}
      BY DEF ToSet
  <2> QED
      BY <2>1
<1>4. Positions(flags) \in Seq(1 .. n) /\ ToSet(Positions(flags)) = {k \in 1 .. n : flags[k]}
  <2> HIDE DEF ss
  <2>1. Positions(flags) \in Seq(S)
      BY <1>1, <1>2, FlattenFacts
  <2>2. \A x : x \in ToSet(Positions(flags)) <=> \E i \in 1 .. n : x \in ToSet(ss[i])
      BY <1>1, <1>2, FlattenFacts
  <2>3. \A x : x \in ToSet(Positions(flags)) <=> x \in 1 .. n /\ flags[x]
      BY ZenonT(90), <1>3, <2>2
  <2> QED
      BY <2>1, <2>3
<1>5. Rising(Positions(flags))
  <2>1. CASE ss = << >>
    <3>1. Positions(flags) = << >> /\ Len(<< >>) = 0
      <4> HIDE DEF ss
      <4> QED
          BY <1>1, <1>2, <2>1, FlattenFacts
    <3>2. \A i : i \notin 1 .. 0
        OBVIOUS
    <3> QED
        BY <3>1, <3>2
  <2>2. CASE ss # << >>
    <3>1. n # 0
      <4> HIDE DEF ss
      <4> QED
          BY <1>1, <2>2, EmptySeq
    <3>2. PICK f \in [1 .. n -> Seq(S)] :
              /\ f[1] = ss[1]
              /\ \A i \in 2 .. n : f[i] = f[i - 1] \o ss[i]
              /\ FlattenSeq(ss) = f[n]
      <4> HIDE DEF ss
      <4> QED
          BY ZenonT(90), <1>1, <2>2, FlattenSteps
    <3> DEFINE Good(k) == /\ \A i \in 1 .. Len(f[k]) : f[k][i] \in 1 .. k
                          /\ Rising(f[k])
               T == {k \in Nat : k + 1 <= n => Good(k + 1)}
    <3>3. 0 \in T
      <4>1. f[1] = << 1 >> \/ f[1] = << >>
          BY <3>1, <3>2
      <4>2. Good(1)
          BY SMTT(60), <4>1
      <4> HIDE DEF Good
      <4> QED
          BY <4>2
    <3>4. ASSUME NEW k \in Nat, k \in T PROVE k + 1 \in T
      <4> SUFFICES ASSUME (k + 1) + 1 <= n PROVE Good((k + 1) + 1)
          OBVIOUS
      <4> DEFINE j == (k + 1) + 1
      <4>1. j \in 2 .. n /\ j \in 1 .. n /\ j - 1 = k + 1 /\ k + 1 \in 1 .. n
          OBVIOUS
      <4>2. Good(k + 1)
          BY <3>4
      <4>3. f[j] = f[k + 1] \o ss[j] /\ f[k + 1] \in Seq(S) /\ f[k + 1] \in Seq(Nat)
        <5>1. S \subseteq Nat
            OBVIOUS
        <5> HIDE DEF j, ss, S
        <5>2. f[j] = f[k + 1] \o ss[j] /\ f[k + 1] \in Seq(S)
            BY <3>2, <4>1
        <5> QED
            BY <5>1, <5>2, SeqMonotonic
      <4>4. CASE flags[j]
        <5>1. f[j] = f[k + 1] \o << j >>
            BY <4>1, <4>3, <4>4
        <5> DEFINE p == f[k + 1]
                   m == k + 1
        <5>2. /\ m \in Nat /\ p \in Seq(Nat) /\ f[j] = p \o << m + 1 >>
              /\ \A i \in 1 .. Len(p) : p[i] \in 1 .. m
              /\ \A a, b \in 1 .. Len(p) : a < b => p[a] < p[b]
          <6>1. m \in Nat /\ m + 1 = j
              OBVIOUS
          <6>2. /\ \A i \in 1 .. Len(p) : p[i] \in 1 .. m
                /\ \A a, b \in 1 .. Len(p) : a < b => p[a] < p[b]
            <7> HIDE DEF j
            <7> QED
                BY <4>2
          <6> HIDE DEF m, j
          <6> QED
              BY <4>3, <5>1, <6>1, <6>2
        <5> HIDE DEF j, p, m
        <5>3. /\ \A i \in 1 .. Len(f[j]) : f[j][i] \in 1 .. m + 1
              /\ \A a, b \in 1 .. Len(f[j]) : a < b => f[j][a] < f[j][b]
            BY <5>2, JoinRising
        <5> QED
            BY <5>3 DEF j, m
      <4>5. CASE ~flags[j]
        <5>1. f[j] = f[k + 1]
            BY <4>1, <4>3, <4>5, ConcatEmptySeq
        <5> QED
            BY SMTT(60), <4>1, <4>2, <5>1
      <4> QED
          BY <4>4, <4>5
    <3>5. Nat \subseteq T
      <4> HIDE DEF T
      <4> QED
          BY <3>3, <3>4, InductOn
    <3>6. Good(n)
      <4>1. n - 1 \in Nat /\ (n - 1) + 1 = n /\ n <= n
          BY <3>1
      <4> HIDE DEF Good
      <4>2. n - 1 \in T
          BY <3>5, <4>1
      <4> QED
          BY <4>1, <4>2
    <3> QED
        BY <1>2, <3>2, <3>6
  <2> QED
      BY <2>1, <2>2
<1> QED
    BY <1>4, <1>5

-----------------------------------------------------------------------------
Size(shape) == Len(shape.state)

Nodes(shape) == 1 .. Size(shape)

\* What the rest needs of a compiled hierarchy: different states, depths that grow
\* by one from parent to child, and destinations at or below their states.
Hierarchy(shape) ==
    /\ Size(shape) \in Nat
    /\ DOMAIN shape.state = Nodes(shape)
    /\ \A i, j \in Nodes(shape) : shape.state[i] = shape.state[j] => i = j
    /\ \A i \in Nodes(shape) :
          /\ shape.parent[i] \in 0 .. Size(shape)
          /\ shape.depth[i] \in Nat
          /\ shape.depth[i] = IF shape.parent[i] = 0 THEN 0 ELSE shape.depth[shape.parent[i]] + 1

\* The number of states that a node leaves when everything is left.
Level(shape, i) == IF i = 0 THEN 0 ELSE shape.depth[i] + 1

Above(shape, i) == IF i = 0 THEN 0 ELSE shape.parent[i]

\* The nodes of a climb of n steps.
Climb(shape, i, n, g) ==
    /\ g \in [0 .. n -> 0 .. Size(shape)]
    /\ g[0] = i
    /\ \A k \in 1 .. n : g[k] = Above(shape, g[k - 1])
    /\ Up(shape, i, n) = g[n]

(* The climb from a node, one step at a time (position.go,                   *)
(* leastCommonAncestor and Path).                                           *)
LEMMA UpSteps ==
    ASSUME NEW shape, Hierarchy(shape), NEW i \in 0 .. Size(shape), NEW n \in Nat
    PROVE  \E g : Climb(shape, i, n, g)
<1> DEFINE V == 0 .. Size(shape)
           F == [p \in V \X (1 .. n) |-> Above(shape, p[1])]
           Good(f) == f = [k \in 0 .. n |-> IF k = 0 THEN i
                              ELSE IF f[k - 1] = 0 THEN 0 ELSE shape.parent[f[k - 1]]]
           c == CHOOSE f : Good(f)
<1>1. \A x \in V : Above(shape, x) \in V
    BY DEF Hierarchy, Above, Nodes
<1>2. F \in [V \X (1 .. n) -> V]
    BY <1>1
<1>3. PICK g : Loops(V, i, n, F, g)
  <2> HIDE DEF F
  <2> QED
      BY <1>2, Iterates
<1>4. g \in [0 .. n -> V] /\ g[0] = i
  <2>1. 0 \in 0 .. n
      OBVIOUS
  <2> HIDE DEF F, V, Good, c
  <2>2. g \in [0 .. n -> V]
      BY <1>3 DEF Loops
  <2>3. g[0] = i
      BY <1>3, <2>1 DEF Loops
  <2> QED
      BY <2>2, <2>3
<1>5. ASSUME NEW k \in 1 .. n PROVE g[k] = Above(shape, g[k - 1]) /\ g[k - 1] \in V
  <2>1. k \in 0 .. n /\ k # 0 /\ k - 1 \in 0 .. n
      OBVIOUS
  <2>2. g[k - 1] \in V /\ g[k] = F[<< g[k - 1], k >>]
      BY <1>3, <1>4, <2>1 DEF Loops
  <2> QED
      BY <2>2
<1>6. Good(g)
  <2> DEFINE h == [k \in 0 .. n |-> IF k = 0 THEN i
                              ELSE IF g[k - 1] = 0 THEN 0 ELSE shape.parent[g[k - 1]]]
  <2>1. ASSUME NEW k \in 0 .. n PROVE g[k] = h[k]
    <3>1. CASE k = 0
        BY <1>4, <3>1
    <3>2. CASE k # 0
      <4>1. k \in 1 .. n
          BY <3>2
      <4> QED
          BY <1>5, <3>2, <4>1 DEF Above
    <3> QED
        BY <3>1, <3>2
  <2>2. g = h
      BY <1>4, <2>1
  <2> QED
      BY <2>2
<1>7. Good(c)
  <2> HIDE DEF Good
  <2> QED
      BY <1>6
<1>8. /\ c[0] = i
      /\ \A k \in 1 .. n : c[k] = IF c[k - 1] = 0 THEN 0 ELSE shape.parent[c[k - 1]]
  <2>1. 0 \in 0 .. n /\ \A k \in 1 .. n : k \in 0 .. n /\ k # 0
      OBVIOUS
  <2> HIDE DEF c
  <2> QED
      BY <1>7, <2>1
<1> HIDE DEF c, Good, F
<1>9. \A k \in 0 .. n : c[k] = g[k]
  <2> DEFINE T == {k \in Nat : k <= n => c[k] = g[k]}
  <2>1. 0 \in T
      BY <1>4, <1>8
  <2>2. ASSUME NEW k \in Nat, k \in T PROVE k + 1 \in T
    <3> SUFFICES ASSUME k + 1 <= n PROVE c[k + 1] = g[k + 1]
        OBVIOUS
    <3>1. k + 1 \in 1 .. n /\ (k + 1) - 1 = k /\ c[k] = g[k]
        BY <2>2
    <3>2. c[k + 1] = IF c[k] = 0 THEN 0 ELSE shape.parent[c[k]]
        BY <1>8, <3>1
    <3>3. g[k + 1] = Above(shape, g[k])
        BY <1>5, <3>1
    <3> QED
        BY <3>1, <3>2, <3>3 DEF Above
  <2>3. Nat \subseteq T
    <3> HIDE DEF T
    <3> QED
        BY <2>1, <2>2, InductOn
  <2> QED
      BY <2>3
<1>10. Up(shape, i, n) = g[n]
    BY <1>9 DEF Up, c, Good
<1>11. Climb(shape, i, n, g)
    BY <1>4, <1>5, <1>10 DEF Climb
<1> QED
    BY <1>11

(* Where a climb is after n steps (position.go, leastCommonAncestor).        *)
LEMMA UpFacts ==
    ASSUME NEW shape, Hierarchy(shape), NEW i \in 0 .. Size(shape)
    PROVE  /\ Up(shape, i, 0) = i
           /\ \A n \in Nat : /\ Up(shape, i, n) \in 0 .. Size(shape)
                             /\ Up(shape, i, n + 1) = Above(shape, Up(shape, i, n))
<1>1. ASSUME NEW n \in Nat
      PROVE  /\ Up(shape, i, n) \in 0 .. Size(shape)
             /\ n = 0 => Up(shape, i, n) = i
  <2>1. PICK g : Climb(shape, i, n, g)
      BY UpSteps
  <2> QED
      BY <2>1 DEF Climb
<1>2. ASSUME NEW n \in Nat
      PROVE  Up(shape, i, n + 1) = Above(shape, Up(shape, i, n))
  <2>1. PICK g : Climb(shape, i, n, g)
      BY UpSteps
  <2>2. PICK h : Climb(shape, i, n + 1, h)
    <3>1. n + 1 \in Nat
        OBVIOUS
    <3> QED
        BY <3>1, UpSteps
  <2> DEFINE T == {k \in Nat : k <= n => g[k] = h[k]}
  <2>3. 0 \in T
      BY <2>1, <2>2 DEF Climb
  <2>4. ASSUME NEW k \in Nat, k \in T PROVE k + 1 \in T
    <3> SUFFICES ASSUME k + 1 <= n PROVE g[k + 1] = h[k + 1]
        OBVIOUS
    <3>1. k + 1 \in 1 .. n /\ k + 1 \in 1 .. n + 1 /\ (k + 1) - 1 = k /\ g[k] = h[k]
        BY <2>4
    <3> QED
        BY <2>1, <2>2, <3>1 DEF Climb
  <2>5. Nat \subseteq T
    <3> HIDE DEF T
    <3> QED
        BY <2>3, <2>4, InductOn
  <2>6. g[n] = h[n]
      BY <2>5
  <2>7. n + 1 \in 1 .. n + 1 /\ (n + 1) - 1 = n
      OBVIOUS
  <2> QED
      BY <2>1, <2>2, <2>6, <2>7 DEF Climb
<1> QED
    BY <1>1, <1>2

(* Two climbs in a row (position.go, leastCommonAncestor).                   *)
LEMMA UpAdds ==
    ASSUME NEW shape, Hierarchy(shape), NEW i \in 0 .. Size(shape), NEW m \in Nat
    PROVE  \A n \in Nat : Up(shape, Up(shape, i, m), n) = Up(shape, i, m + n)
<1> DEFINE T == {n \in Nat : Up(shape, Up(shape, i, m), n) = Up(shape, i, m + n)}
<1>1. Up(shape, i, m) \in 0 .. Size(shape)
    BY UpFacts
<1>2. 0 \in T
    BY <1>1, UpFacts
<1>3. ASSUME NEW n \in Nat, n \in T PROVE n + 1 \in T
  <2>1. m + n \in Nat /\ m + (n + 1) = (m + n) + 1
      OBVIOUS
  <2>2. Up(shape, i, (m + n) + 1) = Above(shape, Up(shape, i, m + n))
      BY <2>1, UpFacts
  <2>3. Up(shape, Up(shape, i, m), n + 1) = Above(shape, Up(shape, Up(shape, i, m), n))
      BY <1>1, UpFacts
  <2> QED
      BY <1>3, <2>1, <2>2, <2>3
<1>4. Nat \subseteq T
  <2> HIDE DEF T
  <2> QED
      BY <1>2, <1>3, InductOn
<1> QED
    BY <1>4

(* A climb leaves one level with every step, until it is above the roots     *)
(* (position.go, compileShape).                                             *)
LEMMA UpLevels ==
    ASSUME NEW shape, Hierarchy(shape), NEW i \in 0 .. Size(shape)
    PROVE  /\ Level(shape, i) \in Nat
           /\ Level(shape, i) = 0 <=> i = 0
           /\ \A n \in 0 .. Level(shape, i) :
                 Level(shape, Up(shape, i, n)) = Level(shape, i) - n
<1>1. \A x \in 0 .. Size(shape) :
          /\ Level(shape, x) \in Nat
          /\ Level(shape, x) = 0 <=> x = 0
          /\ x # 0 => Level(shape, Above(shape, x)) = Level(shape, x) - 1
    BY DEF Level, Above, Hierarchy, Nodes
<1> DEFINE T == {n \in Nat : n <= Level(shape, i) =>
                                Level(shape, Up(shape, i, n)) = Level(shape, i) - n}
<1>2. 0 \in T
    BY <1>1, UpFacts
<1>3. ASSUME NEW n \in Nat, n \in T PROVE n + 1 \in T
  <2> SUFFICES ASSUME n + 1 <= Level(shape, i)
               PROVE  Level(shape, Up(shape, i, n + 1)) = Level(shape, i) - (n + 1)
      OBVIOUS
  <2> DEFINE x == Up(shape, i, n)
             l == Level(shape, i)
  <2>1. x \in 0 .. Size(shape) /\ Up(shape, i, n + 1) = Above(shape, x)
      BY UpFacts
  <2>2. Level(shape, x) = l - n /\ l \in Nat /\ n + 1 <= l
      BY <1>1, <1>3
  <2> HIDE DEF x, l
  <2>3. Level(shape, x) # 0
      BY <2>2
  <2>4. Level(shape, Above(shape, x)) = l - (n + 1)
      BY <1>1, <2>1, <2>2, <2>3
  <2> QED
      BY <2>1, <2>4 DEF l
<1>4. Nat \subseteq T
  <2> HIDE DEF T
  <2> QED
      BY <1>2, <1>3, InductOn
<1> QED
    BY <1>1, <1>4

(* A climb to a node is no longer than its lineage (position.go, Path).      *)
LEMMA UpReaches ==
    ASSUME NEW shape, Hierarchy(shape), NEW i \in 0 .. Size(shape), NEW n \in Nat,
           Up(shape, i, n) # 0
    PROVE  /\ Level(shape, Up(shape, i, n)) = Level(shape, i) - n
           /\ n < Level(shape, i)
<1> DEFINE l == Level(shape, i)
<1>1. l \in Nat /\ \A x \in 0 .. Size(shape) : Level(shape, x) = 0 => x = 0
    BY UpLevels
<1>2. \A m \in 0 .. l : Level(shape, Up(shape, i, m)) = l - m
    BY UpLevels
<1> HIDE DEF l
<1>3. Up(shape, i, l) \in 0 .. Size(shape) /\ Up(shape, i, n) \in 0 .. Size(shape)
    BY <1>1, UpFacts
<1>4. Up(shape, i, l) = 0
  <2>1. l \in 0 .. l /\ l - l = 0
      BY <1>1
  <2> QED
      BY <1>1, <1>2, <1>3, <2>1
<1>5. \A k \in Nat : Up(shape, 0, k) = 0
  <2> DEFINE T == {k \in Nat : Up(shape, 0, k) = 0}
  <2>1. 0 \in 0 .. Size(shape)
      BY DEF Hierarchy
  <2>2. 0 \in T
      BY <2>1, UpFacts
  <2>3. ASSUME NEW k \in Nat, k \in T PROVE k + 1 \in T
      BY <2>1, <2>3, UpFacts DEF Above
  <2>4. Nat \subseteq T
    <3> HIDE DEF T
    <3> QED
        BY <2>2, <2>3, InductOn
  <2> QED
      BY <2>4
<1>6. ASSUME n >= l PROVE FALSE
  <2>1. n - l \in Nat /\ l + (n - l) = n
      BY <1>1, <1>6
  <2>2. Up(shape, i, n) = Up(shape, 0, n - l)
      BY <1>1, <1>4, <2>1, UpAdds
  <2> QED
      BY <1>5, <2>1, <2>2
<1>7. n \in 0 .. l /\ n < l
    BY <1>1, <1>6
<1> QED
    BY <1>2, <1>7 DEF l

(* The least of some numbers (position.go, leastCommonAncestor).             *)
LEMMA MinFacts ==
    ASSUME NEW S \in SUBSET Nat, S # {}
    PROVE  Min(S) \in S /\ \A m \in S : Min(S) <= m
<1>1. \E n \in S : \A m \in S : n <= m
    BY Least
<1> QED
    BY <1>1 DEF Min

\* Node a is at or above node i.
AtOrAbove(shape, a, i) ==
    /\ a \in 0 .. Size(shape)
    /\ Level(shape, a) <= Level(shape, i)
    /\ a = Up(shape, i, Level(shape, i) - Level(shape, a))

(* What a climb comes to is at or above its beginning (position.go).         *)
LEMMA UpAtOrAbove ==
    ASSUME NEW shape, Hierarchy(shape), NEW i \in 0 .. Size(shape),
           NEW n \in 0 .. Level(shape, i)
    PROVE  AtOrAbove(shape, Up(shape, i, n), i)
<1> DEFINE l == Level(shape, i)
<1>1. l \in Nat /\ Level(shape, Up(shape, i, n)) = l - n /\ n \in 0 .. l
    BY UpLevels
<1>2. Up(shape, i, n) \in 0 .. Size(shape)
    BY <1>1, UpFacts
<1> HIDE DEF l
<1>3. l - n <= l /\ l - (l - n) = n
    BY <1>1
<1> QED
    BY <1>1, <1>2, <1>3 DEF AtOrAbove, l

(* Above a node that is above another one (position.go).                     *)
LEMMA AboveAbove ==
    ASSUME NEW shape, Hierarchy(shape), NEW i \in 0 .. Size(shape),
           NEW a, AtOrAbove(shape, a, i), NEW b, AtOrAbove(shape, b, a)
    PROVE  AtOrAbove(shape, b, i)
<1> DEFINE x == Level(shape, i) - Level(shape, a)
           y == Level(shape, a) - Level(shape, b)
<1>1. /\ a \in 0 .. Size(shape) /\ b \in 0 .. Size(shape)
      /\ Level(shape, i) \in Nat /\ Level(shape, a) \in Nat /\ Level(shape, b) \in Nat
    BY UpLevels DEF AtOrAbove
<1>2. x \in Nat /\ y \in Nat /\ x + y = Level(shape, i) - Level(shape, b)
      /\ Level(shape, b) <= Level(shape, i)
    BY <1>1 DEF AtOrAbove
<1>3. a = Up(shape, i, x) /\ b = Up(shape, a, y)
    BY DEF AtOrAbove
<1> HIDE DEF x, y
<1>4. b = Up(shape, i, x + y)
    BY <1>2, <1>3, UpAdds
<1> QED
    BY <1>1, <1>2, <1>4 DEF AtOrAbove

(* Both nodes lie below their common ancestor (position.go,                  *)
(* leastCommonAncestor).                                                    *)
LEMMA CommonAncestorIsAbove ==
    ASSUME NEW shape, Hierarchy(shape),
           NEW left \in Nodes(shape), NEW right \in Nodes(shape)
    PROVE  /\ AtOrAbove(shape, LeastCommonAncestor(shape, left, right), left)
           /\ AtOrAbove(shape, LeastCommonAncestor(shape, left, right), right)
<1> DEFINE dl == shape.depth[left]
           dr == shape.depth[right]
           d == Min({dl, dr})
           l == Up(shape, left, dl - d)
           r == Up(shape, right, dr - d)
           climbs == {n \in 0 .. d + 1 : Up(shape, l, n) = Up(shape, r, n)}
           m == Min(climbs)
<1>1. dl \in Nat /\ dr \in Nat
    BY DEF Hierarchy
<1>2. left \in 0 .. Size(shape) /\ right \in 0 .. Size(shape) /\ left # 0 /\ right # 0
    BY DEF Nodes, Hierarchy
<1>3. Level(shape, left) = dl + 1 /\ Level(shape, right) = dr + 1
    BY <1>2 DEF Level
<1>4. d \in Nat /\ d <= dl /\ d <= dr
  <2> HIDE DEF dl, dr
  <2>1. {dl, dr} \in SUBSET Nat /\ {dl, dr} # {}
      BY <1>1
  <2>2. d \in {dl, dr} /\ \A x \in {dl, dr} : d <= x
    <3>1. \A S \in SUBSET Nat : S # {} => Min(S) \in S /\ \A x \in S : Min(S) <= x
        BY MinFacts
    <3> QED
        BY <2>1, <3>1
  <2> QED
      BY <1>1, <2>2
<1> HIDE DEF dl, dr, d
<1>5. dl - d \in 0 .. dl + 1 /\ dr - d \in 0 .. dr + 1 /\ (dl + 1) - (dl - d) = d + 1
      /\ (dr + 1) - (dr - d) = d + 1
    BY <1>1, <1>4
<1>6. /\ l \in 0 .. Size(shape) /\ Level(shape, l) = d + 1 /\ AtOrAbove(shape, l, left)
      /\ r \in 0 .. Size(shape) /\ Level(shape, r) = d + 1 /\ AtOrAbove(shape, r, right)
  <2>1. AtOrAbove(shape, l, left) /\ AtOrAbove(shape, r, right)
      BY <1>2, <1>3, <1>5, UpAtOrAbove
  <2>2. Level(shape, l) = d + 1 /\ Level(shape, r) = d + 1
      BY <1>2, <1>3, <1>5, UpLevels
  <2> QED
      BY <2>1, <2>2 DEF AtOrAbove
<1> HIDE DEF l, r
<1>7. d + 1 \in climbs
  <2>1. d + 1 \in 0 .. d + 1 /\ (d + 1) - (d + 1) = 0 /\ d + 1 \in Nat
      BY <1>4
  <2>2. Level(shape, Up(shape, l, d + 1)) = 0 /\ Level(shape, Up(shape, r, d + 1)) = 0
      BY <1>6, <2>1, UpLevels
  <2>3. Up(shape, l, d + 1) \in 0 .. Size(shape) /\ Up(shape, r, d + 1) \in 0 .. Size(shape)
      BY <1>6, <2>1, UpFacts
  <2>4. Up(shape, l, d + 1) = 0 /\ Up(shape, r, d + 1) = 0
      BY <2>2, <2>3, UpLevels
  <2> QED
      BY <2>1, <2>4
<1>8. m \in climbs
  <2>1. climbs \in SUBSET Nat
      BY <1>4
  <2> HIDE DEF climbs
  <2> QED
      BY <1>7, <2>1, MinFacts
<1>9. m \in 0 .. d + 1 /\ Up(shape, l, m) = Up(shape, r, m)
    BY <1>8
<1>10. LeastCommonAncestor(shape, left, right) = Up(shape, l, m)
    BY DEF LeastCommonAncestor, l, r, d, dl, dr
<1> HIDE DEF m
<1>11. AtOrAbove(shape, Up(shape, l, m), l) /\ AtOrAbove(shape, Up(shape, r, m), r)
    BY <1>6, <1>9, UpAtOrAbove
<1> QED
    BY <1>2, <1>6, <1>9, <1>10, <1>11, AboveAbove

(* Exits stop at or above the source, and entries begin at or above the      *)
(* target (position.go, paths).                                             *)
LEMMA StopIsAbove ==
    ASSUME NEW shape, Hierarchy(shape),
           NEW source \in Nodes(shape), NEW target \in Nodes(shape), NEW reentry,
           reentry => AtOrAbove(shape, target, source)
    PROVE  /\ AtOrAbove(shape, Stop(shape, source, target, reentry), source)
           /\ AtOrAbove(shape, Stop(shape, source, target, reentry), target)
<1> DEFINE up == shape.parent[target]
<1>1. CASE reentry
  <2>1. source \in 0 .. Size(shape) /\ target \in 0 .. Size(shape) /\ target # 0
      BY DEF Nodes, Hierarchy
  <2>2. Level(shape, target) \in Nat /\ Level(shape, target) # 0
      BY <2>1, UpLevels
  <2>3. 1 \in 0 .. Level(shape, target)
      BY <2>2
  <2>4. Up(shape, target, 1) = up
    <3>1. 0 \in Nat /\ 0 + 1 = 1
        OBVIOUS
    <3>2. Up(shape, target, 0 + 1) = Above(shape, Up(shape, target, 0)) /\ Up(shape, target, 0) = target
        BY <2>1, <3>1, UpFacts
    <3> QED
        BY <2>1, <3>1, <3>2 DEF Above
  <2>5. AtOrAbove(shape, up, target)
      BY <2>1, <2>3, <2>4, UpAtOrAbove
  <2>6. AtOrAbove(shape, up, source)
      BY <1>1, <2>1, <2>5, AboveAbove
  <2> QED
      BY <1>1, <2>5, <2>6 DEF Stop
<1>2. CASE ~reentry
    BY <1>2, CommonAncestorIsAbove DEF Stop
<1> QED
    BY <1>1, <1>2

\* The exits climb from the source to a node, the entries descend from it to the
\* destination.
Leads(shape, source, destination, exits, entries, stop) ==
    /\ AtOrAbove(shape, stop, source)
    /\ AtOrAbove(shape, stop, destination)
    /\ exits = [k \in 1 .. Level(shape, source) - Level(shape, stop) |-> Up(shape, source, k - 1)]
    /\ entries = [k \in 1 .. Level(shape, destination) - Level(shape, stop) |->
                     Up(shape, destination, Level(shape, destination) - Level(shape, stop) - k)]

(* Exits lead up from the source and entries down to the destination, from   *)
(* and to the same node (position.go, paths).                               *)
LEMMA PathsLead ==
    ASSUME NEW shape, Hierarchy(shape),
           NEW source \in Nodes(shape), NEW target \in Nodes(shape),
           NEW destination \in Nodes(shape), NEW reentry,
           reentry => AtOrAbove(shape, target, source),
           AtOrAbove(shape, target, destination)
    PROVE  LET p == Paths(shape, source, target, destination, reentry)
           IN  Leads(shape, source, destination, p.exits, p.entries,
                     Stop(shape, source, target, reentry))
<1> DEFINE stop == Stop(shape, source, target, reentry)
           depth == IF stop = 0 THEN -1 ELSE shape.depth[stop]
           p == Paths(shape, source, target, destination, reentry)
<1>1. /\ source \in 0 .. Size(shape) /\ source # 0
      /\ destination \in 0 .. Size(shape) /\ destination # 0
    BY DEF Nodes, Hierarchy
<1>2. AtOrAbove(shape, stop, source) /\ AtOrAbove(shape, stop, target)
    BY StopIsAbove
<1>3. AtOrAbove(shape, stop, destination)
    BY <1>1, <1>2, AboveAbove
<1> HIDE DEF stop
<1>4. stop \in 0 .. Size(shape)
    BY <1>2 DEF AtOrAbove
<1>5. /\ shape.depth[source] \in Nat /\ Level(shape, source) = shape.depth[source] + 1
      /\ shape.depth[destination] \in Nat /\ Level(shape, destination) = shape.depth[destination] + 1
    BY <1>1 DEF Level, Hierarchy
<1>6. depth = Level(shape, stop) - 1 /\ Level(shape, stop) \in Nat
    BY <1>4, UpLevels DEF Level, Hierarchy, Nodes
<1>7. /\ shape.depth[source] - depth = Level(shape, source) - Level(shape, stop)
      /\ shape.depth[destination] - depth = Level(shape, destination) - Level(shape, stop)
  <2> HIDE DEF depth
  <2> QED
      BY <1>5, <1>6
<1>8. /\ p.exits = [k \in 1 .. shape.depth[source] - depth |-> Up(shape, source, k - 1)]
      /\ p.entries = EntryPath(shape, destination, shape.depth[destination] - depth)
    BY DEF Paths, stop
<1> HIDE DEF depth, p
<1>9. /\ p.exits = [k \in 1 .. Level(shape, source) - Level(shape, stop) |-> Up(shape, source, k - 1)]
      /\ p.entries = EntryPath(shape, destination, Level(shape, destination) - Level(shape, stop))
    BY <1>7, <1>8
<1>10. Leads(shape, source, destination, p.exits, p.entries, stop)
    BY <1>2, <1>3, <1>9 DEF Leads, EntryPath
<1> QED
    BY <1>10 DEF p, stop

\* The lineage of a node, from itself to its root; nothing above the roots.
Lineage(shape, i) == [k \in 1 .. Level(shape, i) |-> Up(shape, i, k - 1)]

(* A lineage begins with its node, and goes on with the lineage of the       *)
(* parent (position.go, Path).                                              *)
LEMMA LineageFacts ==
    ASSUME NEW shape, Hierarchy(shape), NEW i \in Nodes(shape)
    PROVE  /\ Lineage(shape, 0) = << >>
           /\ Lineage(shape, i) = Path(shape, i)
           /\ Lineage(shape, i) \in Seq(0 .. Size(shape))
           /\ Lineage(shape, i) # << >>
           /\ Head(Lineage(shape, i)) = i
           /\ Tail(Lineage(shape, i)) = Lineage(shape, Above(shape, i))
           /\ << i >> \o Lineage(shape, Above(shape, i)) = Lineage(shape, i)
<1> DEFINE u == Above(shape, i)
           n == Level(shape, u)
           V == 0 .. Size(shape)
           a == Lineage(shape, i)
           b == Lineage(shape, u)
<1>1. i \in V /\ i # 0 /\ u \in V
    BY DEF Nodes, Hierarchy, Above
<1>2. n \in Nat /\ Level(shape, i) = n + 1 /\ Level(shape, i) = shape.depth[i] + 1
  <2>1. Level(shape, i) = shape.depth[i] + 1 /\ shape.depth[i] \in Nat
        /\ shape.depth[i] = Level(shape, u)
      BY <1>1 DEF Level, Above, Hierarchy
  <2> QED
      BY <2>1
<1>3. \A k \in Nat : Up(shape, i, k) \in V /\ Up(shape, u, k) \in V
    BY <1>1, UpFacts
<1>4. \A k \in Nat : Up(shape, i, 1 + k) = Up(shape, u, k)
  <2>1. Up(shape, i, 1) = u
    <3>1. 0 \in Nat /\ 0 + 1 = 1
        OBVIOUS
    <3>2. Up(shape, i, 0 + 1) = Above(shape, Up(shape, i, 0)) /\ Up(shape, i, 0) = i
        BY <1>1, <3>1, UpFacts
    <3> QED
        BY <3>1, <3>2
  <2>2. 1 \in Nat
      OBVIOUS
  <2> QED
      BY <1>1, <2>1, <2>2, UpAdds
<1> HIDE DEF u, n, V
<1>5. a = [k \in 1 .. n + 1 |-> Up(shape, i, k - 1)] /\ b = [k \in 1 .. n |-> Up(shape, u, k - 1)]
    BY <1>2 DEF Lineage, n
<1>6. a \in Seq(V) /\ Len(a) = n + 1 /\ b \in Seq(V) /\ Len(b) = n
  <2>1. \A k \in 1 .. n + 1 : k - 1 \in Nat
      BY <1>2
  <2>2. a \in [1 .. n + 1 -> V] /\ b \in [1 .. n -> V]
      BY <1>2, <1>3, <1>5, <2>1
  <2> HIDE DEF a, b
  <2> QED
      BY <1>2, <2>2
<1>7. a[1] = i
  <2>1. 1 \in 1 .. n + 1 /\ 1 - 1 = 0
      BY <1>2
  <2>2. a[1] = Up(shape, i, 0)
    <3> HIDE DEF a
    <3> QED
        BY <1>5, <2>1
  <2> QED
      BY <1>1, <2>2, UpFacts DEF V
<1>8. ASSUME NEW k \in 1 .. n PROVE a[k + 1] = b[k]
  <2>1. k + 1 \in 1 .. n + 1 /\ (k + 1) - 1 = 1 + (k - 1) /\ k - 1 \in Nat
      BY <1>2
  <2>2. a[k + 1] = Up(shape, i, 1 + (k - 1)) /\ b[k] = Up(shape, u, k - 1)
    <3> HIDE DEF a, b
    <3> QED
        BY <1>5, <2>1
  <2> QED
      BY <1>4, <2>1, <2>2
<1> HIDE DEF a, b
<1>9. Tail(a) = b
  <2>1. a # << >>
      BY <1>2, <1>6, EmptySeq
  <2>2. Tail(a) \in Seq(V) /\ Len(Tail(a)) = n /\ \A k \in 1 .. n : Tail(a)[k] = a[k + 1]
      BY <1>2, <1>6, <2>1
  <2> QED
      BY <1>6, <1>8, <2>2, SeqEqual
<1>10. << i >> \o b = a
  <2> DEFINE c == << i >> \o b
  <2>1. << i >> \in Seq(V) /\ Len(<< i >>) = 1 /\ << i >>[1] = i
      BY <1>1
  <2>2. c \in Seq(V) /\ Len(c) = n + 1 /\ c[1] = i /\ \A k \in 1 .. n : c[k + 1] = b[k]
      BY <1>1, <1>2, <1>6
  <2> HIDE DEF c
  <2>3. ASSUME NEW k \in 1 .. n + 1 PROVE c[k] = a[k]
    <3>1. CASE k = 1
        BY <1>7, <2>2, <3>1
    <3>2. CASE k # 1
      <4>1. k - 1 \in 1 .. n /\ (k - 1) + 1 = k
          BY <1>2, <3>2
      <4> QED
          BY <1>8, <2>2, <4>1
    <3> QED
        BY <3>1, <3>2
  <2>4. c = a
      BY <1>6, <2>2, <2>3, SeqEqual
  <2> QED
      BY <2>4 DEF c
<1>11. a # << >> /\ Head(a) = i
    BY <1>2, <1>6, <1>7, EmptySeq
<1>12. Lineage(shape, 0) = << >>
  <2>1. Level(shape, 0) = 0
      BY DEF Level
  <2> QED
      BY <2>1 DEF Lineage
<1>13. Lineage(shape, i) = Path(shape, i)
    BY <1>2 DEF Lineage, Path
<1> QED
    BY <1>6, <1>9, <1>10, <1>11, <1>12, <1>13 DEF a, b, u, V

(* A loop that does not pass over some elements counts those (statechart.go, *)
(* Fire: the completed actions of a phase).                                 *)
LEMMA CountPositions ==
    ASSUME NEW n \in Nat, NEW flags, DOMAIN flags = 1 .. n
    PROVE  Len(Positions(flags)) = Cardinality({k \in 1 .. n : flags[k]})
<1> DEFINE p == Positions(flags)
           S == {k \in 1 .. n : flags[k]}
<1>1. /\ p \in Seq(1 .. n) /\ ToSet(p) = S
      /\ \A i, j \in 1 .. Len(p) : i < j => p[i] < p[j]
    BY PositionsFacts
<1> HIDE DEF p, S
<1>2. /\ Len(p) \in Nat /\ DOMAIN p = 1 .. Len(p)
      /\ \A i \in 1 .. Len(p) : p[i] \in 1 .. n
    BY <1>1
<1>3. \A i \in 1 .. Len(p) : p[i] \in S
    BY <1>1, <1>2 DEF ToSet
<1>4. p \in [1 .. Len(p) -> S]
  <2>1. p = [i \in 1 .. Len(p) |-> p[i]]
      BY <1>1, <1>2
  <2> QED
      BY <1>3, <2>1
<1>5. \A i, j \in 1 .. Len(p) : p[i] = p[j] => i = j
  <2> TAKE i, j \in 1 .. Len(p)
  <2>1. p[i] \in Int /\ p[j] \in Int
      BY <1>2
  <2>2. i < j \/ i = j \/ j < i
      BY <1>2
  <2> QED
      BY <1>1, <2>1, <2>2
<1>6. \A x \in S : \E i \in 1 .. Len(p) : p[i] = x
    BY <1>1, <1>2 DEF ToSet
<1>7. p \in Bijection(1 .. Len(p), S)
  <2>1. p \in Injection(1 .. Len(p), S)
      BY <1>2, <1>4, <1>5 DEF Injection, IsInjective
  <2>2. p \in Surjection(1 .. Len(p), S)
      BY <1>4, <1>6 DEF Surjection
  <2> QED
      BY <2>1, <2>2 DEF Bijection
<1>8. ExistsBijection(1 .. Len(p), S)
    BY <1>7 DEF ExistsBijection
<1>9. Cardinality(S) = Len(p)
    BY <1>2, <1>8, FS_CountingElements
<1> QED
    BY <1>9 DEF p, S

(* What a loop of n iterations makes, one element each, is a list.           *)
LEMMA ListOf ==
    ASSUME NEW S, NEW n \in Nat, NEW f, f \in [1 .. n -> S]
    PROVE  f \in Seq(S) /\ Len(f) = n /\ DOMAIN f = 1 .. n
OBVIOUS

-----------------------------------------------------------------------------
Rows(ch) == 1 .. Len(ch.transitions)

\* What the rest needs of a compiled Chart.
ChartSound(ch) ==
    /\ Hierarchy(ch.shape)
    /\ \A i \in Nodes(ch.shape) :
          /\ ch.shape.destination[i] \in Nodes(ch.shape)
          /\ AtOrAbove(ch.shape, i, ch.shape.destination[i])
    /\ Len(ch.transitions) \in Nat
    /\ DOMAIN ch.transitions = Rows(ch)
    /\ \A k \in Rows(ch) :
          /\ \E i \in Nodes(ch.shape) : ch.shape.state[i] = ch.transitions[k].to
          /\ ch.transitions[k].kind = "reentry" =>
                ch.transitions[k].from = ch.transitions[k].to

\* A row for the event at a state that is active with the source.
CandidateRows(ch, source, event) ==
    {x \in [handler : Nodes(ch.shape), row : Rows(ch)] :
        /\ AtOrAbove(ch.shape, x.handler, source)
        /\ ch.transitions[x.row].from = ch.shape.state[x.handler]
        /\ ch.transitions[x.row].event = event}

(* The rows of a state for an event (statechart.go, Compile).                *)
LEMMA RowsAtFacts ==
    ASSUME NEW ch, ChartSound(ch), NEW s, NEW event
    PROVE  /\ RowsAt(ch, s, event) \in Seq(Rows(ch))
           /\ ToSet(RowsAt(ch, s, event))
              = {k \in Rows(ch) : ch.transitions[k].from = s /\ ch.transitions[k].event = event}
           /\ \A i, j \in 1 .. Len(RowsAt(ch, s, event)) :
                 i < j => RowsAt(ch, s, event)[i] < RowsAt(ch, s, event)[j]
<1> DEFINE n == Len(ch.transitions)
           flags == [k \in 1 .. n |-> ch.transitions[k].from = s /\ ch.transitions[k].event = event]
<1>1. n \in Nat /\ Rows(ch) = 1 .. n
    BY DEF ChartSound, Rows
<1>2. RowsAt(ch, s, event) = Positions(flags)
    BY DEF RowsAt, ChartSound, Rows
<1>3. DOMAIN flags = 1 .. n
    OBVIOUS
<1>4. \A k \in 1 .. n : flags[k] <=> ch.transitions[k].from = s /\ ch.transitions[k].event = event
    OBVIOUS
<1> HIDE DEF n, flags
<1>5. /\ Positions(flags) \in Seq(1 .. n)
      /\ ToSet(Positions(flags)) = {k \in 1 .. n : flags[k]}
      /\ \A i, j \in 1 .. Len(Positions(flags)) :
            i < j => Positions(flags)[i] < Positions(flags)[j]
    BY <1>1, <1>3, PositionsFacts
<1>6. {k \in 1 .. n : flags[k]}
      = {k \in 1 .. n : ch.transitions[k].from = s /\ ch.transitions[k].event = event}
    BY <1>4
<1> QED
    BY <1>1, <1>2, <1>5, <1>6

(* The states that handle an event for the source are it and those above it  *)
(* (statechart.go, selectTransition; position.go, Path).                     *)
LEMMA HandlersFacts ==
    ASSUME NEW shape, Hierarchy(shape), NEW source \in Nodes(shape)
    PROVE  /\ HandlersOf(shape, source) \in Seq(Nodes(shape))
           /\ \A j \in 1 .. Len(HandlersOf(shape, source)) :
                 AtOrAbove(shape, HandlersOf(shape, source)[j], source)
           /\ \A a \in Nodes(shape) :
                 AtOrAbove(shape, a, source) => a \in ToSet(HandlersOf(shape, source))
<1> DEFINE h == HandlersOf(shape, source)
           l == Level(shape, source)
<1>1. source \in 0 .. Size(shape) /\ source # 0
    BY DEF Nodes, Hierarchy
<1>2. l \in Nat
    BY <1>1, UpLevels
<1>3. h = [k \in 1 .. l |-> Up(shape, source, k - 1)]
    BY LineageFacts DEF HandlersOf, Lineage
<1>4. ASSUME NEW k \in 1 .. l
      PROVE  /\ AtOrAbove(shape, Up(shape, source, k - 1), source)
             /\ Up(shape, source, k - 1) \in Nodes(shape)
  <2>1. k - 1 \in 0 .. l /\ l - (k - 1) # 0 /\ k - 1 \in Nat
      BY <1>2
  <2>2. AtOrAbove(shape, Up(shape, source, k - 1), source)
      BY <1>1, <2>1, UpAtOrAbove
  <2>3. Level(shape, Up(shape, source, k - 1)) = l - (k - 1)
      BY <1>1, <2>1, UpLevels
  <2> HIDE DEF l
  <2>4. Up(shape, source, k - 1) # 0
      BY <2>1, <2>3 DEF Level
  <2>5. Up(shape, source, k - 1) \in 0 .. Size(shape)
      BY <1>1, <2>1, UpFacts
  <2> QED
      BY <2>2, <2>4, <2>5 DEF Nodes, Hierarchy
<1> HIDE DEF h, l
<1>5. h \in [1 .. l -> Nodes(shape)]
    BY <1>3, <1>4
<1>6. h \in Seq(Nodes(shape)) /\ Len(h) = l
    BY <1>2, <1>5
<1>7. ASSUME NEW a \in Nodes(shape), AtOrAbove(shape, a, source)
      PROVE  a \in ToSet(h)
  <2> DEFINE x == Level(shape, a)
  <2>1. a \in 0 .. Size(shape) /\ a # 0
      BY DEF Nodes, Hierarchy
  <2>2. x \in Nat /\ x # 0
      BY <2>1, UpLevels
  <2>3. x <= l /\ a = Up(shape, source, l - x)
      BY <1>7 DEF AtOrAbove, l
  <2> HIDE DEF x
  <2>4. (l - x) + 1 \in 1 .. l /\ ((l - x) + 1) - 1 = l - x
      BY <1>2, <2>2, <2>3
  <2>5. h[(l - x) + 1] = a
      BY <1>3, <2>3, <2>4
  <2> QED
      BY <1>5, <2>4, <2>5 DEF ToSet
<1>8. \A j \in 1 .. l : AtOrAbove(shape, h[j], source)
    BY <1>3, <1>4
<1> QED
    BY <1>6, <1>7, <1>8 DEF h

(* Every candidate is a row for the event at an active state (statechart.go, *)
(* selectTransition).                                                       *)
LEMMA CandidatesFacts ==
    ASSUME NEW ch, ChartSound(ch), NEW source \in Nodes(ch.shape), NEW event
    PROVE  Candidates(ch, source, event) \in Seq(CandidateRows(ch, source, event))
<1> DEFINE S == CandidateRows(ch, source, event)
           h == HandlersOf(ch.shape, source)
           rows(i) == RowsAt(ch, ch.shape.state[i], event)
           at(i) == [j \in DOMAIN rows(i) |-> [handler |-> i, row |-> rows(i)[j]]]
           ss == [j \in DOMAIN h |-> at(h[j])]
<1>1. Hierarchy(ch.shape)
    BY DEF ChartSound
<1>2. /\ h \in Seq(Nodes(ch.shape))
      /\ \A j \in 1 .. Len(h) : AtOrAbove(ch.shape, h[j], source)
    BY <1>1, HandlersFacts
<1> HIDE DEF h
<1>3. Len(h) \in Nat /\ DOMAIN h = 1 .. Len(h) /\ \A j \in 1 .. Len(h) : h[j] \in Nodes(ch.shape)
    BY <1>2
<1>4. ASSUME NEW i \in Nodes(ch.shape), AtOrAbove(ch.shape, i, source)
      PROVE  at(i) \in Seq(S)
  <2> DEFINE r == rows(i)
  <2>1. /\ r \in Seq(Rows(ch))
        /\ ToSet(r) = {k \in Rows(ch) : /\ ch.transitions[k].from = ch.shape.state[i]
                                        /\ ch.transitions[k].event = event}
      BY RowsAtFacts
  <2> HIDE DEF r
  <2>2. Len(r) \in Nat /\ DOMAIN r = 1 .. Len(r)
      BY <2>1
  <2>3. ASSUME NEW j \in 1 .. Len(r) PROVE [handler |-> i, row |-> r[j]] \in S
    <3>1. r[j] \in ToSet(r)
        BY <2>2 DEF ToSet
    <3> QED
        BY <1>4, <2>1, <3>1 DEF CandidateRows
  <2> HIDE DEF S
  <2>4. [j \in 1 .. Len(r) |-> [handler |-> i, row |-> r[j]]] \in [1 .. Len(r) -> S]
      BY <2>3
  <2>5. at(i) = [j \in 1 .. Len(r) |-> [handler |-> i, row |-> r[j]]]
      BY <2>2 DEF r
  <2> HIDE DEF at
  <2> QED
      BY <2>2, <2>4, <2>5
<1>5. ss \in Seq(Seq(S))
  <2>1. \A j \in 1 .. Len(h) : at(h[j]) \in Seq(S)
      BY <1>2, <1>3, <1>4
  <2> HIDE DEF at, S
  <2>2. ss \in [1 .. Len(h) -> Seq(S)]
      BY <1>3, <2>1
  <2> HIDE DEF ss
  <2> QED
      BY <1>3, <2>2
<1>6. Candidates(ch, source, event) = FlattenSeq(ss)
    BY DEF Candidates, h
<1> HIDE DEF ss, S
<1>7. FlattenSeq(ss) \in Seq(S)
    BY <1>5, FlattenFacts
<1> QED
    BY <1>6, <1>7 DEF S

(* Where a state stands among the declared ones (position.go, stateIndex).   *)
LEMMA IndexOfFacts ==
    ASSUME NEW order, NEW s, \E i \in DOMAIN order : order[i] = s
    PROVE  IndexOf(order, s) \in DOMAIN order /\ order[IndexOf(order, s)] = s
BY DEF IndexOf

(* The actions of a transition that commits lead from the source to the      *)
(* destination of the row (statechart.go, Fire; position.go, paths).         *)
LEMMA SelectedLeads ==
    ASSUME NEW ch, ChartSound(ch), NEW source \in Nodes(ch.shape), NEW event,
           NEW x \in CandidateRows(ch, source, event)
    PROVE  LET t == ch.transitions[x.row]
               target == IndexOf(ch.shape.state, t.to)
               destination == DestinationOf(ch, source, x.row)
               p == Paths(ch.shape, source, target, destination, t.kind = "reentry")
           IN  /\ destination \in Nodes(ch.shape)
               /\ t.kind # "internal" =>
                     Leads(ch.shape, source, destination, p.exits, p.entries,
                           Stop(ch.shape, source, target, t.kind = "reentry"))
<1> DEFINE t == ch.transitions[x.row]
           target == IndexOf(ch.shape.state, t.to)
           destination == DestinationOf(ch, source, x.row)
<1>1. /\ x.row \in Rows(ch) /\ x.handler \in Nodes(ch.shape)
      /\ AtOrAbove(ch.shape, x.handler, source) /\ t.from = ch.shape.state[x.handler]
    BY DEF CandidateRows
<1>2. Hierarchy(ch.shape) /\ DOMAIN ch.shape.state = Nodes(ch.shape)
    BY DEF ChartSound, Hierarchy
<1>3. target \in Nodes(ch.shape) /\ ch.shape.state[target] = t.to
  <2>1. \E i \in DOMAIN ch.shape.state : ch.shape.state[i] = t.to
      BY <1>1, <1>2 DEF ChartSound
  <2> QED
      BY <1>2, <2>1, IndexOfFacts
<1>4. CASE t.kind = "internal"
  <2>1. destination = source
      BY SMTT(60), <1>4 DEF DestinationOf
  <2> QED
      BY <1>4, <2>1
<1>5. CASE t.kind # "internal"
  <2>1. destination = ch.shape.destination[target]
      BY <1>5 DEF DestinationOf
  <2>2. destination \in Nodes(ch.shape) /\ AtOrAbove(ch.shape, target, destination)
      BY <1>3, <2>1 DEF ChartSound
  <2>3. t.kind = "reentry" => AtOrAbove(ch.shape, target, source)
    <3> SUFFICES ASSUME t.kind = "reentry" PROVE target = x.handler
        BY <1>1
    <3>1. t.from = t.to
        BY <1>1 DEF ChartSound
    <3>2. ch.shape.state[target] = ch.shape.state[x.handler]
        BY <1>1, <1>3, <3>1
    <3> QED
        BY <1>1, <1>2, <1>3, <3>2 DEF Hierarchy
  <2> HIDE DEF t, target, destination
  <2>4. Leads(ch.shape, source, destination,
              Paths(ch.shape, source, target, destination, t.kind = "reentry").exits,
              Paths(ch.shape, source, target, destination, t.kind = "reentry").entries,
              Stop(ch.shape, source, target, t.kind = "reentry"))
      BY <1>2, <1>3, <2>2, <2>3, PathsLead
  <2> QED
      BY <2>2, <2>4 DEF t, target, destination
<1> QED
    BY <1>4, <1>5

-----------------------------------------------------------------------------
RowEvents(ch) == {ch.transitions[k].event : k \in Rows(ch)}

(* A state lists the events of its rows (position.go, Compile: events).      *)
LEMMA EventsAtFacts ==
    ASSUME NEW ch, ChartSound(ch), NEW s
    PROVE  /\ EventsAt(ch, s) \in Seq(RowEvents(ch))
           /\ \A k \in Rows(ch) :
                 ch.transitions[k].from = s => ch.transitions[k].event \in ToSet(EventsAt(ch, s))
<1> DEFINE n == Len(ch.transitions)
           First(k) == /\ ch.transitions[k].from = s
                       /\ RowsAt(ch, s, ch.transitions[k].event)[1] = k
           flags == [k \in DOMAIN ch.transitions |-> First(k)]
           rows == Positions(flags)
<1>1. n \in Nat /\ Rows(ch) = 1 .. n /\ DOMAIN ch.transitions = 1 .. n
    BY DEF ChartSound, Rows
<1>2. DOMAIN flags = 1 .. n /\ \A k \in 1 .. n : flags[k] <=> First(k)
    BY <1>1
<1>3. EventsAt(ch, s) = [j \in DOMAIN rows |-> ch.transitions[rows[j]].event]
    BY DEF EventsAt
<1> HIDE DEF flags
<1>4. rows \in Seq(1 .. n) /\ ToSet(rows) = {k \in 1 .. n : flags[k]}
  <2> HIDE DEF n
  <2> QED
      BY <1>1, <1>2, PositionsFacts
<1> HIDE DEF rows, n
<1>5. Len(rows) \in Nat /\ DOMAIN rows = 1 .. Len(rows) /\ \A j \in 1 .. Len(rows) : rows[j] \in Rows(ch)
    BY <1>1, <1>4
<1>6. EventsAt(ch, s) \in [1 .. Len(rows) -> RowEvents(ch)]
    BY <1>3, <1>5 DEF RowEvents
<1>7. EventsAt(ch, s) \in Seq(RowEvents(ch)) /\ DOMAIN EventsAt(ch, s) = 1 .. Len(rows)
    BY <1>5, <1>6, ListOf
<1>8. ASSUME NEW k \in Rows(ch), ch.transitions[k].from = s
      PROVE  ch.transitions[k].event \in ToSet(EventsAt(ch, s))
  <2> DEFINE e == ch.transitions[k].event
             r == RowsAt(ch, s, e)
  <2>1. /\ r \in Seq(Rows(ch))
        /\ ToSet(r) = {i \in Rows(ch) : ch.transitions[i].from = s /\ ch.transitions[i].event = e}
      BY RowsAtFacts
  <2>2. k \in ToSet(r)
      BY <1>8, <2>1
  <2> HIDE DEF r
  <2>3. Len(r) \in Nat /\ DOMAIN r = 1 .. Len(r)
      BY <2>1
  <2>4. 1 \in DOMAIN r
      BY <2>2, <2>3 DEF ToSet
  <2>5. r[1] \in ToSet(r)
      BY <2>4 DEF ToSet
  <2>6. r[1] \in 1 .. n /\ ch.transitions[r[1]].from = s /\ ch.transitions[r[1]].event = e
      BY <1>1, <2>1, <2>5
  <2>7. First(r[1])
      BY <2>6 DEF r
  <2>8. r[1] \in ToSet(rows)
      BY <1>2, <1>4, <2>6, <2>7
  <2>9. PICK j \in 1 .. Len(rows) : rows[j] = r[1]
      BY <1>5, <2>8 DEF ToSet
  <2>10. EventsAt(ch, s)[j] = e
      BY <1>3, <1>5, <2>6, <2>9
  <2> QED
      BY <1>7, <2>9, <2>10 DEF ToSet
<1> QED
    BY <1>7, <1>8

(* The events of a state and those above it are listed (position.go,         *)
(* eventsFrom).                                                             *)
LEMMA EventsFromFacts ==
    ASSUME NEW ch, ChartSound(ch), NEW source \in Nodes(ch.shape)
    PROVE  /\ EventsFrom(ch, source) \in Seq(RowEvents(ch))
           /\ \A event : CandidateRows(ch, source, event) # {} =>
                            event \in ToSet(EventsFrom(ch, source))
           /\ \A i, j \in 1 .. Len(EventsFrom(ch, source)) :
                 EventsFrom(ch, source)[i] = EventsFrom(ch, source)[j] => i = j
<1> DEFINE h == HandlersOf(ch.shape, source)
           S == RowEvents(ch)
           ss == [j \in DOMAIN h |-> EventsAt(ch, ch.shape.state[h[j]])]
           events == FlattenSeq(ss)
           n == Len(events)
           First(k) == \A i \in 1 .. k - 1 : events[i] # events[k]
           flags == [k \in DOMAIN events |-> First(k)]
           firsts == Positions(flags)
<1>1. /\ h \in Seq(Nodes(ch.shape))
      /\ \A a \in Nodes(ch.shape) : AtOrAbove(ch.shape, a, source) => a \in ToSet(h)
    BY HandlersFacts DEF ChartSound
<1>2. EventsFrom(ch, source) = [j \in DOMAIN firsts |-> events[firsts[j]]]
    BY DEF EventsFrom
<1> HIDE DEF h
<1>3. Len(h) \in Nat /\ DOMAIN h = 1 .. Len(h)
    BY <1>1
<1>4. ss \in Seq(Seq(S)) /\ Len(ss) = Len(h) /\ DOMAIN ss = 1 .. Len(h)
      /\ \A j \in 1 .. Len(h) : ss[j] = EventsAt(ch, ch.shape.state[h[j]])
  <2>1. \A j \in 1 .. Len(h) : EventsAt(ch, ch.shape.state[h[j]]) \in Seq(S)
      BY EventsAtFacts
  <2> HIDE DEF S
  <2>2. ss \in [1 .. Len(h) -> Seq(S)]
      BY <1>3, <2>1
  <2>3. \A j \in 1 .. Len(h) : ss[j] = EventsAt(ch, ch.shape.state[h[j]])
      BY <1>3
  <2> HIDE DEF ss
  <2> QED
      BY <1>3, <2>2, <2>3, ListOf
<1> HIDE DEF ss, S
<1>5. /\ events \in Seq(S)
      /\ \A x : x \in ToSet(events) <=> \E i \in 1 .. Len(ss) : x \in ToSet(ss[i])
    BY <1>4, FlattenFacts
<1> HIDE DEF events
<1>6. n \in Nat /\ DOMAIN events = 1 .. n /\ \A k \in 1 .. n : events[k] \in S
    BY <1>5
<1>7. DOMAIN flags = 1 .. n /\ \A k \in 1 .. n : flags[k] <=> First(k)
    BY <1>6
<1> HIDE DEF flags, n
<1>8. firsts \in Seq(1 .. n) /\ ToSet(firsts) = {k \in 1 .. n : flags[k]}
      /\ \A i, j \in 1 .. Len(firsts) : i < j => firsts[i] < firsts[j]
    BY <1>6, <1>7, PositionsFacts
<1> HIDE DEF firsts
<1>9. Len(firsts) \in Nat /\ DOMAIN firsts = 1 .. Len(firsts)
      /\ \A j \in 1 .. Len(firsts) : firsts[j] \in 1 .. n
  <2> DEFINE I == 1 .. n
  <2>1. firsts \in Seq(I)
      BY <1>8
  <2> HIDE DEF I
  <2>2. Len(firsts) \in Nat /\ DOMAIN firsts = 1 .. Len(firsts)
      BY <2>1
  <2>3. \A j \in 1 .. Len(firsts) : firsts[j] \in I
      BY <2>1
  <2> QED
      BY <2>2, <2>3 DEF I
<1>10. EventsFrom(ch, source) \in [1 .. Len(firsts) -> S]
    BY <1>2, <1>6, <1>9
<1>11. EventsFrom(ch, source) \in Seq(S) /\ DOMAIN EventsFrom(ch, source) = 1 .. Len(firsts)
    BY <1>9, <1>10, ListOf
<1>12. ASSUME NEW event, NEW x \in CandidateRows(ch, source, event)
       PROVE  event \in ToSet(EventsFrom(ch, source))
  <2>1. /\ x.row \in Rows(ch) /\ x.handler \in Nodes(ch.shape)
        /\ AtOrAbove(ch.shape, x.handler, source)
        /\ ch.transitions[x.row].from = ch.shape.state[x.handler]
        /\ ch.transitions[x.row].event = event
      BY DEF CandidateRows
  <2>2. PICK j \in 1 .. Len(h) : h[j] = x.handler
      BY <1>1, <1>3, <2>1 DEF ToSet
  <2>3. event \in ToSet(EventsAt(ch, ch.shape.state[x.handler]))
      BY <2>1, EventsAtFacts
  <2>4. event \in ToSet(events)
      BY <1>4, <1>5, <2>2, <2>3
  <2> DEFINE T == {k \in 1 .. n : events[k] = event}
  <2>5. T \in SUBSET Nat /\ T # {}
      BY <1>6, <2>4 DEF ToSet
  <2>6. PICK k \in T : \A m \in T : k <= m
    <3> HIDE DEF T
    <3> QED
        BY <2>5, Least
  <2>7. First(k)
    <3> SUFFICES ASSUME NEW i \in 1 .. k - 1, events[i] = events[k] PROVE FALSE
        OBVIOUS
    <3>1. i \in 1 .. n /\ ~(k <= i)
        BY <1>6
    <3> QED
        BY <2>6, <3>1
  <2>8. k \in 1 .. n /\ events[k] = event
      OBVIOUS
  <2>9. k \in ToSet(firsts)
      BY <1>7, <1>8, <2>7, <2>8
  <2>10. PICK m \in 1 .. Len(firsts) : firsts[m] = k
      BY <1>9, <2>9 DEF ToSet
  <2>11. EventsFrom(ch, source)[m] = event
      BY <1>2, <1>9, <2>8, <2>10
  <2> QED
      BY <1>11, <2>10, <2>11 DEF ToSet
<1>13. ASSUME NEW i \in 1 .. Len(firsts), NEW j \in 1 .. Len(firsts), i < j,
              EventsFrom(ch, source)[i] = EventsFrom(ch, source)[j]
       PROVE  FALSE
  <2>1. firsts[i] \in 1 .. n /\ firsts[j] \in 1 .. n /\ firsts[i] < firsts[j]
        /\ firsts[j] \in ToSet(firsts)
      BY <1>8, <1>9, <1>13 DEF ToSet
  <2>2. events[firsts[i]] = events[firsts[j]] /\ First(firsts[j])
      BY <1>2, <1>7, <1>8, <1>9, <1>13, <2>1
  <2>3. firsts[i] \in 1 .. firsts[j] - 1
      BY <1>6, <2>1
  <2> QED
      BY <2>2, <2>3
<1>14. Len(EventsFrom(ch, source)) = Len(firsts)
    BY <1>9, <1>10, ListOf
<1>15. ASSUME NEW i \in 1 .. Len(firsts), NEW j \in 1 .. Len(firsts),
              EventsFrom(ch, source)[i] = EventsFrom(ch, source)[j]
       PROVE  i = j
  <2>1. i < j \/ j < i \/ i = j
      BY <1>9
  <2> QED
      BY <1>13, <1>15, <2>1
<1> QED
    BY <1>11, <1>12, <1>14, <1>15 DEF S

(* The rows that some data selects are arrows (position.go, Arrows and       *)
(* arrowsForEvent).                                                         *)
LEMMA ArrowsFacts ==
    ASSUME NEW ch, ChartSound(ch), NEW source \in Nodes(ch.shape), NEW event,
           NEW j \in 1 .. Len(Candidates(ch, source, event)),
           \A k \in 1 .. j - 1 : ch.transitions[Candidates(ch, source, event)[k].row].guarded
    PROVE  Candidates(ch, source, event)[j] \in ToSet(Arrows(ch, source))
<1> DEFINE S == [handler : Nodes(ch.shape), row : Rows(ch)]
           events == EventsFrom(ch, source)
           cs == Candidates(ch, source, event)
           arrows(e) == SubSeq(Candidates(ch, source, e), 1,
                               ArrowCount(ch, Candidates(ch, source, e)))
           ss == [i \in DOMAIN events |-> arrows(events[i])]
<1>1. \A e : Candidates(ch, source, e) \in Seq(S)
  <2> TAKE e
  <2>1. CandidateRows(ch, source, e) \subseteq S
      BY DEF CandidateRows
  <2>2. Candidates(ch, source, e) \in Seq(CandidateRows(ch, source, e))
      BY CandidatesFacts
  <2> HIDE DEF S
  <2> QED
      BY <2>1, <2>2
<1>2. ASSUME NEW c \in Seq(S)
      PROVE  /\ ArrowCount(ch, c) \in 0 .. Len(c)
             /\ \A i \in 1 .. Len(c) : (\A k \in 1 .. i - 1 : ch.transitions[c[k].row].guarded)
                    => i <= ArrowCount(ch, c)
  <2> DEFINE ends == {k \in DOMAIN c : ~ch.transitions[c[k].row].guarded}
  <2>1. Len(c) \in Nat /\ DOMAIN c = 1 .. Len(c)
      BY <1>2
  <2>2. CASE ends = {}
    <3>1. ArrowCount(ch, c) = Len(c)
        BY <2>2 DEF ArrowCount
    <3> QED
        BY <2>1, <3>1
  <2>3. CASE ends # {}
    <3>1. ArrowCount(ch, c) = Min(ends)
        BY <2>3 DEF ArrowCount
    <3>2. ends \in SUBSET Nat
        BY <2>1
    <3>3. Min(ends) \in ends
      <4>1. ends # {}
          BY <2>3
      <4> HIDE DEF ends
      <4> QED
          BY <3>2, <4>1, MinFacts
    <3>4. Min(ends) \in 1 .. Len(c) /\ ~ch.transitions[c[Min(ends)].row].guarded
        BY ZenonT(60), <2>1, <3>3
    <3> HIDE DEF ends
    <3>5. ASSUME NEW i \in 1 .. Len(c), \A k \in 1 .. i - 1 : ch.transitions[c[k].row].guarded
          PROVE  i <= Min(ends)
      <4>1. Min(ends) \notin 1 .. i - 1
          BY <3>4, <3>5
      <4> QED
          BY <2>1, <3>4, <4>1
    <3>6. Min(ends) \in 0 .. Len(c)
        BY <3>4
    <3> QED
        BY <3>1, <3>5, <3>6
  <2> QED
      BY <2>2, <2>3
<1>3. \A e : arrows(e) \in Seq(S)
  <2> TAKE e
  <2> DEFINE c == Candidates(ch, source, e)
             m == ArrowCount(ch, c)
  <2>1. c \in Seq(S)
      BY <1>1
  <2> HIDE DEF c, S
  <2>2. m \in 0 .. Len(c) /\ Len(c) \in Nat
      BY <1>2, <2>1
  <2> HIDE DEF m
  <2>3. SubSeq(c, 1, m) \in Seq(S)
      BY <2>1, <2>2
  <2> QED
      BY <2>3 DEF c, m
<1>4. cs[j] \in ToSet(arrows(event))
  <2> DEFINE m == ArrowCount(ch, cs)
             q == SubSeq(cs, 1, m)
  <2>1. cs \in Seq(S) /\ j \in 1 .. Len(cs)
      BY <1>1
  <2>2. m \in 0 .. Len(cs) /\ j <= m
      BY <1>2, <2>1
  <2> HIDE DEF cs, S, m
  <2>3. j \in 1 .. m /\ m \in Nat
      BY <2>1, <2>2
  <2>4. DOMAIN q = 1 .. m /\ q[j] = cs[j]
      BY <2>1, <2>2, <2>3
  <2>5. cs[j] \in ToSet(q)
    <3> HIDE DEF q
    <3> QED
        BY <2>3, <2>4 DEF ToSet
  <2> QED
      BY <2>5 DEF cs, m
<1>5. events \in Seq(RowEvents(ch)) /\ event \in ToSet(events)
  <2>1. cs[j] \in CandidateRows(ch, source, event)
    <3>1. cs \in Seq(CandidateRows(ch, source, event))
        BY CandidatesFacts
    <3> HIDE DEF cs
    <3> QED
        BY <3>1 DEF cs
  <2> QED
      BY <2>1, EventsFromFacts
<1>6. Arrows(ch, source) = FlattenSeq(ss)
    BY DEF Arrows
<1> HIDE DEF events, S, cs, arrows
<1>7. Len(events) \in Nat /\ DOMAIN events = 1 .. Len(events)
    BY <1>5
<1>8. PICK i \in 1 .. Len(events) : events[i] = event
    BY <1>5, <1>7 DEF ToSet
<1>9. ss \in [1 .. Len(events) -> Seq(S)] /\ ss[i] = arrows(event)
    BY <1>3, <1>7, <1>8
<1> HIDE DEF ss
<1>10. ss \in Seq(Seq(S)) /\ Len(ss) = Len(events)
    BY <1>7, <1>9, ListOf
<1>11. cs[j] \in ToSet(FlattenSeq(ss))
    BY <1>4, <1>8, <1>9, <1>10, FlattenFacts
<1> QED
    BY <1>6, <1>11 DEF cs

-----------------------------------------------------------------------------
\* The walk of hierarchyCycles from a state, one step of it, and all of them.
WalkFrom(start) == [path |-> << >>, at |-> {start}, cycle |-> {}]

WalkStep(parents, done, w) ==
    LET s == CHOOSE x \in w.at : TRUE
        path == Append(w.path, s)
        up == IF s \in DOMAIN parents THEN {parents[s]} ELSE {}
        back == up \cap ToSet(path)
    IN  IF w.at = {} THEN w
        ELSE [path |-> path,
              at |-> (up \ done) \ back,
              cycle |-> CyclePart(path, back)]

WalkLoop(order, parents, done, start, c) ==
    /\ c[0] = WalkFrom(start)
    /\ \A k \in 1 .. Len(order) : c[k] = WalkStep(parents, done, c[k - 1])
    /\ Walk(order, parents, done, start) = c[Len(order)]

Walks(V) == [path : Seq(V), at : SUBSET V, cycle : SUBSET V]

(* The walk goes one state up at a time (statechart.go, hierarchyCycles).    *)
LEMMA WalkSteps ==
    ASSUME NEW order, Len(order) \in Nat, NEW V, NEW parents,
           \A s \in DOMAIN parents : parents[s] \in V,
           NEW done, NEW start \in V, start \notin done
    PROVE  /\ \E c : WalkLoop(order, parents, done, start, c)
           /\ Walk(order, parents, done, start) \in Walks(V)
<1> DEFINE M == Len(order)
           W == Walks(V)
           F == [p \in W \X (1 .. M) |-> WalkStep(parents, done, p[1])]
           Good(f) == f = [n \in 0 .. M |->
                              IF n = 0 THEN WalkFrom(start) ELSE WalkStep(parents, done, f[n - 1])]
           c == CHOOSE f : Good(f)
<1>1. ASSUME NEW w \in W PROVE WalkStep(parents, done, w) \in W
  <2>1. CASE w.at = {}
      BY <2>1 DEF WalkStep
  <2>2. CASE w.at # {}
    <3> DEFINE s == CHOOSE x \in w.at : TRUE
               path == Append(w.path, s)
               up == IF s \in DOMAIN parents THEN {parents[s]} ELSE {}
               back == up \cap ToSet(path)
    <3>1. s \in V /\ w.path \in Seq(V)
        BY <2>2 DEF Walks
    <3>2. path \in Seq(V)
        BY <3>1
    <3>3. up \subseteq V
        OBVIOUS
    <3>4. WalkStep(parents, done, w)
          = [path |-> path, at |-> (up \ done) \ back, cycle |-> CyclePart(path, back)]
        BY <2>2 DEF WalkStep
    <3> HIDE DEF s, path, up
    <3>5. \A j \in DOMAIN path : path[j] \in V
        BY <3>2
    <3>6. CyclePart(path, back) \subseteq V
        BY <3>5 DEF CyclePart
    <3>7. (up \ done) \ back \subseteq V
        BY <3>3
    <3> HIDE DEF back
    <3> QED
        BY <3>2, <3>4, <3>6, <3>7 DEF Walks
  <2> QED
      BY <2>1, <2>2
<1>2. WalkFrom(start) \in W
    BY DEF WalkFrom, Walks
<1>3. F \in [W \X (1 .. M) -> W]
  <2> HIDE DEF W
  <2> QED
      BY <1>1
<1> HIDE DEF W
<1>4. PICK g : Loops(W, WalkFrom(start), M, F, g)
  <2> HIDE DEF F, M
  <2> QED
      BY <1>2, <1>3, Iterates DEF M
<1>5. /\ g \in [0 .. M -> W] /\ g[0] = WalkFrom(start)
      /\ \A n \in 1 .. M : g[n] = WalkStep(parents, done, g[n - 1])
  <2>1. 0 \in 0 .. M /\ \A n \in 1 .. M : n \in 0 .. M /\ n # 0 /\ n - 1 \in 0 .. M
      OBVIOUS
  <2> HIDE DEF F, M
  <2>2. g \in [0 .. M -> W] /\ g[0] = WalkFrom(start)
      BY <1>4, <2>1 DEF Loops
  <2>3. \A n \in 1 .. M : g[n - 1] \in W /\ g[n] = F[<< g[n - 1], n >>]
      BY <1>4, <2>1, <2>2 DEF Loops
  <2> QED
      BY <2>2, <2>3 DEF F
<1> HIDE DEF M
<1>6. Good(g)
  <2> DEFINE h == [n \in 0 .. M |->
                      IF n = 0 THEN WalkFrom(start) ELSE WalkStep(parents, done, g[n - 1])]
  <2>1. ASSUME NEW n \in 0 .. M PROVE g[n] = h[n]
    <3>1. n = 0 \/ n \in 1 .. M
        BY DEF M
    <3> QED
        BY <1>5, <3>1 DEF M
  <2>2. g = h
      BY <1>5, <2>1
  <2> QED
      BY <2>2
<1>7. Good(c)
  <2> HIDE DEF Good
  <2> QED
      BY <1>6
<1>8. /\ c[0] = WalkFrom(start)
      /\ \A k \in 1 .. M : c[k] = WalkStep(parents, done, c[k - 1])
  <2>1. 0 \in 0 .. M /\ \A k \in 1 .. M : k \in 0 .. M /\ k # 0
      BY DEF M
  <2> HIDE DEF c
  <2> QED
      BY <1>7, <2>1
<1>9. Walk(order, parents, done, start) = c[M]
    BY DEF Walk, WalkStep, WalkFrom, M, c, Good
<1> HIDE DEF c, Good
<1>10. WalkLoop(order, parents, done, start, c)
    BY <1>8, <1>9 DEF WalkLoop, M
<1> DEFINE T == {k \in Nat : k <= M => c[k] \in W}
<1>11. 0 \in T
    BY <1>2, <1>8
<1>12. ASSUME NEW k \in Nat, k \in T PROVE k + 1 \in T
  <2> SUFFICES ASSUME k + 1 <= M PROVE c[k + 1] \in W
      OBVIOUS
  <2>1. k + 1 \in 1 .. M /\ (k + 1) - 1 = k /\ c[k] \in W
      BY <1>12 DEF M
  <2> QED
      BY <1>1, <1>8, <2>1
<1>13. Nat \subseteq T
  <2> HIDE DEF T
  <2> QED
      BY <1>11, <1>12, InductOn
<1>14. c[M] \in W
    BY <1>13 DEF M
<1> QED
    BY <1>9, <1>10, <1>14 DEF W

\* Where the walk is after k steps, if it has not come back to its own path.
WalkInv(V, parents, done, start, k, w) ==
    /\ w.path \in Seq(V)
    /\ IsFiniteSet(ToSet(w.path)) /\ Cardinality(ToSet(w.path)) <= k
    /\ Len(w.path) # 0 => w.path[1] = start
    /\ \A j \in 1 .. Len(w.path) - 1 :
          w.path[j] \in DOMAIN parents /\ parents[w.path[j]] = w.path[j + 1]
    /\ \/ /\ w.at = {}
          /\ Len(w.path) # 0
          /\ w.path[Len(w.path)] \in DOMAIN parents => parents[w.path[Len(w.path)]] \in done
       \/ \E s \in V :
             /\ w.at = {s}
             /\ s \notin ToSet(w.path)
             /\ Cardinality(ToSet(w.path)) = k
             /\ Len(w.path) = 0 => s = start
             /\ Len(w.path) # 0 => /\ w.path[Len(w.path)] \in DOMAIN parents
                                   /\ parents[w.path[Len(w.path)]] = s

(* One more state is on the path, or the walk has ended (statechart.go,      *)
(* hierarchyCycles).                                                        *)
LEMMA WalkInvStep ==
    ASSUME NEW V, NEW parents, \A s \in DOMAIN parents : parents[s] \in V,
           NEW done, NEW start, NEW k \in Nat, NEW w, WalkInv(V, parents, done, start, k, w),
           WalkStep(parents, done, w).cycle = {}
    PROVE  WalkInv(V, parents, done, start, k + 1, WalkStep(parents, done, w))
<1> DEFINE p == w.path
           L == Len(p)
<1>1. /\ p \in Seq(V) /\ IsFiniteSet(ToSet(p)) /\ Cardinality(ToSet(p)) <= k
      /\ L # 0 => p[1] = start
      /\ \A j \in 1 .. L - 1 : p[j] \in DOMAIN parents /\ parents[p[j]] = p[j + 1]
    BY DEF WalkInv
<1>2. L \in Nat /\ DOMAIN p = 1 .. L /\ \A j \in 1 .. L : p[j] \in V
    BY <1>1
<1>3. Cardinality(ToSet(p)) \in Nat
    BY <1>1, FS_CardinalityType
<1>4. CASE w.at = {}
  <2>1. WalkStep(parents, done, w) = w
      BY <1>4 DEF WalkStep
  <2>2. Cardinality(ToSet(p)) <= k + 1
      BY <1>1, <1>3
  <2>3. /\ L # 0
        /\ p[L] \in DOMAIN parents => parents[p[L]] \in done
      BY <1>4 DEF WalkInv
  <2> QED
      BY <1>1, <1>4, <2>1, <2>2, <2>3 DEF WalkInv
<1>5. CASE w.at # {}
  <2>1. PICK s \in V : /\ w.at = {s}
                       /\ s \notin ToSet(p)
                       /\ Cardinality(ToSet(p)) = k
                       /\ L = 0 => s = start
                       /\ L # 0 => p[L] \in DOMAIN parents /\ parents[p[L]] = s
      BY <1>5 DEF WalkInv
  <2> DEFINE q == Append(p, s)
             up == IF s \in DOMAIN parents THEN {parents[s]} ELSE {}
             back == up \cap ToSet(q)
             n == WalkStep(parents, done, w)
  <2>2. s = CHOOSE x \in w.at : TRUE
      BY <2>1
  <2>3. n = [path |-> q, at |-> (up \ done) \ back, cycle |-> CyclePart(q, back)]
      BY <1>5, <2>2 DEF WalkStep
  <2> HIDE DEF n
  <2>4. /\ q \in Seq(V) /\ Len(q) = L + 1 /\ q[L + 1] = s /\ DOMAIN q = 1 .. L + 1
        /\ \A j \in 1 .. L : q[j] = p[j]
      BY <1>1, <2>1
  <2> HIDE DEF q, p, L
  <2>5. ToSet(q) = ToSet(p) \cup {s}
    <3>1. \A j \in 1 .. L + 1 : j \in 1 .. L \/ j = L + 1
        BY <1>2
    <3>2. \A j \in 1 .. L : j \in 1 .. L + 1
        BY <1>2
    <3>3. L + 1 \in 1 .. L + 1
        BY <1>2
    <3> QED
        BY <1>2, <2>4, <3>1, <3>2, <3>3 DEF ToSet
  <2>6. IsFiniteSet(ToSet(q)) /\ Cardinality(ToSet(q)) = k + 1
    <3> DEFINE P == ToSet(p)
    <3>1. IsFiniteSet(P) /\ Cardinality(P) = k /\ s \notin P
        BY <1>1, <2>1
    <3> HIDE DEF P
    <3>2. /\ IsFiniteSet(P \cup {s})
          /\ Cardinality(P \cup {s}) = IF s \in P THEN Cardinality(P) ELSE Cardinality(P) + 1
        BY <3>1, FS_AddElement
    <3> QED
        BY <2>5, <3>1, <3>2 DEF P
  <2>7. Len(q) # 0 /\ q[1] = start
    <3>1. CASE L = 0
        BY <2>1, <2>4, <3>1
    <3>2. CASE L # 0
      <4>1. 1 \in 1 .. L /\ L + 1 # 0
          BY <1>2, <3>2
      <4> QED
          BY <1>1, <2>4, <3>2, <4>1
    <3> QED
        BY <3>1, <3>2
  <2>8. ASSUME NEW j \in 1 .. Len(q) - 1
        PROVE  q[j] \in DOMAIN parents /\ parents[q[j]] = q[j + 1]
    <3>1. (j \in 1 .. L - 1 /\ j \in 1 .. L /\ j + 1 \in 1 .. L) \/ (j = L /\ L # 0 /\ L \in 1 .. L)
        BY <1>2, <2>4
    <3> QED
        BY <1>1, <2>1, <2>4, <3>1
  <2>9. back = {}
    <3> SUFFICES ASSUME NEW x \in back PROVE FALSE
        OBVIOUS
    <3>1. x \in ToSet(q)
        OBVIOUS
    <3>2. PICK i \in 1 .. L + 1 : q[i] = x
        BY <2>4, <3>1 DEF ToSet
    <3>3. i \in 1 .. i
        BY <1>2
    <3>4. q[i] \in CyclePart(q, back)
        BY <2>4, <3>2, <3>3 DEF CyclePart
    <3> QED
        BY <2>3, <3>4 DEF n
  <2>10. n.path = q /\ n.at = up \ done
      BY <2>3, <2>9
  <2>11. CASE s \in DOMAIN parents /\ parents[s] \notin done
    <3>1. n.at = {parents[s]} /\ parents[s] \in V /\ parents[s] \notin ToSet(q)
        BY <2>9, <2>10, <2>11
    <3> QED
        BY SMTT(60), <2>4, <2>6, <2>7, <2>8, <2>10, <2>11, <3>1 DEF WalkInv, n
  <2>12. CASE s \notin DOMAIN parents \/ parents[s] \in done
    <3>1. n.at = {}
        BY <2>10, <2>12
    <3>2. q[Len(q)] \in DOMAIN parents => parents[q[Len(q)]] \in done
        BY <2>4, <2>12
    <3> QED
        BY <2>4, <2>6, <2>7, <2>8, <2>10, <3>1, <3>2 DEF WalkInv, n
  <2> QED
      BY <2>11, <2>12
<1> QED
    BY <1>4, <1>5

\* A set of states that all have their parent in it: what a cycle leads to.
Unfounded(parents, U) == \A s \in U : s \in DOMAIN parents /\ parents[s] \in U

(* A list has at most as many elements as places (statechart.go,             *)
(* hierarchyCycles).                                                        *)
LEMMA ListBound ==
    ASSUME NEW V, NEW order \in Seq(V)
    PROVE  IsFiniteSet(ToSet(order)) /\ Cardinality(ToSet(order)) <= Len(order)
<1> DEFINE n == Len(order)
           S == ToSet(order)
<1>1. n \in Nat /\ DOMAIN order = 1 .. n /\ order = [i \in 1 .. n |-> order[i]]
    OBVIOUS
<1>2. \A i \in 1 .. n : order[i] \in S
    BY <1>1 DEF ToSet
<1>3. \A x \in S : \E i \in 1 .. n : order[i] = x
    BY <1>1 DEF ToSet
<1> HIDE DEF n, S
<1>4. order \in Surjection(1 .. n, S)
  <2>1. order \in [1 .. n -> S]
      BY <1>1, <1>2
  <2> QED
      BY <1>3, <2>1 DEF Surjection
<1>5. ExistsSurjection(1 .. n, S)
    BY <1>4 DEF ExistsSurjection
<1>6. IsFiniteSet(S)
    BY <1>1, <1>5, FS_NatSurjection
<1>7. Cardinality(S) <= n
    BY <1>1, <1>5, FS_SurjCardinalityBound
<1> QED
    BY <1>6, <1>7 DEF n, S

\* Every state of the list is the parent of the one before it.
Climbs(V, parents, p) ==
    /\ p \in Seq(V)
    /\ \A j \in 1 .. Len(p) - 1 : p[j] \in DOMAIN parents /\ parents[p[j]] = p[j + 1]

(* A climb does not leave a set without a way out (statechart.go,            *)
(* hierarchyCycles).                                                        *)
LEMMA ClimbStaysIn ==
    ASSUME NEW V, NEW parents, NEW p, Climbs(V, parents, p), NEW U, Unfounded(parents, U),
           NEW i \in 1 .. Len(p), p[i] \in U
    PROVE  \A k \in i .. Len(p) : p[k] \in U
<1> DEFINE L == Len(p)
           R == {m \in Nat : i + m <= L => p[i + m] \in U}
<1>0. p \in Seq(V)
    BY DEF Climbs
<1>1. /\ L \in Nat /\ i \in 1 .. L
      /\ \A j \in 1 .. L - 1 : p[j] \in DOMAIN parents /\ parents[p[j]] = p[j + 1]
  <2>1. L \in Nat
      BY <1>0
  <2> QED
      BY <2>1 DEF Climbs
<1> HIDE DEF L
<1>2. 0 \in R
    BY <1>1
<1>3. ASSUME NEW m \in Nat, m \in R PROVE m + 1 \in R
  <2> SUFFICES ASSUME i + (m + 1) <= L PROVE p[i + (m + 1)] \in U
      OBVIOUS
  <2> DEFINE j == i + m
  <2>1. j <= L /\ j \in 1 .. L - 1 /\ i + (m + 1) = j + 1
      BY <1>1
  <2>2. p[j] \in U
      BY <1>3, <2>1
  <2> HIDE DEF j
  <2>3. parents[p[j]] = p[j + 1]
      BY <1>1, <2>1
  <2> QED
      BY <2>1, <2>2, <2>3 DEF Unfounded
<1>4. Nat \subseteq R
  <2> HIDE DEF R
  <2> QED
      BY <1>2, <1>3, InductOn
<1> QED
  <2> SUFFICES ASSUME NEW k \in i .. L PROVE p[k] \in U
      BY DEF L
  <2>1. k - i \in Nat /\ i + (k - i) = k /\ k <= L
      BY <1>1
  <2>2. k - i \in R
      BY <1>4, <2>1
  <2> QED
      BY <2>1, <2>2

\* The last state of the path has its parent on it: the cycle is from there on.
CameBack(V, parents, start, w) ==
    /\ Climbs(V, parents, w.path)
    /\ Len(w.path) # 0 /\ w.path[1] = start
    /\ w.at = {}
    /\ \E i \in 1 .. Len(w.path) :
          /\ w.path[Len(w.path)] \in DOMAIN parents
          /\ parents[w.path[Len(w.path)]] = w.path[i]
          /\ w.cycle = {w.path[k] : k \in i .. Len(w.path)}

(* The walk comes back to a state of its own path (statechart.go,            *)
(* hierarchyCycles).                                                        *)
LEMMA WalkComesBack ==
    ASSUME NEW V, NEW parents, NEW done, NEW start, NEW k \in Nat, NEW w,
           WalkInv(V, parents, done, start, k, w), w.at # {},
           WalkStep(parents, done, w).cycle # {}
    PROVE  CameBack(V, parents, start, WalkStep(parents, done, w))
<1> DEFINE p == w.path
           L == Len(p)
<1>1. /\ p \in Seq(V)
      /\ L # 0 => p[1] = start
      /\ \A j \in 1 .. L - 1 : p[j] \in DOMAIN parents /\ parents[p[j]] = p[j + 1]
    BY DEF WalkInv
<1>2. L \in Nat /\ DOMAIN p = 1 .. L
    BY <1>1
<1>3. PICK s \in V : /\ w.at = {s}
                     /\ L = 0 => s = start
                     /\ L # 0 => p[L] \in DOMAIN parents /\ parents[p[L]] = s
    BY DEF WalkInv
<1> DEFINE q == Append(p, s)
           up == IF s \in DOMAIN parents THEN {parents[s]} ELSE {}
           back == up \cap ToSet(q)
           n == WalkStep(parents, done, w)
<1>4. s = CHOOSE x \in w.at : TRUE
    BY <1>3
<1>5. n = [path |-> q, at |-> (up \ done) \ back, cycle |-> CyclePart(q, back)]
    BY <1>4 DEF WalkStep
<1>6. n.path = q /\ n.at = (up \ done) \ back /\ n.cycle = CyclePart(q, back) /\ n.cycle # {}
  <2> HIDE DEF q, up, back
  <2> QED
    BY <1>5
<1> HIDE DEF n
<1>7. /\ q \in Seq(V) /\ Len(q) = L + 1 /\ q[L + 1] = s /\ DOMAIN q = 1 .. L + 1
      /\ \A j \in 1 .. L : q[j] = p[j]
    BY <1>1, <1>3
<1> HIDE DEF q, p, L
<1>8. back # {}
  <2>1. CyclePart(q, back) # {}
      BY <1>6
  <2> HIDE DEF back
  <2> QED
      BY <2>1 DEF CyclePart
<1>9. s \in DOMAIN parents /\ back = {parents[s]} /\ parents[s] \in ToSet(q) /\ n.at = {}
    BY <1>6, <1>8
<1> HIDE DEF back, up
<1>10. PICK i0 \in 1 .. L + 1 : q[i0] = parents[s]
    BY <1>7, <1>9 DEF ToSet
<1>11. PICK i \in 1 .. L + 1 : q[i] = parents[s] /\ \A j \in 1 .. L + 1 : q[j] = parents[s] => i <= j
  <2> DEFINE S == {j \in 1 .. L + 1 : q[j] = parents[s]}
  <2>1. S \in SUBSET Nat /\ S # {}
      BY <1>2, <1>10
  <2>2. PICK i \in S : \A m \in S : i <= m
    <3> HIDE DEF S
    <3> QED
        BY <2>1, Least
  <2> QED
      BY <2>2
<1>12. CyclePart(q, back) = {q[k1] : k1 \in i .. L + 1}
  <2>1. ASSUME NEW j \in 1 .. L + 1
        PROVE  (\E m \in 1 .. j : q[m] \in back) <=> j \in i .. L + 1
    <3>1. CASE i <= j
        BY <1>2, <1>9, <1>11, <3>1
    <3>2. CASE ~(i <= j)
      <4> SUFFICES ASSUME NEW m \in 1 .. j, q[m] \in back PROVE FALSE
          BY <1>2, <3>2
      <4>1. m \in 1 .. L + 1 /\ q[m] = parents[s] /\ ~(i <= m)
          BY <1>2, <1>9, <3>2
      <4> QED
          BY <1>11, <4>1
    <3> QED
        BY <3>1, <3>2
  <2>2. CyclePart(q, back) = {q[j] : j \in {j \in 1 .. L + 1 : \E m \in 1 .. j : q[m] \in back}}
      BY <1>7 DEF CyclePart
  <2>3. {j \in 1 .. L + 1 : \E m \in 1 .. j : q[m] \in back} = i .. L + 1
    <3>1. i .. L + 1 \subseteq 1 .. L + 1
        BY <1>2
    <3> QED
        BY <2>1, <3>1
  <2> QED
      BY <2>2, <2>3
<1>13. Climbs(V, parents, q)
  <2> SUFFICES ASSUME NEW j \in 1 .. Len(q) - 1
               PROVE  q[j] \in DOMAIN parents /\ parents[q[j]] = q[j + 1]
      BY <1>7 DEF Climbs
  <2>1. (j \in 1 .. L - 1 /\ j \in 1 .. L /\ j + 1 \in 1 .. L) \/ (j = L /\ L # 0 /\ L \in 1 .. L)
      BY <1>2, <1>7
  <2> QED
      BY <1>1, <1>3, <1>7, <2>1 DEF L
<1>14. Len(q) # 0 /\ q[1] = start
  <2>1. CASE L = 0
      BY <1>3, <1>7, <2>1 DEF L
  <2>2. CASE L # 0
    <3>1. 1 \in 1 .. L /\ L + 1 # 0
        BY <1>2, <2>2
    <3> QED
        BY <1>1, <1>7, <2>2, <3>1
  <2> QED
      BY <2>1, <2>2
<1>15. \E j \in 1 .. Len(q) : /\ q[Len(q)] \in DOMAIN parents
                               /\ parents[q[Len(q)]] = q[j]
                               /\ n.cycle = {q[m] : m \in j .. Len(q)}
    BY ZenonT(90), <1>6, <1>7, <1>9, <1>11, <1>12
<1>16. CameBack(V, parents, start, n)
    BY SMTT(60), <1>6, <1>9, <1>13, <1>14, <1>15 DEF CameBack
<1> QED
    BY <1>16 DEF n

(* Every walk ends, on its own path or without a cycle (statechart.go,       *)
(* hierarchyCycles).                                                        *)
LEMMA WalkStops ==
    ASSUME NEW V, NEW order \in Seq(V), V = ToSet(order), NEW parents,
           \A s \in DOMAIN parents : parents[s] \in V,
           NEW done, NEW start \in V, start \notin done
    PROVE  LET w == Walk(order, parents, done, start)
           IN  IF w.cycle = {} THEN WalkInv(V, parents, done, start, Len(order), w)
               ELSE CameBack(V, parents, start, w)
<1> DEFINE M == Len(order)
<1>1. M \in Nat
    OBVIOUS
<1>2. PICK c : WalkLoop(order, parents, done, start, c)
    BY <1>1, WalkSteps
<1> HIDE DEF M
<1>3. /\ c[0] = WalkFrom(start)
      /\ \A k \in 1 .. M : c[k] = WalkStep(parents, done, c[k - 1])
      /\ Walk(order, parents, done, start) = c[M]
    BY <1>2 DEF WalkLoop, M
<1> DEFINE Stands(k, w) == IF w.cycle = {} THEN WalkInv(V, parents, done, start, k, w)
                           ELSE CameBack(V, parents, start, w)
           T == {k \in Nat : k <= M => Stands(k, c[k])}
<1>4. 0 \in T
  <2> DEFINE w == c[0]
  <2>1. w.path = << >> /\ w.at = {start} /\ w.cycle = {} /\ Len(<< >>) = 0 /\ << >> \in Seq(V)
        /\ ToSet(<< >>) = {}
      BY <1>3 DEF WalkFrom, ToSet
  <2>2. w.path = << >> /\ w.at = {start} /\ w.cycle = {} /\ Len(w.path) = 0 /\ ToSet(w.path) = {}
        /\ w.path \in Seq(V)
      BY <2>1
  <2> HIDE DEF w
  <2>3. IsFiniteSet({}) /\ Cardinality({}) = 0
      BY FS_EmptySet
  <2>4. \A j \in 1 .. Len(w.path) - 1 :
            w.path[j] \in DOMAIN parents /\ parents[w.path[j]] = w.path[j + 1]
      BY <2>2
  <2>5. /\ w.at = {start} /\ start \notin ToSet(w.path)
        /\ Cardinality(ToSet(w.path)) = 0 /\ IsFiniteSet(ToSet(w.path))
      BY <2>2, <2>3
  <2>6. WalkInv(V, parents, done, start, 0, w)
      BY <2>2, <2>4, <2>5 DEF WalkInv
  <2> QED
      BY <2>2, <2>6 DEF w
<1>5. ASSUME NEW k \in Nat, k \in T PROVE k + 1 \in T
  <2> DEFINE n == c[k + 1]
             w == c[k]
  <2> SUFFICES ASSUME k + 1 <= M PROVE Stands(k + 1, n)
      OBVIOUS
  <2>1. k + 1 \in 1 .. M /\ (k + 1) - 1 = k /\ k <= M
      BY <1>1
  <2>2. n = WalkStep(parents, done, w)
      BY <1>3, <2>1
  <2>3. Stands(k, w)
      BY <1>5, <2>1
  <2> HIDE DEF n, w
  <2>4. CASE w.cycle # {}
    <3>1. CameBack(V, parents, start, w) /\ w.at = {}
        BY <2>3, <2>4 DEF CameBack
    <3>2. n = w
        BY <2>2, <3>1 DEF WalkStep
    <3> QED
        BY <2>4, <3>1, <3>2
  <2>5. CASE w.cycle = {} /\ n.cycle = {}
      BY <2>2, <2>3, <2>5, WalkInvStep
  <2>6. CASE w.cycle = {} /\ n.cycle # {}
    <3>1. w.at # {}
      <4> SUFFICES ASSUME w.at = {} PROVE FALSE
          OBVIOUS
      <4>1. n = w
          BY <2>2 DEF WalkStep
      <4> QED
          BY <2>6, <4>1
    <3> QED
        BY <2>2, <2>3, <2>6, <3>1, WalkComesBack
  <2> QED
      BY <2>4, <2>5, <2>6
<1>6. Nat \subseteq T
  <2> HIDE DEF T
  <2> QED
      BY <1>4, <1>5, InductOn
<1>7. Stands(M, c[M])
    BY <1>1, <1>6
<1> QED
    BY <1>3, <1>7 DEF M

\* A smallest set without a way out.
IsCycle(parents, C) ==
    /\ C # {} /\ Unfounded(parents, C)
    /\ \A U \in SUBSET C : U # {} /\ Unfounded(parents, U) => U = C

(* The cycle that a walk reports is one, and it is the only one that the     *)
(* path leads to (statechart.go, hierarchyCycles).                           *)
LEMMA WalkReports ==
    ASSUME NEW V, NEW parents, NEW start, NEW w, CameBack(V, parents, start, w)
    PROVE  /\ start \in ToSet(w.path) /\ ToSet(w.path) \subseteq V
           /\ IsCycle(parents, w.cycle) /\ w.cycle \subseteq V
           /\ \A U : Unfounded(parents, U) /\ U \cap ToSet(w.path) # {} => w.cycle \subseteq U
<1> DEFINE p == w.path
           L == Len(p)
           C == w.cycle
<1>1. Climbs(V, parents, p) /\ L # 0 /\ p[1] = start
    BY DEF CameBack
<1>2. PICK i \in 1 .. L : /\ p[L] \in DOMAIN parents /\ parents[p[L]] = p[i]
                         /\ C = {p[k] : k \in i .. L}
    BY DEF CameBack
<1>3. /\ p \in Seq(V)
      /\ \A j \in 1 .. L - 1 : p[j] \in DOMAIN parents /\ parents[p[j]] = p[j + 1]
    BY <1>1 DEF Climbs
<1>4. L \in Nat /\ DOMAIN p = 1 .. L /\ \A j \in 1 .. L : p[j] \in V
    BY <1>3
<1> HIDE DEF C
<1>5. start \in ToSet(p) /\ ToSet(p) \subseteq V
  <2>1. 1 \in 1 .. L
      BY <1>1, <1>4
  <2> QED
      BY <1>1, <1>4, <2>1 DEF ToSet
<1>6. ASSUME NEW U, Unfounded(parents, U), NEW j \in 1 .. L, p[j] \in U
      PROVE  C \subseteq U
  <2>1. p[L] \in U
    <3>1. L \in j .. L
        BY <1>4
    <3> QED
        BY <1>1, <1>6, <3>1, ClimbStaysIn
  <2>2. p[i] \in U
      BY <1>2, <1>6, <2>1 DEF Unfounded
  <2>3. \A k \in i .. L : p[k] \in U
      BY <1>1, <1>6, <2>2, ClimbStaysIn
  <2> QED
      BY <1>2, <2>3
<1> HIDE DEF p, L
<1>7. Unfounded(parents, C)
  <2> SUFFICES ASSUME NEW k \in i .. L PROVE p[k] \in DOMAIN parents /\ parents[p[k]] \in C
      BY <1>2 DEF Unfounded
  <2>1. CASE k = L
    <3>1. i \in i .. L
        BY <1>4
    <3> QED
        BY <1>2, <2>1, <3>1
  <2>2. CASE k # L
    <3>1. k \in 1 .. L - 1 /\ k + 1 \in i .. L
        BY <1>4, <2>2
    <3> QED
        BY <1>2, <1>3, <3>1
  <2> QED
      BY <2>1, <2>2
<1>8. C # {} /\ C \subseteq V
  <2>1. i \in i .. L /\ i .. L \subseteq 1 .. L
      BY <1>4
  <2> QED
      BY <1>2, <1>4, <2>1
<1>9. ASSUME NEW U \in SUBSET C, U # {}, Unfounded(parents, U) PROVE U = C
  <2>1. PICK k \in i .. L : p[k] \in U
      BY <1>2, <1>9
  <2>2. k \in 1 .. L
      BY <1>4
  <2>3. C \subseteq U
      BY <1>6, <1>9, <2>1, <2>2
  <2> QED
      BY <2>3
<1>10. IsCycle(parents, C)
    BY <1>7, <1>8, <1>9 DEF IsCycle
<1>11. ASSUME NEW U, Unfounded(parents, U), U \cap ToSet(p) # {} PROVE C \subseteq U
  <2>1. PICK j \in 1 .. L : p[j] \in U
      BY <1>4, <1>11 DEF ToSet
  <2> QED
      BY <1>6, <1>11, <2>1
<1> QED
    BY <1>5, <1>8, <1>10, <1>11 DEF p, C

(* A walk ends at a root, at what was done, or with a cycle: a set without a *)
(* way out that the path leads to holds the cycle, unless it leads to what   *)
(* was done (statechart.go, hierarchyCycles).                                *)
LEMMA WalkFinds ==
    ASSUME NEW V, NEW order \in Seq(V), V = ToSet(order), NEW parents,
           \A s \in DOMAIN parents : parents[s] \in V,
           NEW done, NEW start \in V
    PROVE  LET w == Walk(order, parents, done, start)
           IN  /\ start \in done \cup ToSet(w.path) /\ ToSet(w.path) \subseteq V
               /\ w.cycle # {} => IsCycle(parents, w.cycle) /\ w.cycle \subseteq V
               /\ \A U : Unfounded(parents, U) /\ U \cap ToSet(w.path) # {} =>
                     U \cap done # {} \/ (w.cycle # {} /\ w.cycle \subseteq U)
<1> DEFINE w == Walk(order, parents, done, start)
           p == w.path
           L == Len(p)
           M == Len(order)
<1>1. CASE start \in done
  <2>1. w = [path |-> << >>, at |-> {}, cycle |-> {}]
      BY <1>1 DEF Walk
  <2>2. ToSet(<< >>) = {}
      BY DEF ToSet
  <2>3. p = << >> /\ w.cycle = {} /\ ToSet(p) = {}
      BY <2>1, <2>2
  <2> HIDE DEF w
  <2> QED
      BY <1>1, <2>3 DEF w
<1>2. CASE start \notin done /\ w.cycle # {}
  <2>1. CameBack(V, parents, start, w)
      BY <1>2, WalkStops
  <2> HIDE DEF w
  <2> QED
      BY <1>2, <2>1, WalkReports DEF w
<1>3. CASE start \notin done /\ w.cycle = {}
  <2>1. WalkInv(V, parents, done, start, M, w)
      BY <1>3, WalkStops
  <2> HIDE DEF w
  <2>2. /\ p \in Seq(V) /\ IsFiniteSet(ToSet(p))
        /\ L # 0 => p[1] = start
        /\ \A j \in 1 .. L - 1 : p[j] \in DOMAIN parents /\ parents[p[j]] = p[j + 1]
      BY <2>1 DEF WalkInv
  <2>3. L \in Nat /\ DOMAIN p = 1 .. L /\ ToSet(p) \subseteq V /\ M \in Nat
      BY <2>2 DEF ToSet
  <2>4. /\ L # 0
        /\ p[L] \in DOMAIN parents => parents[p[L]] \in done
    <3> SUFFICES ASSUME NEW s \in V, s \notin ToSet(p), Cardinality(ToSet(p)) = M
                 PROVE  FALSE
        BY <2>1 DEF WalkInv
    <3> DEFINE P == ToSet(p)
    <3>1. IsFiniteSet(P) /\ Cardinality(P) = M /\ s \notin P /\ P \subseteq V
        BY <2>2, <2>3
    <3>2. IsFiniteSet(V) /\ Cardinality(V) <= M
        BY ListBound
    <3> HIDE DEF P, M
    <3>3. Cardinality(P \cup {s}) = M + 1 /\ P \cup {s} \in SUBSET V
        BY <3>1, FS_AddElement
    <3>4. Cardinality(P \cup {s}) <= Cardinality(V) /\ Cardinality(V) \in Nat
        BY <3>2, <3>3, FS_Subset, FS_CardinalityType
    <3> QED
        BY <2>3, <3>2, <3>3, <3>4
  <2>5. Climbs(V, parents, p)
      BY <2>2 DEF Climbs
  <2> HIDE DEF p
  <2>6. start \in ToSet(p)
    <3>1. 1 \in 1 .. L
        BY <2>3, <2>4
    <3> QED
        BY <2>2, <2>3, <2>4, <3>1 DEF ToSet
  <2>7. ASSUME NEW U, Unfounded(parents, U), U \cap ToSet(p) # {} PROVE U \cap done # {}
    <3>1. PICK i \in 1 .. L : p[i] \in U
        BY <2>3, <2>7 DEF ToSet
    <3>2. L \in i .. L
        BY <2>3
    <3>3. p[L] \in U
        BY <2>5, <2>7, <3>1, <3>2, ClimbStaysIn
    <3> QED
        BY <2>4, <2>7, <3>3 DEF Unfounded
  <2> QED
      BY <1>3, <2>3, <2>6, <2>7 DEF w, p
<1> QED
    BY <1>1, <1>2, <1>3

(* Every walk, whether it comes to a cycle or not (statechart.go,            *)
(* hierarchyCycles).                                                        *)
LEMMA WalkType ==
    ASSUME NEW order, Len(order) \in Nat, NEW V, NEW parents,
           \A s \in DOMAIN parents : parents[s] \in V, NEW done, NEW start \in V
    PROVE  Walk(order, parents, done, start) \in Walks(V)
<1>1. CASE start \in done
    BY <1>1 DEF Walk, Walks
<1>2. CASE start \notin done
    BY <1>2, WalkSteps
<1> QED
    BY <1>1, <1>2

\* What hierarchyCycles has found before the first state, and with one more.
NothingFound == [done |-> {}, cycles |-> {}]

FoundNext(order, parents, a, n) ==
    LET w == Walk(order, parents, a.done, order[n])
    IN  [done |-> a.done \cup ToSet(w.path),
         cycles |-> a.cycles \cup (IF w.cycle = {} THEN {} ELSE {w.cycle})]

FoundLoop(order, parents, c) ==
    /\ c[0] = NothingFound
    /\ \A k \in 1 .. Len(order) : c[k] = FoundNext(order, parents, c[k - 1], k)
    /\ HierarchyCycles(order, parents) = c[Len(order)].cycles

(* The walks from all the states, in order (statechart.go,                   *)
(* hierarchyCycles).                                                        *)
LEMMA FoundSteps ==
    ASSUME NEW V, NEW order \in Seq(V), NEW parents,
           \A s \in DOMAIN parents : parents[s] \in V
    PROVE  \E c : FoundLoop(order, parents, c)
<1> DEFINE M == Len(order)
           W == [done : SUBSET V, cycles : SUBSET SUBSET V]
           F == [p \in W \X (1 .. M) |-> FoundNext(order, parents, p[1], p[2])]
           Good(f) == f = [n \in 0 .. M |-> IF n = 0 THEN NothingFound
                                            ELSE FoundNext(order, parents, f[n - 1], n)]
           c == CHOOSE f : Good(f)
<1>1. ASSUME NEW a \in W, NEW n \in 1 .. M PROVE FoundNext(order, parents, a, n) \in W
  <2> DEFINE w == Walk(order, parents, a.done, order[n])
  <2>1. order[n] \in V /\ M \in Nat
      OBVIOUS
  <2>2. w \in Walks(V)
      BY <2>1, WalkType
  <2> HIDE DEF w
  <2>3. w.path \in Seq(V) /\ w.cycle \in SUBSET V
      BY <2>2 DEF Walks
  <2>4. ToSet(w.path) \subseteq V
      BY <2>3 DEF ToSet
  <2>5. a.cycles \cup (IF w.cycle = {} THEN {} ELSE {w.cycle}) \in SUBSET SUBSET V
      BY <2>3
  <2>6. a.done \cup ToSet(w.path) \in SUBSET V
      BY <2>4
  <2> QED
      BY <2>5, <2>6 DEF FoundNext, w
<1>2. NothingFound \in W
    BY DEF NothingFound
<1>3. F \in [W \X (1 .. M) -> W]
  <2>1. \A p \in W \X (1 .. M) : FoundNext(order, parents, p[1], p[2]) \in W
    <3> HIDE DEF W, M
    <3> QED
        BY <1>1
  <2> HIDE DEF W, M
  <2> QED
      BY <2>1
<1>4. M \in Nat
    OBVIOUS
<1> HIDE DEF W, M
<1>5. PICK g : Loops(W, NothingFound, M, F, g)
  <2> HIDE DEF F
  <2> QED
      BY <1>2, <1>3, <1>4, Iterates
<1>6. /\ g \in [0 .. M -> W] /\ g[0] = NothingFound
      /\ \A n \in 1 .. M : g[n] = FoundNext(order, parents, g[n - 1], n)
  <2>1. 0 \in 0 .. M /\ \A n \in 1 .. M : n \in 0 .. M /\ n # 0 /\ n - 1 \in 0 .. M
      BY <1>4
  <2> HIDE DEF F
  <2>2. g \in [0 .. M -> W] /\ g[0] = NothingFound
      BY <1>5, <2>1 DEF Loops
  <2>3. \A n \in 1 .. M : g[n - 1] \in W /\ g[n] = F[<< g[n - 1], n >>]
      BY <1>5, <2>1, <2>2 DEF Loops
  <2> QED
      BY <2>2, <2>3 DEF F
<1>7. Good(g)
  <2> DEFINE h == [n \in 0 .. M |-> IF n = 0 THEN NothingFound
                                    ELSE FoundNext(order, parents, g[n - 1], n)]
  <2>1. ASSUME NEW n \in 0 .. M PROVE g[n] = h[n]
    <3>1. n = 0 \/ n \in 1 .. M
        BY <1>4
    <3> QED
        BY <1>6, <3>1, <1>4
  <2>2. g = h
      BY <1>6, <2>1
  <2> QED
      BY <2>2
<1>8. Good(c)
  <2> HIDE DEF Good
  <2> QED
      BY <1>7
<1>9. /\ c[0] = NothingFound
      /\ \A k \in 1 .. M : c[k] = FoundNext(order, parents, c[k - 1], k)
  <2>1. 0 \in 0 .. M /\ \A k \in 1 .. M : k \in 0 .. M /\ k # 0
      BY <1>4
  <2> HIDE DEF c
  <2> QED
      BY <1>8, <2>1
<1>10. HierarchyCycles(order, parents) = c[M].cycles
    BY DEF HierarchyCycles, FoundNext, NothingFound, M, c, Good
<1> HIDE DEF c, Good
<1>11. FoundLoop(order, parents, c)
    BY <1>9, <1>10 DEF FoundLoop, M
<1> QED
    BY <1>11

(* The cycles that are reported are all there are, and every set without a   *)
(* way out holds one of them (statechart.go, hierarchyCycles).               *)
THEOREM CyclesAreAll ==
    ASSUME NEW V, NEW order \in Seq(V), V = ToSet(order), NEW parents,
           \A s \in DOMAIN parents : parents[s] \in V
    PROVE  /\ HierarchyCycles(order, parents) = {C \in SUBSET V : IsCycle(parents, C)}
           /\ \A U \in SUBSET V : U # {} /\ Unfounded(parents, U) =>
                 \E C \in HierarchyCycles(order, parents) : C \subseteq U
<1> DEFINE M == Len(order)
<1>1. M \in Nat /\ DOMAIN order = 1 .. M /\ \A j \in 1 .. M : order[j] \in V
    OBVIOUS
<1>2. PICK c : FoundLoop(order, parents, c)
    BY FoundSteps
<1> HIDE DEF M
<1>3. /\ c[0] = NothingFound /\ HierarchyCycles(order, parents) = c[M].cycles
      /\ \A k \in 1 .. M : c[k] = FoundNext(order, parents, c[k - 1], k)
    BY <1>2 DEF FoundLoop, M
<1> DEFINE Reports(k) ==
              /\ \A j \in 1 .. k : order[j] \in c[k].done
              /\ \A C \in c[k].cycles : C \in SUBSET V /\ IsCycle(parents, C)
              /\ \A U : Unfounded(parents, U) /\ U \cap c[k].done # {} =>
                    \E C \in c[k].cycles : C \subseteq U
           R == {k \in Nat : k <= M => Reports(k)}
<1>4. 0 \in R
    BY <1>3 DEF NothingFound
<1>5. ASSUME NEW k \in Nat, k \in R PROVE k + 1 \in R
  <2> SUFFICES ASSUME k + 1 <= M PROVE Reports(k + 1)
      OBVIOUS
  <2>1. /\ k + 1 \in 1 .. M /\ (k + 1) - 1 = k /\ k <= M
        /\ \A j \in 1 .. k + 1 : j \in 1 .. k \/ j = k + 1
      BY <1>1
  <2>2. Reports(k)
      BY <1>5, <2>1
  <2> DEFINE a == c[k]
             b == c[k + 1]
             done == a.done
             s == order[k + 1]
             w == Walk(order, parents, done, s)
  <2>3. b = FoundNext(order, parents, a, k + 1)
      BY <1>3, <2>1
  <2>4. /\ b.done = done \cup ToSet(w.path)
        /\ b.cycles = a.cycles \cup (IF w.cycle = {} THEN {} ELSE {w.cycle})
      BY <2>3 DEF FoundNext
  <2>5. s \in V
      BY <1>1, <2>1
  <2> HIDE DEF b, s, done
  <2>6. /\ s \in done \cup ToSet(w.path) /\ ToSet(w.path) \subseteq V
        /\ w.cycle # {} => IsCycle(parents, w.cycle) /\ w.cycle \subseteq V
        /\ \A U : Unfounded(parents, U) /\ U \cap ToSet(w.path) # {} =>
              U \cap done # {} \/ (w.cycle # {} /\ w.cycle \subseteq U)
      BY ZenonT(90), <2>5, WalkFinds
  <2> HIDE DEF w, a
  <2>7. /\ \A j \in 1 .. k : order[j] \in done
        /\ \A C \in a.cycles : C \in SUBSET V /\ IsCycle(parents, C)
        /\ \A U : Unfounded(parents, U) /\ U \cap done # {} => \E C \in a.cycles : C \subseteq U
      BY <2>2 DEF a, done
  <2>8. \A j \in 1 .. k + 1 : order[j] \in b.done
      BY <2>1, <2>4, <2>6, <2>7 DEF s
  <2>9. \A C \in b.cycles : C \in SUBSET V /\ IsCycle(parents, C)
      BY <2>4, <2>6, <2>7
  <2>10. ASSUME NEW U, Unfounded(parents, U), U \cap b.done # {}
         PROVE  \E C \in b.cycles : C \subseteq U
    <3>1. CASE U \cap done # {}
        BY <2>4, <2>7, <2>10, <3>1
    <3>2. CASE U \cap done = {}
      <4>1. U \cap ToSet(w.path) # {}
          BY <2>4, <2>10, <3>2
      <4>2. w.cycle # {} /\ w.cycle \subseteq U
          BY <2>6, <2>10, <3>2, <4>1
      <4>3. w.cycle \in b.cycles
          BY <2>4, <4>2
      <4> QED
          BY <4>2, <4>3
    <3> QED
        BY <3>1, <3>2
  <2> QED
      BY <2>8, <2>9, <2>10 DEF b
<1>6. Nat \subseteq R
  <2> HIDE DEF R
  <2> QED
      BY <1>4, <1>5, InductOn
<1>7. Reports(M)
    BY <1>1, <1>6
<1> DEFINE H == HierarchyCycles(order, parents)
<1>8. V \subseteq c[M].done
    BY <1>1, <1>7 DEF ToSet
<1>9. /\ \A C \in H : C \in SUBSET V /\ IsCycle(parents, C)
      /\ \A U : Unfounded(parents, U) /\ U \cap c[M].done # {} => \E C \in H : C \subseteq U
    BY <1>3, <1>7
<1> HIDE DEF R, H
<1>10. ASSUME NEW U \in SUBSET V, U # {}, Unfounded(parents, U) PROVE \E C \in H : C \subseteq U
    BY <1>8, <1>9, <1>10
<1>11. ASSUME NEW C \in SUBSET V, IsCycle(parents, C) PROVE C \in H
  <2>1. C # {} /\ Unfounded(parents, C)
      BY <1>11 DEF IsCycle
  <2>2. PICK D \in H : D \subseteq C
      BY <1>10, <2>1
  <2>3. IsCycle(parents, D)
      BY <1>9
  <2>4. D # {} /\ Unfounded(parents, D)
      BY <2>3 DEF IsCycle
  <2>5. D = C
      BY <1>11, <2>2, <2>4 DEF IsCycle
  <2> QED
      BY <2>5
<1> QED
    BY <1>9, <1>10, <1>11 DEF H

(* If no cycle is reported, there is none: every set of states has one whose *)
(* parent is not in it (statechart.go, hierarchyCycles).                     *)
THEOREM CyclesAreFound ==
    ASSUME NEW V, NEW order \in Seq(V), V = ToSet(order), NEW parents,
           \A s \in DOMAIN parents : parents[s] \in V,
           HierarchyCycles(order, parents) = {},
           NEW U \in SUBSET V, Unfounded(parents, U)
    PROVE  U = {}
BY CyclesAreAll

-----------------------------------------------------------------------------
Distinct(p) == \A i, j \in 1 .. Len(p) : p[i] = p[j] => i = j

(* What is in a list is of its kind (position.go, compileShape).             *)
LEMMA InList ==
    ASSUME NEW S, NEW p \in Seq(S)
    PROVE  ToSet(p) \subseteq S
<1>1. DOMAIN p = 1 .. Len(p) /\ \A k \in 1 .. Len(p) : p[k] \in S
    OBVIOUS
<1> QED
    BY <1>1 DEF ToSet

(* One more is in a list (position.go, compileShape).                        *)
LEMMA OneMore ==
    ASSUME NEW S, NEW p \in Seq(S), NEW x \in S
    PROVE  /\ Append(p, x) \in Seq(S)
           /\ Len(Append(p, x)) = Len(p) + 1
           /\ ToSet(Append(p, x)) = ToSet(p) \cup {x}
<1> DEFINE L == Len(p)
           r == Append(p, x)
<1>1. /\ L \in Nat /\ DOMAIN p = 1 .. L
      /\ r \in Seq(S) /\ Len(r) = L + 1 /\ DOMAIN r = 1 .. L + 1 /\ r[L + 1] = x
      /\ \A j \in 1 .. L : r[j] = p[j]
    OBVIOUS
<1> HIDE DEF r, L
<1>2. /\ \A j \in 1 .. L + 1 : j \in 1 .. L \/ j = L + 1
      /\ \A j \in 1 .. L : j \in 1 .. L + 1
      /\ L + 1 \in 1 .. L + 1
    BY <1>1
<1>3. \A y \in ToSet(r) : y \in ToSet(p) \cup {x}
    BY <1>1, <1>2 DEF ToSet
<1>4. \A y \in ToSet(p) : y \in ToSet(r)
    BY <1>1, <1>2 DEF ToSet
<1>5. x \in ToSet(r)
    BY <1>1, <1>2 DEF ToSet
<1> QED
    BY <1>1, <1>3, <1>4, <1>5 DEF r, L

(* The last of a stack is taken off (position.go, compileShape).             *)
LEMMA Popped ==
    ASSUME NEW S, NEW p \in Seq(S), p # << >>, Distinct(p)
    PROVE  /\ Last(p) \in ToSet(p) /\ Last(p) \in S
           /\ Front(p) \in Seq(S)
           /\ Distinct(Front(p))
           /\ ToSet(Front(p)) = ToSet(p) \ {Last(p)}
<1> DEFINE n == Len(p)
           f == Front(p)
<1>1. n \in Nat /\ n # 0 /\ DOMAIN p = 1 .. n /\ \A i \in 1 .. n : p[i] \in S
    OBVIOUS
<1>2. Last(p) = p[n] /\ n \in 1 .. n
    BY <1>1 DEF Last
<1>3. Last(p) \in ToSet(p) /\ Last(p) \in S
    BY <1>1, <1>2 DEF ToSet
<1>4. f \in Seq(S) /\ Len(f) = n - 1 /\ \A i \in 1 .. n - 1 : f[i] = p[i]
    BY <1>1 DEF Front
<1>5. DOMAIN f = 1 .. n - 1
    BY <1>4
<1> HIDE DEF f, n
<1>6. \A i \in 1 .. n - 1 : i \in 1 .. n /\ i # n
    BY <1>1
<1>7. \A i, j \in 1 .. n : p[i] = p[j] => i = j
    BY DEF Distinct, n
<1>8. Distinct(f)
    BY <1>4, <1>6, <1>7 DEF Distinct
<1>9. ASSUME NEW x \in ToSet(f) PROVE x \in ToSet(p) \ {Last(p)}
  <2>1. PICK i \in 1 .. n - 1 : f[i] = x
      BY <1>5 DEF ToSet
  <2>2. x = p[i] /\ i \in 1 .. n /\ i # n
      BY <1>4, <1>6, <2>1
  <2>3. x # p[n]
      BY <1>2, <1>7, <2>2
  <2> QED
      BY <1>1, <1>2, <2>2, <2>3 DEF ToSet
<1>10. ASSUME NEW x \in ToSet(p), x # Last(p) PROVE x \in ToSet(f)
  <2>1. PICK i \in 1 .. n : p[i] = x
      BY <1>1 DEF ToSet
  <2>2. i # n
      BY <1>2, <1>10, <2>1
  <2>3. i \in 1 .. n - 1
      BY <1>1, <2>2
  <2> QED
      BY <1>4, <1>5, <2>1, <2>3 DEF ToSet
<1> QED
    BY <1>3, <1>4, <1>8, <1>9, <1>10 DEF f

(* The children are put on the stack (position.go, compileShape).            *)
LEMMA Pushed ==
    ASSUME NEW S, NEW p \in Seq(S), NEW q \in Seq(S), Distinct(p), Distinct(q),
           ToSet(p) \cap ToSet(q) = {}
    PROVE  /\ p \o q \in Seq(S)
           /\ Distinct(p \o q)
           /\ ToSet(p \o q) = ToSet(p) \cup ToSet(q)
<1> DEFINE m == Len(p)
           n == Len(q)
           r == p \o q
<1>1. /\ m \in Nat /\ n \in Nat /\ DOMAIN p = 1 .. m /\ DOMAIN q = 1 .. n
      /\ r \in Seq(S) /\ Len(r) = m + n /\ DOMAIN r = 1 .. m + n
      /\ \A k \in 1 .. m : r[k] = p[k]
      /\ \A k \in 1 .. n : r[m + k] = q[k]
    OBVIOUS
<1> HIDE DEF m, n, r
<1>2. \A k \in 1 .. m + n : k \in 1 .. m \/ (k - m \in 1 .. n /\ m + (k - m) = k)
    BY <1>1
<1>3. (\A k \in 1 .. m : k \in 1 .. m + n) /\ (\A k \in 1 .. n : m + k \in 1 .. m + n)
    BY <1>1
<1>4. \A k \in 1 .. m + n : \/ k \in 1 .. m /\ r[k] = p[k] /\ r[k] \in ToSet(p)
                            \/ k - m \in 1 .. n /\ r[k] = q[k - m] /\ r[k] \in ToSet(q)
  <2> TAKE k \in 1 .. m + n
  <2>1. CASE k \in 1 .. m
    <3>1. r[k] = p[k] /\ p[k] \in ToSet(p)
        BY <1>1, <2>1 DEF ToSet
    <3> QED
        BY <2>1, <3>1
  <2>2. CASE k - m \in 1 .. n /\ m + (k - m) = k
    <3>1. r[k] = q[k - m] /\ q[k - m] \in ToSet(q)
        BY <1>1, <2>2 DEF ToSet
    <3> QED
        BY <2>2, <3>1
  <2> QED
      BY <1>2, <2>1, <2>2
<1>5. ToSet(r) = ToSet(p) \cup ToSet(q)
  <2>1. \A x \in ToSet(r) : x \in ToSet(p) \cup ToSet(q)
      BY <1>1, <1>4 DEF ToSet
  <2>2. \A x \in ToSet(p) : x \in ToSet(r)
    <3> TAKE x \in ToSet(p)
    <3>1. PICK k \in 1 .. m : p[k] = x
        BY <1>1 DEF ToSet
    <3>2. k \in 1 .. m + n /\ r[k] = x
        BY <1>1, <1>3, <3>1
    <3> QED
        BY <1>1, <3>2 DEF ToSet
  <2>3. \A x \in ToSet(q) : x \in ToSet(r)
    <3> TAKE x \in ToSet(q)
    <3>1. PICK k \in 1 .. n : q[k] = x
        BY <1>1 DEF ToSet
    <3>2. m + k \in 1 .. m + n /\ r[m + k] = x
        BY <1>1, <1>3, <3>1
    <3> QED
        BY <1>1, <3>2 DEF ToSet
  <2> QED
      BY <2>1, <2>2, <2>3
<1>6. ASSUME NEW i \in 1 .. m + n, NEW j \in 1 .. m + n, r[i] = r[j] PROVE i = j
  <2>1. CASE i \in 1 .. m /\ j \in 1 .. m
    <3>1. p[i] = p[j]
        BY <1>1, <1>6, <2>1
    <3> QED
        BY <2>1, <3>1 DEF Distinct, m
  <2>2. CASE i - m \in 1 .. n /\ j - m \in 1 .. n /\ ~(i \in 1 .. m) /\ ~(j \in 1 .. m)
    <3>1. q[i - m] = q[j - m]
        BY <1>4, <1>6, <2>2
    <3>2. i - m = j - m
        BY <2>2, <3>1 DEF Distinct, n
    <3> QED
        BY <1>1, <3>2
  <2>3. ~(i \in 1 .. m) => r[i] \in ToSet(q) /\ i - m \in 1 .. n
      BY <1>4
  <2>4. ~(j \in 1 .. m) => r[j] \in ToSet(q) /\ j - m \in 1 .. n
      BY <1>4
  <2>5. (i \in 1 .. m => r[i] \in ToSet(p)) /\ (j \in 1 .. m => r[j] \in ToSet(p))
      BY <1>1 DEF ToSet
  <2>6. ~(r[i] \in ToSet(p) /\ r[i] \in ToSet(q))
      OBVIOUS
  <2> QED
      BY <1>6, <2>1, <2>2, <2>3, <2>4, <2>5, <2>6
<1>7. Distinct(r)
    BY <1>1, <1>6 DEF Distinct
<1> QED
    BY <1>1, <1>5, <1>7 DEF r

\* The parents of n nodes, of which no set is without a way out.
Forest(parent, n) ==
    /\ n \in Nat
    /\ parent \in [1 .. n -> 0 .. n]
    /\ \A U \in SUBSET (1 .. n) : (\A i \in U : parent[i] \in U) => U = {}

(* The children of a node are listed once each (position.go, compileShape).  *)
LEMMA ChildrenFacts ==
    ASSUME NEW n \in Nat, NEW parent \in [1 .. n -> 0 .. n], NEW i
    PROVE  /\ Children(parent, i) \in Seq(1 .. n)
           /\ ToSet(Children(parent, i)) = {j \in 1 .. n : parent[j] = i}
           /\ Distinct(Children(parent, i))
<1> DEFINE flags == [j \in DOMAIN parent |-> parent[j] = i]
           p == Positions(flags)
<1>1. DOMAIN flags = 1 .. n /\ \A j \in 1 .. n : flags[j] <=> parent[j] = i
    OBVIOUS
<1>2. Children(parent, i) = p
    BY DEF Children
<1> HIDE DEF flags
<1>3. /\ p \in Seq(1 .. n)
      /\ ToSet(p) = {k \in 1 .. n : flags[k]}
      /\ \A k, j \in 1 .. Len(p) : k < j => p[k] < p[j]
    BY <1>1, PositionsFacts
<1> HIDE DEF p
<1>4. Len(p) \in Nat /\ \A k \in 1 .. Len(p) : p[k] \in 1 .. n
    BY SMTT(60), <1>3, ElementOfSeq
<1>5. Distinct(p)
  <2> SUFFICES ASSUME NEW k \in 1 .. Len(p), NEW j \in 1 .. Len(p), p[k] = p[j] PROVE k = j
      BY DEF Distinct
  <2>1. p[k] \in Int /\ p[j] \in Int
      BY <1>4
  <2>2. k < j \/ k = j \/ j < k
      BY <1>4
  <2> QED
      BY SMTT(60), <1>3, <2>1, <2>2
<1>6. ToSet(p) = {j \in 1 .. n : parent[j] = i}
    BY <1>1, <1>3
<1> QED
    BY <1>2, <1>3, <1>5, <1>6

\* The traversal of compileShape before the first node, and with one more.
VisitNone(parent) ==
    [stack |-> Children(parent, 0), preorder |-> << >>, depth |-> [i \in DOMAIN parent |-> 0]]

VisitStep(parent, v) ==
    LET i == Last(v.stack)
    IN  [stack |-> Front(v.stack) \o Children(parent, i),
         preorder |-> Append(v.preorder, i),
         depth |-> IF parent[i] = 0 THEN v.depth
                   ELSE [v.depth EXCEPT ![i] = v.depth[parent[i]] + 1]]

\* On the stack are the nodes whose parent was visited, but they were not.
VisitInv(parent, n, k, v) ==
    /\ v.stack \in Seq(1 .. n) /\ v.preorder \in Seq(1 .. n) /\ v.depth \in [1 .. n -> Nat]
    /\ Distinct(v.stack)
    /\ Len(v.preorder) = k
    /\ IsFiniteSet(ToSet(v.preorder)) /\ Cardinality(ToSet(v.preorder)) = k
    /\ ToSet(v.stack) \cap ToSet(v.preorder) = {}
    /\ \A i \in 1 .. n : i \in ToSet(v.stack) \cup ToSet(v.preorder)
                         <=> parent[i] = 0 \/ parent[i] \in ToSet(v.preorder)
    /\ \A i \in 1 .. n :
          v.depth[i] = IF i \in ToSet(v.preorder) /\ parent[i] # 0
                       THEN v.depth[parent[i]] + 1 ELSE 0

(* As long as a node is left there is one on the stack (position.go,         *)
(* compileShape).                                                           *)
LEMMA VisitGoesOn ==
    ASSUME NEW n, NEW parent, Forest(parent, n), NEW k \in 0 .. n - 1, NEW v,
           VisitInv(parent, n, k, v)
    PROVE  v.stack # << >>
<1> DEFINE K == ToSet(v.preorder)
           U == (1 .. n) \ K
<1>1. n \in Nat
    BY DEF Forest
<1>2. SUFFICES ASSUME v.stack = << >> PROVE FALSE
    OBVIOUS
<1>3. ToSet(v.stack) = {}
    BY <1>2 DEF ToSet
<1>4. \A i \in 1 .. n : i \in K <=> parent[i] = 0 \/ parent[i] \in K
    BY <1>3 DEF VisitInv
<1>5. \A i \in U : parent[i] \in U
    BY <1>4 DEF Forest
<1>6. U = {}
    BY <1>5 DEF Forest
<1>7. K = 1 .. n
  <2>1. v.preorder \in Seq(1 .. n)
      BY DEF VisitInv
  <2>2. K \subseteq 1 .. n
      BY <2>1, InList
  <2> QED
      BY <1>6, <2>2
<1>8. Cardinality(K) = n
    BY <1>1, <1>7, FS_Interval
<1>9. Cardinality(K) = k
    BY DEF VisitInv
<1> QED
    BY <1>1, <1>8, <1>9

(* The next node of the traversal (position.go, compileShape).               *)
LEMMA VisitInvStep ==
    ASSUME NEW n, NEW parent, Forest(parent, n), NEW k \in 0 .. n - 1, NEW v,
           VisitInv(parent, n, k, v)
    PROVE  VisitInv(parent, n, k + 1, VisitStep(parent, v))
<1> DEFINE K == ToSet(v.preorder)
           S == ToSet(v.stack)
           i == Last(v.stack)
           f == Front(v.stack)
           ch == Children(parent, i)
           w == VisitStep(parent, v)
<1>1. n \in Nat /\ parent \in [1 .. n -> 0 .. n] /\ v.stack # << >>
    BY VisitGoesOn DEF Forest
<1>2. /\ v.stack \in Seq(1 .. n) /\ v.preorder \in Seq(1 .. n) /\ v.depth \in [1 .. n -> Nat]
      /\ Distinct(v.stack)
      /\ Len(v.preorder) = k
      /\ IsFiniteSet(K) /\ Cardinality(K) = k
      /\ S \cap K = {}
    BY DEF VisitInv
<1>3. \A j \in 1 .. n : j \in S \cup K <=> parent[j] = 0 \/ parent[j] \in K
    BY DEF VisitInv
<1>4. \A j \in 1 .. n :
          v.depth[j] = IF j \in K /\ parent[j] # 0 THEN v.depth[parent[j]] + 1 ELSE 0
    BY DEF VisitInv
<1>5. /\ i \in S /\ i \in 1 .. n
      /\ f \in Seq(1 .. n) /\ Distinct(f) /\ ToSet(f) = S \ {i}
    BY <1>1, <1>2, Popped
<1> HIDE DEF i, f
<1>6. ch \in Seq(1 .. n) /\ Distinct(ch) /\ ToSet(ch) = {j \in 1 .. n : parent[j] = i}
    BY <1>1, ChildrenFacts
<1> HIDE DEF ch
<1>7. /\ w.stack = f \o ch /\ w.preorder = Append(v.preorder, i)
      /\ w.depth = IF parent[i] = 0 THEN v.depth
                   ELSE [v.depth EXCEPT ![i] = v.depth[parent[i]] + 1]
    BY DEF VisitStep, i, f, ch
<1> HIDE DEF w, S
<1>8. S \subseteq 1 .. n
    BY <1>2, InList DEF S
<1>9. i \notin K /\ i # 0
    BY <1>2, <1>5
<1>10. ToSet(f) \cap ToSet(ch) = {}
  <2> SUFFICES ASSUME NEW j \in ToSet(f), j \in ToSet(ch) PROVE FALSE
      OBVIOUS
  <2>1. j \in S /\ j \in 1 .. n /\ parent[j] = i
      BY <1>5, <1>6
  <2> QED
      BY <1>3, <1>9, <2>1
<1>11. w.stack \in Seq(1 .. n) /\ Distinct(w.stack) /\ ToSet(w.stack) = (S \ {i}) \cup ToSet(ch)
  <2> DEFINE I == 1 .. n
  <2>1. f \in Seq(I) /\ ch \in Seq(I)
      BY <1>5, <1>6
  <2> HIDE DEF I
  <2>2. /\ f \o ch \in Seq(I) /\ Distinct(f \o ch) /\ ToSet(f \o ch) = ToSet(f) \cup ToSet(ch)
      BY <1>5, <1>6, <1>10, <2>1, Pushed
  <2> QED
      BY <1>5, <1>7, <2>2 DEF I
<1>12. w.preorder \in Seq(1 .. n) /\ Len(w.preorder) = k + 1 /\ ToSet(w.preorder) = K \cup {i}
  <2> DEFINE I == 1 .. n
  <2>1. v.preorder \in Seq(I) /\ i \in I
      BY <1>2, <1>5
  <2> HIDE DEF I
  <2>2. /\ Append(v.preorder, i) \in Seq(I)
        /\ Len(Append(v.preorder, i)) = Len(v.preorder) + 1
        /\ ToSet(Append(v.preorder, i)) = ToSet(v.preorder) \cup {i}
      BY <2>1, OneMore
  <2> QED
      BY <1>2, <1>7, <2>2 DEF I
<1>13. IsFiniteSet(ToSet(w.preorder)) /\ Cardinality(ToSet(w.preorder)) = k + 1
  <2> HIDE DEF K
  <2>1. /\ IsFiniteSet(K \cup {i})
        /\ Cardinality(K \cup {i}) = IF i \in K THEN Cardinality(K) ELSE Cardinality(K) + 1
      BY <1>2, FS_AddElement
  <2> QED
      BY <1>2, <1>9, <1>12, <2>1
<1> HIDE DEF K
<1>14. parent[i] # i /\ (parent[i] = 0 \/ parent[i] \in K) /\ parent[i] \in 0 .. n
    BY <1>1, <1>3, <1>5, <1>9
<1>15. ToSet(w.stack) \cap ToSet(w.preorder) = {}
  <2>1. ASSUME NEW j \in ToSet(ch) PROVE j \notin K \cup {i}
    <3>1. j \in 1 .. n /\ parent[j] = i
        BY <1>6
    <3> QED
        BY <1>3, <1>9, <1>14, <3>1
  <2> QED
      BY <1>2, <1>11, <1>12, <2>1 DEF K, S
<1>16. ASSUME NEW j \in 1 .. n
       PROVE  j \in ToSet(w.stack) \cup ToSet(w.preorder)
              <=> parent[j] = 0 \/ parent[j] \in ToSet(w.preorder)
  <2>1. j \in ToSet(w.stack) \cup ToSet(w.preorder) <=> j \in S \cup K \/ parent[j] = i
      BY <1>5, <1>6, <1>11, <1>12
  <2> QED
      BY <1>3, <1>12, <2>1
<1>17. w.depth \in [1 .. n -> Nat]
  <2>1. CASE parent[i] = 0
      BY <1>2, <1>7, <2>1
  <2>2. CASE parent[i] # 0
    <3>1. v.depth[parent[i]] + 1 \in Nat
      <4>1. parent[i] \in 1 .. n
          BY <1>1, <1>14, <2>2
      <4>2. v.depth[parent[i]] \in Nat
          BY <1>2, <4>1
      <4> QED
          BY <4>2
    <3> QED
        BY <1>2, <1>7, <2>2, <3>1
  <2> QED
      BY <2>1, <2>2
<1>18. ASSUME NEW j \in 1 .. n
       PROVE  w.depth[j] = IF j \in ToSet(w.preorder) /\ parent[j] # 0
                           THEN w.depth[parent[j]] + 1 ELSE 0
  <2>1. \A m \in 1 .. n : m # i => w.depth[m] = v.depth[m]
      BY <1>2, <1>7
  <2>2. parent[j] \in 0 .. n
      BY <1>1
  <2>3. CASE j = i
    <3>1. CASE parent[i] = 0
      <4>1. w.depth[i] = v.depth[i] /\ v.depth[i] = 0
          BY <1>4, <1>5, <1>7, <3>1
      <4> QED
          BY <2>3, <3>1, <4>1
    <3>2. CASE parent[i] # 0
      <4>1. w.depth[i] = v.depth[parent[i]] + 1
          BY <1>2, <1>5, <1>7, <3>2
      <4>2. w.depth[parent[i]] = v.depth[parent[i]]
          BY SMTT(60), <1>1, <1>14, <2>1, <3>2
      <4> QED
          BY <1>12, <2>3, <3>2, <4>1, <4>2
    <3> QED
        BY <3>1, <3>2
  <2>4. CASE j # i
    <3>1. w.depth[j] = v.depth[j] /\ (j \in ToSet(w.preorder) <=> j \in K)
        BY <1>12, <2>1, <2>4
    <3>2. CASE j \in K /\ parent[j] # 0
      <4>1. parent[j] \in K /\ parent[j] \in 1 .. n
          BY <1>1, <1>3, <2>2, <3>2
      <4>2. w.depth[parent[j]] = v.depth[parent[j]]
          BY <1>9, <2>1, <4>1
      <4> QED
          BY <1>4, <3>1, <3>2, <4>2
    <3>3. CASE ~(j \in K /\ parent[j] # 0)
        BY <1>4, <3>1, <3>3
    <3> QED
        BY <3>2, <3>3
  <2> QED
      BY <2>3, <2>4
<1> QED
    BY <1>11, <1>12, <1>13, <1>15, <1>16, <1>17, <1>18 DEF VisitInv, w

\* The traversal keeps to its variables, whatever it is given.
VisitValues(n) == [stack : Seq(1 .. n), preorder : Seq(1 .. n), depth : [1 .. n -> Nat]]

(* The traversal begins with the roots (position.go, compileShape).          *)
LEMMA VisitInvBase ==
    ASSUME NEW n, NEW parent, Forest(parent, n)
    PROVE  VisitInv(parent, n, 0, VisitNone(parent)) /\ VisitNone(parent) \in VisitValues(n)
<1> DEFINE v == VisitNone(parent)
<1>1. n \in Nat /\ parent \in [1 .. n -> 0 .. n]
    BY DEF Forest
<1>2. /\ Children(parent, 0) \in Seq(1 .. n)
      /\ ToSet(Children(parent, 0)) = {j \in 1 .. n : parent[j] = 0}
      /\ Distinct(Children(parent, 0))
    BY <1>1, ChildrenFacts
<1>3. /\ v.stack = Children(parent, 0) /\ v.preorder = << >>
      /\ v.depth = [i \in 1 .. n |-> 0]
      /\ v = [stack |-> v.stack, preorder |-> v.preorder, depth |-> v.depth]
    BY <1>1 DEF VisitNone
<1> HIDE DEF v
<1>4. v.preorder \in Seq(1 .. n) /\ ToSet(v.preorder) = {} /\ Len(v.preorder) = 0
    BY <1>3 DEF ToSet
<1>5. v.depth \in [1 .. n -> Nat] /\ \A i \in 1 .. n : v.depth[i] = 0
    BY <1>3
<1>6. IsFiniteSet(ToSet(v.preorder)) /\ Cardinality(ToSet(v.preorder)) = 0
    BY <1>4, FS_EmptySet
<1>7. v \in VisitValues(n)
    BY <1>2, <1>3, <1>4, <1>5 DEF VisitValues
<1>8. /\ v.stack \in Seq(1 .. n) /\ Distinct(v.stack)
      /\ ToSet(v.stack) = {j \in 1 .. n : parent[j] = 0}
    BY <1>2, <1>3
<1>9. VisitInv(parent, n, 0, v)
    BY <1>4, <1>5, <1>6, <1>8 DEF VisitInv
<1> QED
    BY <1>7, <1>9 DEF v

VisitLoop(parent, n, c) ==
    /\ c[0] = VisitNone(parent)
    /\ \A k \in 1 .. n : c[k] = VisitStep(parent, c[k - 1])
    /\ \A k \in 0 .. n : VisitInv(parent, n, k, c[k])
    /\ Visited(parent) = c[n]

(* The traversal visits one node at a time (position.go, compileShape).      *)
LEMMA VisitSteps ==
    ASSUME NEW n, NEW parent, Forest(parent, n)
    PROVE  \E c : VisitLoop(parent, n, c)
<1> DEFINE W == VisitValues(n)
           F == [p \in W \X (1 .. n) |->
                    IF VisitStep(parent, p[1]) \in W THEN VisitStep(parent, p[1]) ELSE p[1]]
           Good(f) == f = [k \in 0 .. n |->
                              IF k = 0 THEN VisitNone(parent) ELSE VisitStep(parent, f[k - 1])]
           c == CHOOSE f : Good(f)
<1>1. n \in Nat /\ parent \in [1 .. n -> 0 .. n] /\ Len(parent) = n
    BY DEF Forest
<1>2. VisitNone(parent) \in W /\ VisitInv(parent, n, 0, VisitNone(parent))
    BY VisitInvBase
<1> HIDE DEF W
<1>3. F \in [W \X (1 .. n) -> W]
    OBVIOUS
<1>4. PICK g : Loops(W, VisitNone(parent), n, F, g)
  <2> HIDE DEF F
  <2> QED
      BY <1>1, <1>2, <1>3, Iterates
<1>5. /\ g \in [0 .. n -> W] /\ g[0] = VisitNone(parent)
      /\ \A k \in 1 .. n : /\ g[k - 1] \in W
                           /\ VisitStep(parent, g[k - 1]) \in W => g[k] = VisitStep(parent, g[k - 1])
  <2>1. 0 \in 0 .. n /\ \A k \in 1 .. n : k \in 0 .. n /\ k # 0 /\ k - 1 \in 0 .. n
      BY <1>1
  <2> HIDE DEF F
  <2>2. g \in [0 .. n -> W] /\ g[0] = VisitNone(parent)
      BY <1>4, <2>1 DEF Loops
  <2>3. \A k \in 1 .. n : g[k - 1] \in W /\ g[k] = F[<< g[k - 1], k >>]
      BY <1>4, <2>1, <2>2 DEF Loops
  <2> QED
      BY <2>2, <2>3 DEF F
<1>6. ASSUME NEW k \in 0 .. n - 1, NEW v \in W, VisitInv(parent, n, k, v)
      PROVE  VisitStep(parent, v) \in W /\ VisitInv(parent, n, k + 1, VisitStep(parent, v))
  <2> DEFINE w == VisitStep(parent, v)
  <2>1. VisitInv(parent, n, k + 1, w)
      BY <1>6, VisitInvStep
  <2>2. w = [stack |-> w.stack, preorder |-> w.preorder, depth |-> w.depth]
      BY DEF VisitStep
  <2> HIDE DEF w
  <2>3. w.stack \in Seq(1 .. n) /\ w.preorder \in Seq(1 .. n) /\ w.depth \in [1 .. n -> Nat]
      BY <2>1 DEF VisitInv
  <2>4. w \in W
      BY <2>2, <2>3 DEF W, VisitValues
  <2> QED
      BY <2>1, <2>4 DEF w
<1> DEFINE T == {k \in Nat : k <= n => VisitInv(parent, n, k, g[k])}
<1>7. ASSUME NEW k \in Nat, k \in T, k + 1 <= n
      PROVE  g[k + 1] = VisitStep(parent, g[k]) /\ VisitInv(parent, n, k + 1, g[k + 1])
  <2>1. k \in 0 .. n - 1 /\ k + 1 \in 1 .. n /\ (k + 1) - 1 = k
      BY <1>1, <1>7
  <2>2. g[k] \in W /\ VisitInv(parent, n, k, g[k])
      BY <1>1, <1>5, <1>7, <2>1
  <2>3. VisitStep(parent, g[k]) \in W /\ VisitInv(parent, n, k + 1, VisitStep(parent, g[k]))
      BY <1>6, <2>1, <2>2
  <2> HIDE DEF T
  <2> QED
      BY <1>5, <2>1, <2>3
<1>8. Nat \subseteq T
  <2>1. 0 \in T
      BY <1>2, <1>5
  <2>2. ASSUME NEW k \in Nat, k \in T PROVE k + 1 \in T
      BY <1>7, <2>2
  <2> HIDE DEF T
  <2> QED
      BY <2>1, <2>2, InductOn
<1>9. \A k \in 1 .. n : g[k] = VisitStep(parent, g[k - 1])
  <2> TAKE k \in 1 .. n
  <2>1. k - 1 \in Nat /\ (k - 1) + 1 = k /\ k <= n
      BY <1>1
  <2>2. k - 1 \in T
      BY <1>8, <2>1
  <2> HIDE DEF T
  <2> QED
      BY <1>7, <2>1, <2>2
<1>10. \A k \in 0 .. n : VisitInv(parent, n, k, g[k])
  <2>1. \A k \in 0 .. n : k \in T /\ k <= n
      BY <1>1, <1>8
  <2> QED
      BY <2>1
<1> HIDE DEF T
<1>11. Good(g)
  <2> DEFINE h == [k \in 0 .. n |->
                      IF k = 0 THEN VisitNone(parent) ELSE VisitStep(parent, g[k - 1])]
  <2>1. ASSUME NEW k \in 0 .. n PROVE g[k] = h[k]
    <3>1. k = 0 \/ k \in 1 .. n
        BY <1>1
    <3> QED
        BY <1>5, <1>9, <3>1, <1>1
  <2>2. g = h
      BY <1>5, <2>1
  <2> QED
      BY <2>2
<1>12. Good(c)
  <2> HIDE DEF Good
  <2> QED
      BY <1>11
<1>13. /\ c[0] = VisitNone(parent)
       /\ \A k \in 1 .. n : c[k] = VisitStep(parent, c[k - 1])
  <2>1. 0 \in 0 .. n /\ \A k \in 1 .. n : k \in 0 .. n /\ k # 0
      BY <1>1
  <2> HIDE DEF c
  <2> QED
      BY <1>12, <2>1
<1>14. Visited(parent) = c[n]
    BY <1>1 DEF Visited, VisitStep, VisitNone, c, Good
<1> HIDE DEF c, Good
<1> DEFINE R == {k \in Nat : k <= n => c[k] = g[k]}
<1>15. Nat \subseteq R
  <2>1. 0 \in R
      BY <1>5, <1>13
  <2>2. ASSUME NEW k \in Nat, k \in R PROVE k + 1 \in R
    <3> SUFFICES ASSUME k + 1 <= n PROVE c[k + 1] = g[k + 1]
        OBVIOUS
    <3>1. k + 1 \in 1 .. n /\ (k + 1) - 1 = k /\ c[k] = g[k]
        BY <1>1, <2>2
    <3> QED
        BY <1>9, <1>13, <3>1
  <2> HIDE DEF R
  <2> QED
      BY <2>1, <2>2, InductOn
<1>16. \A k \in 0 .. n : c[k] = g[k]
    BY <1>1, <1>15
<1>17. \A k \in 0 .. n : VisitInv(parent, n, k, c[k])
    BY <1>10, <1>16
<1> QED
    BY <1>13, <1>14, <1>17 DEF VisitLoop

(* After all iterations every node has been visited (position.go,            *)
(* compileShape).                                                           *)
LEMMA VisitedInv ==
    ASSUME NEW n, NEW parent, Forest(parent, n)
    PROVE  VisitInv(parent, n, n, Visited(parent))
<1>1. PICK c : VisitLoop(parent, n, c)
    BY VisitSteps
<1>2. n \in 0 .. n
    BY DEF Forest
<1> QED
    BY <1>1, <1>2 DEF VisitLoop

(* The preorder lists every node, and the depths grow by one from parent to  *)
(* child (position.go, compileShape).                                       *)
LEMMA VisitedFacts ==
    ASSUME NEW n, NEW parent, Forest(parent, n)
    PROVE  LET v == Visited(parent)
           IN  /\ v.preorder \in Seq(1 .. n) /\ Len(v.preorder) = n
               /\ ToSet(v.preorder) = 1 .. n
               /\ v.depth \in [1 .. n -> Nat]
               /\ \A i \in 1 .. n :
                     v.depth[i] = IF parent[i] = 0 THEN 0 ELSE v.depth[parent[i]] + 1
<1> DEFINE v == Visited(parent)
           K == ToSet(v.preorder)
<1>1. n \in Nat
    BY DEF Forest
<1>2. VisitInv(parent, n, n, v)
    BY VisitedInv
<1> HIDE DEF v
<1>3. /\ v.preorder \in Seq(1 .. n) /\ Len(v.preorder) = n /\ v.depth \in [1 .. n -> Nat]
      /\ IsFiniteSet(K) /\ Cardinality(K) = n
      /\ \A i \in 1 .. n :
            v.depth[i] = IF i \in K /\ parent[i] # 0 THEN v.depth[parent[i]] + 1 ELSE 0
    BY <1>2 DEF VisitInv
<1>4. K \subseteq 1 .. n
    BY <1>3, InList
<1>5. IsFiniteSet(1 .. n) /\ Cardinality(1 .. n) = n
    BY <1>1, FS_Interval
<1> HIDE DEF K
<1>6. K = 1 .. n
    BY <1>3, <1>4, <1>5, FS_Subset
<1> QED
    BY <1>3, <1>6 DEF v, K

(* The greatest of some positions (position.go, compileShape).               *)
LEMMA MaxFacts ==
    ASSUME NEW n \in Nat, NEW S \in SUBSET (0 .. n), S # {}
    PROVE  Max(S) \in S /\ \A y \in S : Max(S) >= y
<1> DEFINE T == {n - x : x \in S}
<1>1. T \in SUBSET Nat /\ T # {}
  <2>1. \A x \in S : n - x \in Nat
      OBVIOUS
  <2> QED
      BY <2>1
<1>2. PICK t \in T : \A u \in T : t <= u
  <2> HIDE DEF T
  <2> QED
      BY <1>1, Least
<1>3. PICK m \in S : t = n - m
    OBVIOUS
<1>4. \A y \in S : m >= y
  <2> TAKE y \in S
  <2>1. n - y \in T
      OBVIOUS
  <2>2. n - m <= n - y /\ m \in Int /\ y \in Int
      BY SMTT(60), <1>2, <1>3, <2>1
  <2> QED
      BY <2>2
<1> QED
    BY <1>4 DEF Max

\* The second loop of compileShape, from the last node in preorder to the first.
EnterOf(order, v) == [i \in DOMAIN order |-> IndexOf(v.preorder, i) - 1]

CloseNone(order) ==
    [exit |-> [i \in DOMAIN order |-> 0], destination |-> [i \in DOMAIN order |-> i]]

CloseStep(order, parent, v, enter, initials, c, n) ==
    LET i == v.preorder[Len(order) - n + 1]
        ends == {c.exit[j] : j \in ToSet(Children(parent, i))}
    IN  [exit |-> [c.exit EXCEPT ![i] = ExitAfter(enter[i], ends)],
         destination |->
           IF order[i] \notin DOMAIN initials THEN c.destination
           ELSE [c.destination EXCEPT ![i] =
                   DestinationThrough(c.destination, IndexOf(order, initials[order[i]]))]]

CloseValues(n) == [exit : [1 .. n -> 0 .. n], destination : [1 .. n -> 1 .. n]]

\* What compileShape is given: different states, parents without a cycle, and
\* initial children of their states.
Compilable(order, parents, initials) ==
    LET n == Len(order)
        parent == ParentNodes(order, parents)
    IN  /\ n \in Nat /\ DOMAIN order = 1 .. n
        /\ \A i, j \in 1 .. n : order[i] = order[j] => i = j
        /\ Forest(parent, n)
        /\ \A i \in 1 .. n : order[i] \in DOMAIN initials =>
              \E j \in 1 .. n : order[j] = initials[order[i]] /\ parent[j] = i

(* The end of an interval and the destination of a state are nodes           *)
(* (position.go, compileShape).                                             *)
LEMMA CloseType ==
    ASSUME NEW order, NEW parents, NEW initials, Compilable(order, parents, initials),
           NEW n, n = Len(order), NEW parent, parent = ParentNodes(order, parents),
           NEW v, v = Visited(parent), NEW c \in CloseValues(n), NEW k \in 1 .. n
    PROVE  /\ CloseStep(order, parent, v, EnterOf(order, v), initials, c, k) \in CloseValues(n)
           /\ v.preorder[n - k + 1] \in 1 .. n
<1> DEFINE i == v.preorder[n - k + 1]
           enter == EnterOf(order, v)
           ends == {c.exit[j] : j \in ToSet(Children(parent, i))}
           t == IndexOf(order, initials[order[i]])
<1>1. /\ n \in Nat /\ DOMAIN order = 1 .. n /\ Forest(parent, n)
      /\ \A x \in 1 .. n : order[x] \in DOMAIN initials =>
              \E j \in 1 .. n : order[j] = initials[order[x]]
    BY DEF Compilable
<1>2. v.preorder \in Seq(1 .. n) /\ Len(v.preorder) = n /\ ToSet(v.preorder) = 1 .. n
    BY <1>1, VisitedFacts
<1>3. DOMAIN v.preorder = 1 .. n /\ \A x \in 1 .. n : v.preorder[x] \in 1 .. n
    BY SMTT(60), <1>2
<1>4. n - k + 1 \in 1 .. n
    BY <1>1
<1>5. i \in 1 .. n
    BY <1>3, <1>4
<1> HIDE DEF i
<1>6. enter[i] \in 0 .. n - 1
  <2>1. \E x \in DOMAIN v.preorder : v.preorder[x] = i
      BY SMTT(60), <1>2, <1>5 DEF ToSet
  <2>2. IndexOf(v.preorder, i) \in 1 .. n
      BY <1>3, <2>1, IndexOfFacts
  <2>3. enter[i] = IndexOf(v.preorder, i) - 1
      BY <1>1, <1>5 DEF EnterOf
  <2> QED
      BY <1>1, <2>2, <2>3
<1>7. c.exit \in [1 .. n -> 0 .. n] /\ c.destination \in [1 .. n -> 1 .. n]
    BY DEF CloseValues
<1>8. ExitAfter(enter[i], ends) \in 0 .. n
  <2>1. ToSet(Children(parent, i)) \subseteq 1 .. n
    <3>1. Children(parent, i) \in Seq(1 .. n)
        BY <1>1, ChildrenFacts DEF Forest
    <3> QED
        BY <3>1, InList
  <2>2. ends \subseteq 0 .. n
      BY <1>7, <2>1
  <2>3. enter[i] + 1 \in 0 .. n
      BY <1>1, <1>6
  <2> HIDE DEF ends, enter
  <2>4. {enter[i] + 1} \cup ends \in SUBSET (0 .. n) /\ {enter[i] + 1} \cup ends # {}
      BY <2>2, <2>3
  <2>5. Max({enter[i] + 1} \cup ends) \in {enter[i] + 1} \cup ends
      BY <1>1, <2>4, MaxFacts
  <2> QED
      BY <2>4, <2>5 DEF ExitAfter
<1>9. order[i] \in DOMAIN initials => t \in 1 .. n
  <2> SUFFICES ASSUME order[i] \in DOMAIN initials PROVE t \in 1 .. n
      OBVIOUS
  <2>1. \E j \in DOMAIN order : order[j] = initials[order[i]]
      BY <1>1, <1>5
  <2> QED
      BY <1>1, <2>1, IndexOfFacts
<1> HIDE DEF ends, enter, t
<1>10. CloseStep(order, parent, v, enter, initials, c, k)
       = [exit |-> [c.exit EXCEPT ![i] = ExitAfter(enter[i], ends)],
          destination |-> IF order[i] \notin DOMAIN initials THEN c.destination
                          ELSE [c.destination EXCEPT ![i] = c.destination[t]]]
    BY DEF CloseStep, DestinationThrough, i, ends, t
<1>11. [c.exit EXCEPT ![i] = ExitAfter(enter[i], ends)] \in [1 .. n -> 0 .. n]
    BY <1>7, <1>8
<1>12. order[i] \in DOMAIN initials =>
          [c.destination EXCEPT ![i] = c.destination[t]] \in [1 .. n -> 1 .. n]
    BY <1>7, <1>9
<1>13. CloseStep(order, parent, v, enter, initials, c, k) \in CloseValues(n)
    BY SMTT(60), <1>7, <1>10, <1>11, <1>12 DEF CloseValues
<1> QED
    BY <1>5, <1>13 DEF i, enter

\* The iterations of the second loop, and the shape that they end with.
CloseLoop(order, parents, initials, c) ==
    LET n == Len(order)
        parent == ParentNodes(order, parents)
        v == Visited(parent)
        enter == EnterOf(order, v)
    IN  /\ c[0] = CloseNone(order)
        /\ \A k \in 1 .. n :
              /\ c[k] = CloseStep(order, parent, v, enter, initials, c[k - 1], k)
              /\ c[k - 1] \in CloseValues(n)
        /\ CompileShape(order, parents, initials)
           = [state |-> order, parent |-> parent, depth |-> v.depth, enter |-> enter,
              exit |-> c[n].exit, destination |-> c[n].destination]

(* The nodes from the last in preorder to the first, one after the other     *)
(* (position.go, compileShape).                                             *)
LEMMA CloseSteps ==
    ASSUME NEW order, NEW parents, NEW initials, Compilable(order, parents, initials)
    PROVE  \E c : CloseLoop(order, parents, initials, c)
<1> DEFINE n == Len(order)
           parent == ParentNodes(order, parents)
           v == Visited(parent)
           enter == EnterOf(order, v)
           W == CloseValues(n)
           Next1(a, k) == CloseStep(order, parent, v, enter, initials, a, k)
           F == [p \in W \X (1 .. n) |-> Next1(p[1], p[2])]
           Good(f) == f = [k \in 0 .. n |->
                              IF k = 0 THEN CloseNone(order)
                              ELSE CloseStep(order, parent, v, enter, initials, f[k - 1], k)]
           c == CHOOSE f : Good(f)
<1>1. n \in Nat /\ DOMAIN order = 1 .. n
    BY DEF Compilable
<1>2. \A a \in W, k \in 1 .. n : Next1(a, k) \in W
    BY CloseType
<1>3. CloseNone(order) \in W
  <2>1. /\ [i \in 1 .. n |-> 0] \in [1 .. n -> 0 .. n]
        /\ [i \in 1 .. n |-> i] \in [1 .. n -> 1 .. n]
      BY <1>1
  <2> QED
      BY <1>1, <2>1 DEF CloseNone, CloseValues
<1>4. CompileShape(order, parents, initials)
      = [state |-> order, parent |-> parent, depth |-> v.depth, enter |-> enter,
         exit |-> c[n].exit, destination |-> c[n].destination]
    BY DEF CompileShape, CloseStep, CloseNone, EnterOf, c, Good, enter, v, parent, n
<1> HIDE DEF W, n, parent, v, enter, Next1
<1>5. F \in [W \X (1 .. n) -> W]
    BY <1>2
<1>6. PICK g : Loops(W, CloseNone(order), n, F, g)
  <2> HIDE DEF F
  <2> QED
      BY <1>1, <1>3, <1>5, Iterates
<1>7. /\ g \in [0 .. n -> W] /\ g[0] = CloseNone(order)
      /\ \A k \in 1 .. n : g[k - 1] \in W /\ g[k] = Next1(g[k - 1], k)
  <2>1. 0 \in 0 .. n /\ \A k \in 1 .. n : k \in 0 .. n /\ k # 0 /\ k - 1 \in 0 .. n
      BY <1>1
  <2> HIDE DEF F
  <2>2. g \in [0 .. n -> W] /\ g[0] = CloseNone(order)
      BY <1>6, <2>1 DEF Loops
  <2>3. \A k \in 1 .. n : g[k - 1] \in W /\ g[k] = F[<< g[k - 1], k >>]
      BY <1>6, <2>1, <2>2 DEF Loops
  <2> QED
      BY <2>2, <2>3 DEF F
<1>8. Good(g)
  <2> DEFINE h == [k \in 0 .. n |->
                      IF k = 0 THEN CloseNone(order)
                      ELSE CloseStep(order, parent, v, enter, initials, g[k - 1], k)]
  <2>1. ASSUME NEW k \in 0 .. n PROVE g[k] = h[k]
    <3>1. k = 0 \/ k \in 1 .. n
        BY <1>1
    <3> QED
        BY <1>7, <3>1, <1>1 DEF Next1
  <2>2. g = h
      BY <1>7, <2>1
  <2> QED
      BY <2>2
<1>9. Good(c)
  <2> HIDE DEF Good
  <2> QED
      BY <1>8
<1>10. /\ c[0] = CloseNone(order)
       /\ \A k \in 1 .. n : c[k] = Next1(c[k - 1], k)
  <2>1. 0 \in 0 .. n /\ \A k \in 1 .. n : k \in 0 .. n /\ k # 0
      BY <1>1
  <2> HIDE DEF c
  <2> QED
      BY <1>9, <2>1 DEF Next1
<1> HIDE DEF c, Good
<1> DEFINE T == {k \in Nat : k <= n => c[k] \in W}
<1>11. Nat \subseteq T
  <2>1. 0 \in T
      BY <1>3, <1>10
  <2>2. ASSUME NEW k \in Nat, k \in T PROVE k + 1 \in T
    <3> SUFFICES ASSUME k + 1 <= n PROVE c[k + 1] \in W
        OBVIOUS
    <3>1. k + 1 \in 1 .. n /\ (k + 1) - 1 = k /\ c[k] \in W
        BY <1>1, <2>2
    <3> QED
        BY <1>2, <1>10, <3>1
  <2> HIDE DEF T
  <2> QED
      BY <2>1, <2>2, InductOn
<1>12. \A k \in 1 .. n : c[k - 1] \in W
  <2> TAKE k \in 1 .. n
  <2>1. k - 1 \in Nat /\ k - 1 <= n
      BY <1>1
  <2> QED
      BY <1>11, <2>1
<1>13. CloseLoop(order, parents, initials, c)
    BY <1>4, <1>10, <1>12 DEF CloseLoop, Next1, n, parent, v, enter, W
<1> QED
    BY <1>13

\* Every destination is at or below its state.
LeadsDown(shape, n, destination) == \A i \in 1 .. n : AtOrAbove(shape, i, destination[i])

(* The compiled hierarchy is the declared one, and the initial child of a    *)
(* state leads below it (position.go, compileShape).                         *)
LEMMA CompiledFacts ==
    ASSUME NEW order, NEW parents, NEW initials, Compilable(order, parents, initials)
    PROVE  LET shape == CompileShape(order, parents, initials)
           IN  /\ shape.state = order
               /\ Hierarchy(shape)
               /\ \A i \in Nodes(shape) : /\ shape.destination[i] \in Nodes(shape)
                                          /\ AtOrAbove(shape, i, shape.destination[i])
<1> DEFINE n == Len(order)
           parent == ParentNodes(order, parents)
           v == Visited(parent)
           enter == EnterOf(order, v)
           shape == CompileShape(order, parents, initials)
<1>1. /\ n \in Nat /\ DOMAIN order = 1 .. n /\ Forest(parent, n)
      /\ \A i, j \in 1 .. n : order[i] = order[j] => i = j
      /\ \A i \in 1 .. n : order[i] \in DOMAIN initials =>
              \E j \in 1 .. n : order[j] = initials[order[i]] /\ parent[j] = i
    BY DEF Compilable
<1>2. PICK c : CloseLoop(order, parents, initials, c)
    BY CloseSteps
<1> HIDE DEF n, parent, v, enter
<1>3. /\ c[0] = CloseNone(order)
      /\ \A k \in 1 .. n :
            /\ c[k] = CloseStep(order, parent, v, enter, initials, c[k - 1], k)
            /\ c[k - 1] \in CloseValues(n)
      /\ shape = [state |-> order, parent |-> parent, depth |-> v.depth, enter |-> enter,
                  exit |-> c[n].exit, destination |-> c[n].destination]
    BY <1>2 DEF CloseLoop, n, parent, v, enter
<1> HIDE DEF shape
<1>4. /\ shape.state = order /\ shape.parent = parent /\ shape.depth = v.depth
      /\ shape.destination = c[n].destination
    BY <1>3
<1>5. /\ v.preorder \in Seq(1 .. n) /\ Len(v.preorder) = n
      /\ v.depth \in [1 .. n -> Nat]
      /\ \A i \in 1 .. n :
            v.depth[i] = IF parent[i] = 0 THEN 0 ELSE v.depth[parent[i]] + 1
  <2>1. v = Visited(parent)
      BY DEF v
  <2>2. /\ Visited(parent).preorder \in Seq(1 .. n) /\ Len(Visited(parent).preorder) = n
        /\ Visited(parent).depth \in [1 .. n -> Nat]
        /\ \A i \in 1 .. n :
              Visited(parent).depth[i] = IF parent[i] = 0 THEN 0
                                         ELSE Visited(parent).depth[parent[i]] + 1
    <3>1. Forest(parent, n)
        BY <1>1
    <3> QED
        BY <3>1, VisitedFacts
  <2> QED
      BY <2>1, <2>2
<1>6. Size(shape) = n /\ Nodes(shape) = 1 .. n
    BY <1>4 DEF Size, Nodes, n
<1>7. parent \in [1 .. n -> 0 .. n]
    BY <1>1 DEF Forest
<1>8. Hierarchy(shape)
  <2> DEFINE d == v.depth
  <2>1. /\ d \in [1 .. n -> Nat]
        /\ \A x \in 1 .. n : d[x] = IF parent[x] = 0 THEN 0 ELSE d[parent[x]] + 1
      BY <1>5
  <2>2. shape.depth = d
      BY <1>4
  <2> HIDE DEF d
  <2>3. \A x \in 1 .. n : /\ shape.parent[x] \in 0 .. n
                          /\ shape.depth[x] \in Nat
                          /\ shape.depth[x] = IF shape.parent[x] = 0 THEN 0
                                              ELSE shape.depth[shape.parent[x]] + 1
      BY <1>4, <1>7, <2>1, <2>2
  <2>4. \A x, y \in 1 .. n : shape.state[x] = shape.state[y] => x = y
      BY <1>1, <1>4
  <2>5. n \in Nat /\ DOMAIN shape.state = 1 .. n
      BY <1>1, <1>4
  <2> QED
      BY <1>6, <2>3, <2>4, <2>5 DEF Hierarchy
<1>9. ASSUME NEW i \in 1 .. n PROVE AtOrAbove(shape, i, i)
  <2>1. i \in 0 .. Size(shape) /\ Up(shape, i, 0) = i /\ 0 \in 0 .. Level(shape, i)
    <3>1. i \in 0 .. Size(shape)
        BY <1>1, <1>6
    <3>2. Level(shape, i) \in Nat /\ Up(shape, i, 0) = i
        BY <1>8, <3>1, UpLevels, UpFacts
    <3> QED
        BY <3>1, <3>2
  <2> QED
      BY <1>8, <2>1, UpAtOrAbove
<1>10. ASSUME NEW i \in 1 .. n, NEW j \in 1 .. n, parent[j] = i PROVE AtOrAbove(shape, i, j)
  <2>1. j \in 0 .. Size(shape) /\ j # 0
      BY <1>1, <1>6
  <2>2. Level(shape, j) \in Nat /\ Level(shape, j) # 0
      BY <1>8, <2>1, UpLevels
  <2>3. Up(shape, j, 0) = j /\ Up(shape, j, 0 + 1) = Above(shape, Up(shape, j, 0))
      BY <1>8, <2>1, UpFacts
  <2>4. Up(shape, j, 1) = i
      BY <1>4, <1>10, <2>1, <2>3 DEF Above
  <2>5. 1 \in 0 .. Level(shape, j)
      BY <2>2
  <2> QED
      BY <1>8, <2>1, <2>4, <2>5, UpAtOrAbove
<1> DEFINE T == {k \in Nat : k <= n => /\ c[k] \in CloseValues(n)
                                       /\ LeadsDown(shape, n, c[k].destination)}
<1>11. 0 \in T
  <2>1. c[0].destination = [i \in 1 .. n |-> i] /\ c[0].exit = [i \in 1 .. n |-> 0]
        /\ c[0] = [exit |-> c[0].exit, destination |-> c[0].destination]
      BY <1>1, <1>3 DEF CloseNone
  <2>2. c[0] \in CloseValues(n)
    <3>1. c[0].destination \in [1 .. n -> 1 .. n] /\ c[0].exit \in [1 .. n -> 0 .. n]
        BY <1>1, <2>1
    <3> QED
        BY <2>1, <3>1 DEF CloseValues
  <2>3. \A i \in 1 .. n : c[0].destination[i] = i
      BY <2>1
  <2> QED
      BY <1>9, <2>2, <2>3 DEF LeadsDown
<1>12. ASSUME NEW k \in Nat, k \in T PROVE k + 1 \in T
  <2> SUFFICES ASSUME k + 1 <= n
               PROVE  c[k + 1] \in CloseValues(n) /\ LeadsDown(shape, n, c[k + 1].destination)
      OBVIOUS
  <2> DEFINE a == c[k]
             b == c[k + 1]
             i == v.preorder[n - (k + 1) + 1]
             t == IndexOf(order, initials[order[i]])
  <2>1. k + 1 \in 1 .. n /\ (k + 1) - 1 = k /\ k <= n
      BY <1>1
  <2>2. a \in CloseValues(n) /\ LeadsDown(shape, n, a.destination)
      BY <1>12, <2>1
  <2>3. b = CloseStep(order, parent, v, enter, initials, a, k + 1)
      BY <1>3, <2>1
  <2> HIDE DEF a, b, T
  <2>4. b \in CloseValues(n) /\ i \in 1 .. n
      BY <2>1, <2>2, <2>3, CloseType DEF n, parent, v, enter
  <2>5. b.destination = IF order[i] \notin DOMAIN initials THEN a.destination
                        ELSE [a.destination EXCEPT ![i] = a.destination[t]]
      BY <2>3 DEF CloseStep, DestinationThrough, n
  <2> HIDE DEF i, t
  <2>6. a.destination \in [1 .. n -> 1 .. n]
      BY <2>2 DEF CloseValues
  <2>7. CASE order[i] \notin DOMAIN initials
      BY <2>2, <2>4, <2>5, <2>7 DEF b
  <2>8. CASE order[i] \in DOMAIN initials
    <3>1. PICK j \in 1 .. n : order[j] = initials[order[i]] /\ parent[j] = i
        BY <1>1, <2>4, <2>8
    <3>2. t = j
      <4>1. t \in DOMAIN order /\ order[t] = initials[order[i]]
          BY <1>1, <3>1, IndexOfFacts DEF t
      <4> QED
          BY <1>1, <3>1, <4>1
    <3>3. AtOrAbove(shape, j, a.destination[j])
        BY <2>2 DEF LeadsDown
    <3>4. AtOrAbove(shape, i, j)
        BY <1>10, <2>4, <3>1
    <3>5. a.destination[j] \in 0 .. Size(shape)
        BY <1>1, <1>6, <2>6
    <3>6. AtOrAbove(shape, i, a.destination[j])
        BY <1>8, <3>3, <3>4, <3>5, AboveAbove
    <3>7. \A x \in 1 .. n : b.destination[x] = IF x = i THEN a.destination[j] ELSE a.destination[x]
        BY <2>4, <2>5, <2>6, <2>8, <3>2
    <3>8. LeadsDown(shape, n, b.destination)
        BY <2>2, <3>6, <3>7 DEF LeadsDown
    <3> QED
        BY <2>4, <3>8 DEF b
  <2> QED
      BY <2>7, <2>8 DEF b
<1>13. Nat \subseteq T
  <2> HIDE DEF T
  <2> QED
      BY <1>11, <1>12, InductOn
<1>14. c[n] \in CloseValues(n) /\ LeadsDown(shape, n, c[n].destination)
    BY <1>1, <1>13
<1>15. \A i \in 1 .. n : c[n].destination[i] \in 1 .. n
    BY <1>14 DEF CloseValues
<1> HIDE DEF T
<1> QED
    BY <1>4, <1>6, <1>8, <1>14, <1>15 DEF shape, LeadsDown

-----------------------------------------------------------------------------
\* A definition is made of lists.
IsDefinition(d) ==
    /\ d.states \in Seq(ToSet(d.states))
    /\ d.substates \in Seq(ToSet(d.substates))
    /\ d.initials \in Seq(ToSet(d.initials))
    /\ d.transitions \in Seq(ToSet(d.transitions))

(* What Compile has checked when it finds no problem: the lists of a         *)
(* definition, read without the problems (statechart.go, Compile).           *)
LEMMA NoProblems ==
    ASSUME NEW d, IsDefinition(d), Problems(d) = {}
    PROVE  LET V == ToSet(d.states)
               ps == ParentsOf(d)
           IN  /\ d.states \in Seq(V)
               /\ Declared(d) = V
               /\ \A i, j \in 1 .. Len(d.states) : d.states[i] = d.states[j] => i = j
               /\ StateProblems(d) = {}
               /\ HierarchyCycles(OrderOf(d), ps) = {}
               /\ \A s \in DOMAIN ps : ps[s] \in V
               /\ \A e \in ToSet(d.initials) :
                     e.child \in V /\ e.child \in DOMAIN ps /\ ps[e.child] = e.parent
               /\ d.transitions \in Seq(ToSet(d.transitions))
               /\ \A k \in DOMAIN d.transitions :
                     /\ d.transitions[k].to \in V
                     /\ d.transitions[k].kind = "reentry" =>
                           d.transitions[k].from = d.transitions[k].to
<1> DEFINE V == ToSet(d.states)
           n == Len(d.states)
           ps == ParentsOf(d)
<1>1. /\ d.states \in Seq(V) /\ d.transitions \in Seq(ToSet(d.transitions))
      /\ Problems(d) = {}
    BY DEF IsDefinition
<1>2. /\ StateProblems(d) = {} /\ InitialProblems(d) = {} /\ TransitionProblems(d) = {}
      /\ HierarchyCycles(OrderOf(d), ps) = {}
    BY <1>1 DEF Problems
<1>3. n \in Nat /\ DOMAIN d.states = 1 .. n
    BY <1>1
<1>4. \A k \in 1 .. n : d.states[k] \notin Invalid /\ \A j \in 1 .. k - 1 : d.states[j] # d.states[k]
  <2> TAKE k \in 1 .. n
  <2>1. << "states", k >> \notin StateProblems(d)
      BY <1>2
  <2> QED
      BY <1>3, <2>1 DEF StateProblems
<1>5. Declared(d) = V
    BY <1>3, <1>4 DEF Declared, ToSet
<1>6. ASSUME NEW i \in 1 .. n, NEW j \in 1 .. n, d.states[i] = d.states[j] PROVE i = j
  <2>1. i \in 1 .. j - 1 \/ j \in 1 .. i - 1 \/ i = j
      BY <1>3
  <2> QED
      BY <1>4, <1>6, <2>1
<1>7. ASSUME NEW s \in DOMAIN ps PROVE ps[s] \in V
  <2> DEFINE edges == {d.substates[k] : k \in {i \in DOMAIN d.substates :
                        /\ ~OwnParent(d, d.substates[i])
                        /\ ~RepeatsChild(d, i)
                        /\ {d.substates[i].child, d.substates[i].parent} \subseteq Declared(d)}}
  <2>1. ps = [x \in {e.child : e \in edges} |-> (CHOOSE e \in edges : e.child = x).parent]
      BY DEF ParentsOf
  <2>2. \A e \in edges : e.parent \in Declared(d)
      OBVIOUS
  <2> HIDE DEF edges, ps
  <2>3. ps[s] = (CHOOSE e \in edges : e.child = s).parent /\ \E e \in edges : e.child = s
      BY <1>7, <2>1
  <2>4. (CHOOSE e \in edges : e.child = s) \in edges
      BY <2>3
  <2> QED
      BY <1>5, <2>2, <2>3, <2>4
<1>8. ASSUME NEW e \in ToSet(d.initials)
      PROVE  e.child \in V /\ e.child \in DOMAIN ps /\ ps[e.child] = e.parent
  <2>1. PICK k \in DOMAIN d.initials : d.initials[k] = e
      BY DEF ToSet
  <2>2. << "initials", k >> \notin InitialProblems(d)
      BY <1>2
  <2>3. {e.child, e.parent} \ Declared(d) = {} /\ ImmediateChild(d, e)
      BY <2>1, <2>2 DEF InitialProblems
  <2> QED
      BY <1>5, <2>3 DEF ImmediateChild
<1>9. ASSUME NEW k \in DOMAIN d.transitions
      PROVE  /\ d.transitions[k].to \in V
             /\ d.transitions[k].kind = "reentry" => d.transitions[k].from = d.transitions[k].to
  <2> DEFINE t == d.transitions[k]
  <2>1. << "transitions", k >> \notin TransitionProblems(d)
      BY <1>2
  <2>2. Registered(d, t) /\ ~(t.kind \in {"internal", "reentry"} /\ t.from # t.to)
      BY <1>9, <2>1 DEF TransitionProblems
  <2> HIDE DEF t
  <2>3. t.to \in V /\ (t.kind = "reentry" => t.from = t.to)
      BY <1>5, <2>2 DEF Registered
  <2> QED
      BY <2>3 DEF t
<1> HIDE DEF V, n, ps
<1> QED
    BY <1>1, <1>2, <1>5, <1>6, <1>7, <1>8, <1>9 DEF V, n, ps

(* Without problems all declared states are kept (statechart.go, Compile).   *)
LEMMA OrderFacts ==
    ASSUME NEW d, NEW V, V = ToSet(d.states), d.states \in Seq(V), StateProblems(d) = {}
    PROVE  OrderOf(d) \in Seq(V) /\ ToSet(OrderOf(d)) = V
<1> DEFINE n == Len(d.states)
           flags == [i \in DOMAIN d.states |-> << "states", i >> \notin StateProblems(d)]
           kept == Positions(flags)
           order == [j \in DOMAIN kept |-> d.states[kept[j]]]
<1>1. n \in Nat /\ DOMAIN d.states = 1 .. n /\ \A i \in 1 .. n : d.states[i] \in V
    OBVIOUS
<1>2. DOMAIN flags = 1 .. n /\ \A i \in 1 .. n : flags[i]
    BY <1>1
<1>3. OrderOf(d) = order
    BY DEF OrderOf
<1> HIDE DEF flags
<1>4. kept \in Seq(1 .. n) /\ ToSet(kept) = {i \in 1 .. n : flags[i]}
    BY <1>1, <1>2, PositionsFacts
<1> DEFINE m == Len(kept)
<1>5. m \in Nat /\ DOMAIN kept = 1 .. m /\ \A j \in 1 .. m : kept[j] \in 1 .. n
    BY <1>4
<1>6. ToSet(kept) = 1 .. n
    BY <1>2, <1>4
<1>7. order \in [1 .. m -> V] /\ DOMAIN order = 1 .. m
      /\ \A j \in 1 .. m : order[j] = d.states[kept[j]]
    BY <1>1, <1>5
<1> HIDE DEF kept, m, order
<1>8. order \in Seq(V)
    BY <1>5, <1>7
<1>9. ToSet(order) \subseteq V
    BY <1>8, InList
<1>10. ASSUME NEW s \in V PROVE s \in ToSet(order)
  <2>1. PICK i \in 1 .. n : d.states[i] = s
      BY <1>1 DEF ToSet
  <2>2. PICK j \in 1 .. m : kept[j] = i
      BY <1>5, <1>6 DEF ToSet
  <2> QED
      BY <1>7, <2>1, <2>2 DEF ToSet
<1> QED
    BY <1>3, <1>8, <1>9, <1>10

(* The node of the declared parent (position.go, compileShape).              *)
LEMMA ParentNodesFacts ==
    ASSUME NEW order, NEW V, V = ToSet(order), order \in Seq(V), NEW n, n = Len(order),
           NEW parents, \A s \in DOMAIN parents : parents[s] \in V,
           NEW parent, parent = ParentNodes(order, parents)
    PROVE  /\ parent \in [1 .. n -> 0 .. n]
           /\ \A i \in 1 .. n :
                 \/ order[i] \notin DOMAIN parents /\ parent[i] = 0
                 \/ /\ order[i] \in DOMAIN parents
                    /\ parent[i] \in 1 .. n
                    /\ order[parent[i]] = parents[order[i]]
<1>1. n \in Nat /\ DOMAIN order = 1 .. n
    OBVIOUS
<1>2. \A s \in V : IndexOf(order, s) \in 1 .. n /\ order[IndexOf(order, s)] = s
  <2> TAKE s \in V
  <2>1. \E i \in DOMAIN order : order[i] = s
      BY <1>1 DEF ToSet
  <2> QED
      BY <1>1, <2>1, IndexOfFacts
<1>3. parent = [i \in 1 .. n |-> IF order[i] \in DOMAIN parents
                                  THEN IndexOf(order, parents[order[i]]) ELSE 0]
    BY <1>1 DEF ParentNodes
<1>4. \A i \in 1 .. n : order[i] \in DOMAIN parents => parents[order[i]] \in V
    OBVIOUS
<1>5. \A i \in 1 .. n :
          \/ order[i] \notin DOMAIN parents /\ parent[i] = 0
          \/ /\ order[i] \in DOMAIN parents
             /\ parent[i] \in 1 .. n
             /\ order[parent[i]] = parents[order[i]]
    BY <1>2, <1>3, <1>4
<1>6. \A i \in 1 .. n : parent[i] \in 0 .. n
    BY <1>1, <1>5
<1>7. parent \in [1 .. n -> 0 .. n]
    BY <1>3, <1>6
<1> QED
    BY <1>5, <1>7

(* Without a cycle the hierarchy is a forest, and its initial children are   *)
(* children: compileShape can be asked (position.go, compileShape).          *)
LEMMA ForestCompilable ==
    ASSUME NEW order, NEW V, V = ToSet(order), order \in Seq(V),
           \A i, j \in 1 .. Len(order) : order[i] = order[j] => i = j,
           NEW parents, \A s \in DOMAIN parents : parents[s] \in V,
           \A U \in SUBSET V : Unfounded(parents, U) => U = {},
           NEW initials,
           \A s \in DOMAIN initials : /\ initials[s] \in V /\ initials[s] \in DOMAIN parents
                                      /\ parents[initials[s]] = s
    PROVE  Compilable(order, parents, initials)
<1> DEFINE n == Len(order)
           parent == ParentNodes(order, parents)
<1>1. n \in Nat /\ DOMAIN order = 1 .. n
    OBVIOUS
<1>2. \A s : s \in V <=> \E i \in 1 .. n : order[i] = s
    BY <1>1 DEF ToSet
<1> HIDE DEF n, parent
<1>3. n = Len(order) /\ parent = ParentNodes(order, parents)
    BY DEF n, parent
<1>4. /\ parent \in [1 .. n -> 0 .. n]
      /\ \A i \in 1 .. n :
            \/ order[i] \notin DOMAIN parents /\ parent[i] = 0
            \/ /\ order[i] \in DOMAIN parents
               /\ parent[i] \in 1 .. n
               /\ order[parent[i]] = parents[order[i]]
    BY <1>3, ParentNodesFacts
<1>5. ASSUME NEW U \in SUBSET (1 .. n), \A i \in U : parent[i] \in U
      PROVE  U = {}
  <2> DEFINE R == {order[i] : i \in U}
  <2>1. R \in SUBSET V
      BY <1>2
  <2>2. ASSUME NEW s \in R PROVE s \in DOMAIN parents /\ parents[s] \in R
    <3>1. PICK i \in U : order[i] = s
        OBVIOUS
    <3>2. parent[i] \in U /\ parent[i] # 0
        BY <1>1, <1>5
    <3>3. s \in DOMAIN parents /\ order[parent[i]] = parents[s]
        BY <1>4, <3>1, <3>2
    <3> QED
        BY ZenonT(90), <3>2, <3>3
  <2>3. \A i \in U : order[i] \in R
      OBVIOUS
  <2> HIDE DEF R
  <2>4. R = {}
      BY <2>1, <2>2 DEF Unfounded
  <2> QED
      BY <2>3, <2>4
<1>6. Forest(parent, n)
    BY <1>1, <1>4, <1>5 DEF Forest
<1>7. ASSUME NEW i \in 1 .. n, order[i] \in DOMAIN initials
      PROVE  \E j \in 1 .. n : order[j] = initials[order[i]] /\ parent[j] = i
  <2>1. PICK j \in 1 .. n : order[j] = initials[order[i]]
      BY <1>2, <1>7
  <2>2. parent[j] \in 1 .. n /\ order[parent[j]] = order[i]
      BY <1>4, <1>7, <2>1
  <2> QED
      BY <1>3, <2>1, <2>2
<1> QED
    BY <1>1, <1>3, <1>6, <1>7 DEF Compilable

\* Every initial child is a child.
ChildrenGiven(d, V, ps) ==
    \A e \in ToSet(d.initials) : e.child \in V /\ e.child \in DOMAIN ps /\ ps[e.child] = e.parent

(* The initial children are those that the edges give (statechart.go,        *)
(* Compile).                                                                *)
LEMMA InitialsAreChildren ==
    ASSUME NEW d, NEW V, NEW ps, ChildrenGiven(d, V, ps)
    PROVE  \A s \in DOMAIN InitialsOf(d) : /\ InitialsOf(d)[s] \in V /\ InitialsOf(d)[s] \in DOMAIN ps
                                          /\ ps[InitialsOf(d)[s]] = s
<1> DEFINE is == InitialsOf(d)
<1> SUFFICES ASSUME NEW s \in DOMAIN is
             PROVE  is[s] \in V /\ is[s] \in DOMAIN ps /\ ps[is[s]] = s
    OBVIOUS
<1> DEFINE edges == ToSet(d.initials)
           e == CHOOSE x \in edges : x.parent = s
<1>1. is = [x \in {y.parent : y \in edges} |-> (CHOOSE y \in edges : y.parent = x).child]
    BY DEF InitialsOf
<1> HIDE DEF is
<1>2. (\E x \in edges : x.parent = s) /\ is[s] = e.child
    BY <1>1
<1> HIDE DEF edges
<1>3. e \in edges /\ e.parent = s
    BY <1>2
<1> HIDE DEF e
<1>4. e.child \in V /\ e.child \in DOMAIN ps /\ ps[e.child] = s
    BY <1>3 DEF edges, ChildrenGiven
<1> QED
    BY <1>2, <1>4

(* The hierarchy of a definition that Compile accepts is a forest, and its   *)
(* initial children are children (statechart.go, Compile; position.go).      *)
LEMMA AcceptedCompilable ==
    ASSUME NEW d, IsDefinition(d), Problems(d) = {}
    PROVE  Compilable(d.states, ParentsOf(d), InitialsOf(d))
<1> DEFINE V == ToSet(d.states)
           order == OrderOf(d)
           ps == ParentsOf(d)
           is == InitialsOf(d)
<1>1. /\ d.states \in Seq(V)
      /\ \A i, j \in 1 .. Len(d.states) : d.states[i] = d.states[j] => i = j
      /\ StateProblems(d) = {}
      /\ HierarchyCycles(order, ps) = {}
      /\ \A s \in DOMAIN ps : ps[s] \in V
      /\ \A e \in ToSet(d.initials) :
            e.child \in V /\ e.child \in DOMAIN ps /\ ps[e.child] = e.parent
    BY NoProblems
<1>2. order \in Seq(V) /\ V = ToSet(order)
    BY <1>1, OrderFacts
<1>3. \A s \in DOMAIN is : is[s] \in V /\ is[s] \in DOMAIN ps /\ ps[is[s]] = s
  <2>1. ChildrenGiven(d, V, ps)
      BY <1>1 DEF ChildrenGiven
  <2> HIDE DEF V, ps
  <2> QED
      BY <2>1, InitialsAreChildren
<1>4. V = ToSet(d.states)
    OBVIOUS
<1> HIDE DEF V, order, ps, is
<1>5. \A U \in SUBSET V : Unfounded(ps, U) => U = {}
    BY <1>1, <1>2, CyclesAreFound
<1>6. Compilable(d.states, ps, is)
    BY <1>1, <1>3, <1>4, <1>5, ForestCompilable
<1> QED
    BY <1>6 DEF ps, is

(* A definition without problems has a sound Chart: what Compile checks is   *)
(* enough for the tables that the Instance reads (statechart.go, Compile;    *)
(* position.go, compileShape).                                              *)
THEOREM AcceptedSound ==
    ASSUME NEW d, IsDefinition(d), Problems(d) = {}
    PROVE  ChartSound(ChartOf(d))
<1> DEFINE ch == ChartOf(d)
           shape == CompileShape(d.states, ParentsOf(d), InitialsOf(d))
           V == ToSet(d.states)
<1>1. ch.shape = shape /\ ch.transitions = d.transitions
    BY DEF ChartOf
<1>2. /\ shape.state = d.states /\ Hierarchy(shape)
      /\ \A i \in Nodes(shape) : /\ shape.destination[i] \in Nodes(shape)
                                 /\ AtOrAbove(shape, i, shape.destination[i])
    BY AcceptedCompilable, CompiledFacts
<1> HIDE DEF shape, ch
<1>3. /\ d.states \in Seq(V) /\ d.transitions \in Seq(ToSet(d.transitions))
      /\ \A k \in DOMAIN d.transitions :
            /\ d.transitions[k].to \in V
            /\ d.transitions[k].kind = "reentry" => d.transitions[k].from = d.transitions[k].to
    BY NoProblems
<1>4. Nodes(shape) = DOMAIN d.states
    BY <1>2, <1>3 DEF Nodes, Size
<1>6. Len(ch.transitions) \in Nat /\ DOMAIN ch.transitions = Rows(ch)
    BY <1>1, <1>3 DEF Rows
<1>7. ASSUME NEW k \in Rows(ch)
      PROVE  /\ \E i \in Nodes(ch.shape) : ch.shape.state[i] = ch.transitions[k].to
             /\ ch.transitions[k].kind = "reentry" =>
                   ch.transitions[k].from = ch.transitions[k].to
  <2>1. k \in DOMAIN d.transitions
      BY <1>1, <1>6
  <2>2. d.transitions[k].to \in V
      BY <1>3, <2>1
  <2>3. PICK i \in DOMAIN d.states : d.states[i] = d.transitions[k].to
      BY <2>2 DEF ToSet
  <2> QED
      BY <1>1, <1>2, <1>3, <1>4, <2>1, <2>3
<1>8. ChartSound(ch)
    BY <1>1, <1>2, <1>6, <1>7 DEF ChartSound
<1> QED
    BY <1>8 DEF ch

-----------------------------------------------------------------------------
(* Lineages as sets: what the paths and the common ancestor are to them.     *)

\* The node and the nodes above it.
Aboves(shape, i) == {a \in Nodes(shape) : AtOrAbove(shape, a, i)}

(* A lineage is the state and the lineage of its parent; there is nothing    *)
(* above the roots (position.go, Path).                                     *)
LEMMA AbovesFacts ==
    ASSUME NEW shape, Hierarchy(shape), NEW i \in Nodes(shape)
    PROVE  /\ Aboves(shape, 0) = {}
           /\ i \in Aboves(shape, i)
           /\ shape.parent[i] # 0 => Level(shape, shape.parent[i]) = Level(shape, i) - 1
           /\ Aboves(shape, i) = {i} \cup Aboves(shape, shape.parent[i])
           /\ i \notin Aboves(shape, shape.parent[i])
<1> DEFINE p == shape.parent[i]
<1>1. i \in 0 .. Size(shape) /\ i # 0 /\ Size(shape) \in Nat
    BY DEF Nodes, Hierarchy
<1>2. \A a \in 0 .. Size(shape) : Level(shape, a) \in Nat /\ (Level(shape, a) = 0 <=> a = 0)
    BY UpLevels
<1>3. Aboves(shape, 0) = {}
    BY <1>1, <1>2 DEF Aboves, AtOrAbove, Nodes, Level
<1>4. AtOrAbove(shape, i, i)
  <2>1. Level(shape, i) - Level(shape, i) = 0 /\ Level(shape, i) <= Level(shape, i)
      BY <1>1, <1>2
  <2> QED
      BY <1>1, <2>1, UpFacts DEF AtOrAbove
<1>5. p \in 0 .. Size(shape) /\ p = Up(shape, i, 1)
  <2>1. p \in 0 .. Size(shape)
      BY DEF Hierarchy
  <2>2. Up(shape, i, 0) = i /\ Up(shape, i, 0 + 1) = Above(shape, Up(shape, i, 0))
      BY <1>1, UpFacts
  <2> QED
      BY <1>1, <2>1, <2>2 DEF Above
<1>6. Level(shape, p) = Level(shape, i) - 1 /\ AtOrAbove(shape, p, i)
  <2>1. 1 \in 0 .. Level(shape, i)
      BY <1>1, <1>2
  <2> QED
      BY <1>1, <1>5, <2>1, UpLevels, UpAtOrAbove
<1>7. ASSUME NEW a \in Aboves(shape, i), a # i PROVE AtOrAbove(shape, a, p)
  <2>1. a \in Nodes(shape) /\ a \in 0 .. Size(shape) /\ AtOrAbove(shape, a, i)
      BY DEF Aboves, AtOrAbove
  <2> DEFINE m == Level(shape, i) - Level(shape, a)
  <2>2. m \in Nat /\ a = Up(shape, i, m)
      BY <1>1, <1>2, <2>1 DEF AtOrAbove
  <2>3. m # 0
      BY <1>1, <1>7, <2>2, UpFacts
  <2>4. m - 1 \in Nat /\ 1 + (m - 1) = m /\ m - 1 = Level(shape, p) - Level(shape, a)
        /\ Level(shape, a) <= Level(shape, p)
      BY <1>1, <1>2, <1>6, <2>1, <2>2, <2>3
  <2> HIDE DEF m
  <2>5. Up(shape, Up(shape, i, 1), m - 1) = Up(shape, i, 1 + (m - 1))
      BY <1>1, <2>4, UpAdds
  <2> QED
      BY <1>5, <2>1, <2>2, <2>4, <2>5 DEF AtOrAbove
<1>8. \A a : AtOrAbove(shape, a, p) => AtOrAbove(shape, a, i)
    BY <1>1, <1>6, AboveAbove
<1>9. ~AtOrAbove(shape, i, p)
    BY <1>1, <1>2, <1>6 DEF AtOrAbove
<1> HIDE DEF p
<1>10. Aboves(shape, i) = {i} \cup Aboves(shape, p) /\ i \notin Aboves(shape, p)
    BY <1>4, <1>7, <1>8, <1>9 DEF Aboves
<1> QED
    BY <1>3, <1>4, <1>6, <1>10 DEF p, Aboves

(* Two states that enclose a third, or are it, enclose one another, and two  *)
(* different ones not both ways (position.go, leastCommonAncestor).          *)
LEMMA AbovesAreAChain ==
    ASSUME NEW shape, Hierarchy(shape), NEW i \in 0 .. Size(shape),
           NEW a, AtOrAbove(shape, a, i), NEW b, AtOrAbove(shape, b, i)
    PROVE  /\ Level(shape, a) <= Level(shape, b) => AtOrAbove(shape, a, b)
           /\ AtOrAbove(shape, a, b) \/ AtOrAbove(shape, b, a)
           /\ AtOrAbove(shape, a, b) /\ AtOrAbove(shape, b, a) => a = b
<1>1. /\ a \in 0 .. Size(shape) /\ b \in 0 .. Size(shape)
      /\ Level(shape, i) \in Nat /\ Level(shape, a) \in Nat /\ Level(shape, b) \in Nat
      /\ Level(shape, a) <= Level(shape, i) /\ Level(shape, b) <= Level(shape, i)
    BY UpLevels DEF AtOrAbove
<1>2. ASSUME NEW x, NEW y, AtOrAbove(shape, x, i), AtOrAbove(shape, y, i),
             Level(shape, x) \in Nat, Level(shape, y) \in Nat, Level(shape, x) <= Level(shape, y)
      PROVE  AtOrAbove(shape, x, y)
  <2> DEFINE m == Level(shape, i) - Level(shape, y)
             k == Level(shape, y) - Level(shape, x)
  <2>1. m \in Nat /\ k \in Nat /\ m + k = Level(shape, i) - Level(shape, x)
      BY <1>1, <1>2 DEF AtOrAbove
  <2>2. y = Up(shape, i, m) /\ x = Up(shape, i, m + k)
      BY <1>2, <2>1 DEF AtOrAbove
  <2>3. Up(shape, Up(shape, i, m), k) = Up(shape, i, m + k)
    <3> HIDE DEF m, k
    <3> QED
        BY <2>1, UpAdds
  <2> QED
      BY <1>2, <2>2, <2>3 DEF AtOrAbove
<1>3. AtOrAbove(shape, a, b) /\ AtOrAbove(shape, b, a) => a = b
  <2> SUFFICES ASSUME AtOrAbove(shape, a, b), AtOrAbove(shape, b, a) PROVE a = b
      OBVIOUS
  <2>1. Level(shape, b) - Level(shape, a) = 0
      BY <1>1 DEF AtOrAbove
  <2>2. a = Up(shape, b, 0)
      BY <2>1 DEF AtOrAbove
  <2> QED
      BY <1>1, <2>2, UpFacts
<1>4. Level(shape, a) <= Level(shape, b) \/ Level(shape, b) <= Level(shape, a)
    BY <1>1
<1> QED
    BY <1>1, <1>2, <1>3, <1>4

(* The common ancestor is the lowest: every state that encloses both nodes   *)
(* encloses it or is it (position.go, leastCommonAncestor).                  *)
LEMMA CommonAncestorIsLowest ==
    ASSUME NEW shape, Hierarchy(shape),
           NEW left \in Nodes(shape), NEW right \in Nodes(shape)
    PROVE  Aboves(shape, LeastCommonAncestor(shape, left, right))
           = Aboves(shape, left) \cap Aboves(shape, right)
<1> DEFINE dl == shape.depth[left]
           dr == shape.depth[right]
           d == Min({dl, dr})
           l == Up(shape, left, dl - d)
           r == Up(shape, right, dr - d)
           climbs == {n \in 0 .. d + 1 : Up(shape, l, n) = Up(shape, r, n)}
           m == Min(climbs)
           lca == LeastCommonAncestor(shape, left, right)
<1>1. dl \in Nat /\ dr \in Nat
    BY DEF Hierarchy
<1>2. left \in 0 .. Size(shape) /\ right \in 0 .. Size(shape) /\ left # 0 /\ right # 0
    BY DEF Nodes, Hierarchy
<1>3. Level(shape, left) = dl + 1 /\ Level(shape, right) = dr + 1
    BY <1>2 DEF Level
<1>4. d \in Nat /\ d <= dl /\ d <= dr /\ d \in {dl, dr}
  <2> HIDE DEF dl, dr
  <2>1. {dl, dr} \in SUBSET Nat /\ {dl, dr} # {}
      BY <1>1
  <2>2. d \in {dl, dr} /\ \A x \in {dl, dr} : d <= x
    <3>1. \A S \in SUBSET Nat : S # {} => Min(S) \in S /\ \A x \in S : Min(S) <= x
        BY MinFacts
    <3> QED
        BY <2>1, <3>1
  <2> QED
      BY <1>1, <2>2
<1> HIDE DEF dl, dr, d
<1>5. dl - d \in 0 .. dl + 1 /\ dr - d \in 0 .. dr + 1 /\ (dl + 1) - (dl - d) = d + 1
      /\ (dr + 1) - (dr - d) = d + 1
    BY <1>1, <1>4
<1>6. /\ AtOrAbove(shape, l, left) /\ Level(shape, l) = d + 1 /\ l \in 0 .. Size(shape)
      /\ AtOrAbove(shape, r, right) /\ Level(shape, r) = d + 1 /\ r \in 0 .. Size(shape)
  <2>1. AtOrAbove(shape, l, left) /\ AtOrAbove(shape, r, right)
      BY <1>2, <1>3, <1>5, UpAtOrAbove
  <2>2. Level(shape, l) = d + 1 /\ Level(shape, r) = d + 1
      BY <1>2, <1>3, <1>5, UpLevels
  <2> QED
      BY <2>1, <2>2 DEF AtOrAbove
<1>7. lca = Up(shape, l, m)
    BY DEF LeastCommonAncestor, l, r, d, dl, dr
<1>8. AtOrAbove(shape, lca, left) /\ AtOrAbove(shape, lca, right)
    BY CommonAncestorIsAbove
<1> HIDE DEF l, r, lca
<1>9. ASSUME NEW a, a \in Aboves(shape, left), a \in Aboves(shape, right)
      PROVE  a \in Aboves(shape, lca)
  <2> DEFINE k == (d + 1) - Level(shape, a)
  <2>1. /\ a \in Nodes(shape) /\ a \in 0 .. Size(shape)
        /\ AtOrAbove(shape, a, left) /\ AtOrAbove(shape, a, right)
      BY <1>9 DEF Aboves, AtOrAbove
  <2>2. Level(shape, a) \in Nat /\ Level(shape, a) <= d + 1
    <3>1. Level(shape, a) \in Nat
        BY <2>1, UpLevels
    <3>2. Level(shape, a) <= dl + 1 /\ Level(shape, a) <= dr + 1
        BY <1>3, <2>1 DEF AtOrAbove
    <3> QED
        BY <1>4, <3>1, <3>2
  <2>3. AtOrAbove(shape, a, l) /\ AtOrAbove(shape, a, r)
      BY <1>2, <1>6, <2>1, <2>2, AbovesAreAChain
  <2>4. a = Up(shape, l, k) /\ a = Up(shape, r, k)
      BY <1>6, <2>3 DEF AtOrAbove
  <2>5. k \in 0 .. d + 1
      BY <1>4, <2>2
  <2>6. climbs \in SUBSET Nat /\ k \in climbs
      BY <1>4, <2>4, <2>5
  <2>7. m \in climbs /\ m <= k
    <3> HIDE DEF climbs
    <3> QED
        BY <2>6, MinFacts
  <2>8. m \in 0 .. d + 1 /\ m \in Nat
      BY <1>4, <2>7
  <2> HIDE DEF m, climbs
  <2>9. k - m \in Nat /\ m + (k - m) = k
      BY <2>5, <2>7, <2>8, <1>4
  <2> HIDE DEF k
  <2>10. a = Up(shape, lca, k - m)
      BY ZenonT(90), <1>6, <1>7, <2>4, <2>8, <2>9, UpAdds
  <2>11. Level(shape, lca) = (d + 1) - m
      BY <1>6, <1>7, <2>8, UpLevels
  <2>12. Level(shape, a) <= Level(shape, lca) /\ Level(shape, lca) - Level(shape, a) = k - m
    <3> HIDE DEF m, climbs
    <3>1. k = (d + 1) - Level(shape, a)
        BY DEF k
    <3> QED
        BY <1>4, <2>2, <2>7, <2>8, <2>11, <3>1
  <2> QED
      BY <2>1, <2>10, <2>12 DEF Aboves, AtOrAbove
<1>10. ASSUME NEW a \in Aboves(shape, lca)
       PROVE  a \in Aboves(shape, left) /\ a \in Aboves(shape, right)
    BY <1>2, <1>8, AboveAbove DEF Aboves
<1> QED
    BY <1>9, <1>10 DEF lca

(* The nodes that a climb passes before it stops are those that enclose its  *)
(* beginning and not its end, each one above those before (position.go,      *)
(* paths).                                                                 *)
LEMMA ClimbPasses ==
    ASSUME NEW shape, Hierarchy(shape), NEW i \in Nodes(shape), NEW stop,
           AtOrAbove(shape, stop, i), NEW n, n = Level(shape, i) - Level(shape, stop)
    PROVE  /\ n \in Nat
           /\ Aboves(shape, i) \ Aboves(shape, stop) = {Up(shape, i, k) : k \in 0 .. n - 1}
           /\ \A j, k \in 0 .. n - 1 :
                 j < k => Up(shape, i, k) \in Aboves(shape, Up(shape, i, j)) \ {Up(shape, i, j)}
<1>1. /\ i \in 0 .. Size(shape) /\ i # 0 /\ stop \in 0 .. Size(shape) /\ Size(shape) \in Nat
      /\ Level(shape, i) \in Nat /\ Level(shape, stop) \in Nat /\ n \in Nat
      /\ n <= Level(shape, i)
  <2>1. i \in 0 .. Size(shape) /\ i # 0 /\ stop \in 0 .. Size(shape) /\ Size(shape) \in Nat
      BY DEF Nodes, Hierarchy, AtOrAbove
  <2>2. /\ Level(shape, i) \in Nat /\ Level(shape, stop) \in Nat
        /\ Level(shape, stop) <= Level(shape, i)
      BY <2>1, UpLevels DEF AtOrAbove
  <2> QED
      BY <2>1, <2>2
<1>2. ASSUME NEW k \in 0 .. n - 1
      PROVE  /\ Up(shape, i, k) \in Nodes(shape) /\ AtOrAbove(shape, Up(shape, i, k), i)
             /\ Level(shape, Up(shape, i, k)) = Level(shape, i) - k
  <2>1. k \in 0 .. Level(shape, i) /\ Level(shape, i) - k # 0
      BY <1>1
  <2>2. /\ Level(shape, Up(shape, i, k)) = Level(shape, i) - k
        /\ AtOrAbove(shape, Up(shape, i, k), i)
      BY <1>1, <2>1, UpLevels, UpAtOrAbove
  <2>3. Up(shape, i, k) \in 0 .. Size(shape) /\ Up(shape, i, k) # 0
      BY <1>1, <2>1, <2>2, UpLevels DEF AtOrAbove
  <2> QED
      BY <1>1, <2>2, <2>3 DEF Nodes
<1>3. ASSUME NEW k \in 0 .. n - 1
      PROVE  Up(shape, i, k) \in Aboves(shape, i) \ Aboves(shape, stop)
  <2>1. Level(shape, Up(shape, i, k)) > Level(shape, stop)
      BY <1>1, <1>2
  <2>2. ~AtOrAbove(shape, Up(shape, i, k), stop)
      BY <1>1, <1>2, <2>1 DEF AtOrAbove
  <2> QED
      BY <1>2, <2>2 DEF Aboves
<1>4. ASSUME NEW a \in Aboves(shape, i) \ Aboves(shape, stop)
      PROVE  \E k \in 0 .. n - 1 : a = Up(shape, i, k)
  <2> DEFINE k == Level(shape, i) - Level(shape, a)
  <2>1. a \in Nodes(shape) /\ AtOrAbove(shape, a, i) /\ ~AtOrAbove(shape, a, stop)
      BY DEF Aboves
  <2>2. Level(shape, a) \in Nat /\ a \in 0 .. Size(shape)
      BY <2>1, UpLevels DEF AtOrAbove
  <2>3. ~(Level(shape, a) <= Level(shape, stop))
      BY <1>1, <2>1, AbovesAreAChain
  <2>4. a = Up(shape, i, k)
      BY <2>1 DEF AtOrAbove
  <2>5. k \in 0 .. n - 1
    <3>1. Level(shape, a) <= Level(shape, i)
        BY <2>1 DEF AtOrAbove
    <3> QED
        BY <1>1, <2>2, <2>3, <3>1
  <2> QED
      BY <2>4, <2>5
<1>5. ASSUME NEW j \in 0 .. n - 1, NEW k \in 0 .. n - 1, j < k
      PROVE  Up(shape, i, k) \in Aboves(shape, Up(shape, i, j)) \ {Up(shape, i, j)}
  <2>1. /\ AtOrAbove(shape, Up(shape, i, k), i) /\ AtOrAbove(shape, Up(shape, i, j), i)
        /\ Level(shape, Up(shape, i, k)) = Level(shape, i) - k
        /\ Level(shape, Up(shape, i, j)) = Level(shape, i) - j
        /\ Up(shape, i, k) \in Nodes(shape)
      BY <1>2
  <2>2. Level(shape, i) - k <= Level(shape, i) - j /\ Level(shape, i) - k # Level(shape, i) - j
      BY <1>1, <1>5
  <2>3. AtOrAbove(shape, Up(shape, i, k), Up(shape, i, j))
      BY <1>1, <2>1, <2>2, AbovesAreAChain
  <2> QED
      BY <2>1, <2>2, <2>3 DEF Aboves
<1> QED
    BY <1>1, <1>3, <1>4, <1>5

(* Exits and entries take a lineage to another one: what leads to the same   *)
(* node from both sides (position.go, paths).                                *)
LEMMA PathsCover ==
    ASSUME NEW shape, Hierarchy(shape), NEW source \in Nodes(shape),
           NEW destination \in Nodes(shape), NEW exits, NEW entries, NEW stop,
           Leads(shape, source, destination, exits, entries, stop)
    PROVE  /\ ToSet(exits) = Aboves(shape, source) \ Aboves(shape, stop)
           /\ ToSet(entries) = Aboves(shape, destination) \ Aboves(shape, stop)
           /\ \A j, k \in DOMAIN exits :
                 j < k => exits[k] \in Aboves(shape, exits[j]) \ {exits[j]}
           /\ \A j, k \in DOMAIN entries :
                 j < k => entries[j] \in Aboves(shape, entries[k]) \ {entries[k]}
<1> DEFINE m == Level(shape, source) - Level(shape, stop)
           n == Level(shape, destination) - Level(shape, stop)
           U(k) == Up(shape, source, k)
           D(k) == Up(shape, destination, k)
<1>1. AtOrAbove(shape, stop, source) /\ AtOrAbove(shape, stop, destination)
      /\ exits = [k \in 1 .. m |-> U(k - 1)] /\ entries = [k \in 1 .. n |-> D(n - k)]
    BY DEF Leads
<1>2. /\ m \in Nat
      /\ Aboves(shape, source) \ Aboves(shape, stop) = {U(k) : k \in 0 .. m - 1}
      /\ \A j, k \in 0 .. m - 1 : j < k => U(k) \in Aboves(shape, U(j)) \ {U(j)}
    BY <1>1, ClimbPasses
<1>3. /\ n \in Nat
      /\ Aboves(shape, destination) \ Aboves(shape, stop) = {D(k) : k \in 0 .. n - 1}
      /\ \A j, k \in 0 .. n - 1 : j < k => D(k) \in Aboves(shape, D(j)) \ {D(j)}
    BY <1>1, ClimbPasses
<1> HIDE DEF m, n, U, D
<1>4. ToSet(exits) = {U(k) : k \in 0 .. m - 1}
  <2>1. ASSUME NEW k \in 0 .. m - 1 PROVE U(k) \in ToSet(exits)
    <3>1. k + 1 \in 1 .. m /\ (k + 1) - 1 = k
        BY <1>2
    <3>2. exits[k + 1] = U(k) /\ k + 1 \in DOMAIN exits
        BY <1>1, <3>1
    <3> QED
        BY <3>2 DEF ToSet
  <2>2. ASSUME NEW k \in DOMAIN exits PROVE exits[k] \in {U(j) : j \in 0 .. m - 1}
    <3>1. k \in 1 .. m /\ exits[k] = U(k - 1)
        BY <1>1
    <3>2. k - 1 \in 0 .. m - 1
        BY <1>2, <3>1
    <3> QED
        BY <3>1, <3>2
  <2> QED
      BY <2>1, <2>2 DEF ToSet
<1>5. ToSet(entries) = {D(k) : k \in 0 .. n - 1}
  <2>1. ASSUME NEW k \in 0 .. n - 1 PROVE D(k) \in ToSet(entries)
    <3>1. n - k \in 1 .. n /\ n - (n - k) = k
        BY <1>3
    <3>2. entries[n - k] = D(k) /\ n - k \in DOMAIN entries
        BY <1>1, <3>1
    <3> QED
        BY <3>2 DEF ToSet
  <2>2. ASSUME NEW k \in DOMAIN entries PROVE entries[k] \in {D(j) : j \in 0 .. n - 1}
    <3>1. k \in 1 .. n /\ entries[k] = D(n - k)
        BY <1>1
    <3>2. n - k \in 0 .. n - 1
        BY <1>3, <3>1
    <3> QED
        BY <3>1, <3>2
  <2> QED
      BY <2>1, <2>2 DEF ToSet
<1>6. ASSUME NEW j \in DOMAIN exits, NEW k \in DOMAIN exits, j < k
      PROVE  exits[k] \in Aboves(shape, exits[j]) \ {exits[j]}
  <2>1. j - 1 \in 0 .. m - 1 /\ k - 1 \in 0 .. m - 1 /\ j - 1 < k - 1
      BY <1>1, <1>2, <1>6
  <2>2. exits[j] = U(j - 1) /\ exits[k] = U(k - 1)
      BY <1>1
  <2> QED
      BY <1>2, <2>1, <2>2
<1>7. ASSUME NEW j \in DOMAIN entries, NEW k \in DOMAIN entries, j < k
      PROVE  entries[j] \in Aboves(shape, entries[k]) \ {entries[k]}
  <2>1. n - j \in 0 .. n - 1 /\ n - k \in 0 .. n - 1 /\ n - k < n - j
      BY <1>1, <1>3, <1>7
  <2>2. entries[j] = D(n - j) /\ entries[k] = D(n - k)
      BY <1>1
  <2> QED
      BY <1>3, <2>1, <2>2
<1> QED
    BY <1>2, <1>3, <1>4, <1>5, <1>6, <1>7

(* The path of a state is its lineage (position.go, Path).                   *)
LEMMA PathCovers ==
    ASSUME NEW shape, Hierarchy(shape), NEW i \in Nodes(shape)
    PROVE  /\ ToSet(Path(shape, i)) = Aboves(shape, i)
           /\ \A j, k \in 1 .. Len(Path(shape, i)) :
                 j < k => Path(shape, i)[k] \in Aboves(shape, Path(shape, i)[j]) \ {Path(shape, i)[j]}
<1> DEFINE n == Level(shape, i) - Level(shape, 0)
<1>1. AtOrAbove(shape, 0, i) /\ n = Level(shape, i)
  <2>1. /\ i \in 0 .. Size(shape) /\ 0 \in 0 .. Size(shape) /\ Level(shape, i) \in Nat
        /\ Level(shape, 0) = 0
      BY UpLevels DEF Nodes, Hierarchy, Level
  <2>2. Level(shape, Up(shape, i, Level(shape, i))) = 0
        /\ Up(shape, i, Level(shape, i)) \in 0 .. Size(shape)
    <3>1. Level(shape, i) \in 0 .. Level(shape, i) /\ Level(shape, i) - Level(shape, i) = 0
        BY <2>1
    <3> QED
        BY <2>1, <3>1, UpLevels, UpFacts
  <2>3. Up(shape, i, Level(shape, i)) = 0
      BY <2>2, UpLevels
  <2>4. Level(shape, i) - Level(shape, 0) = Level(shape, i) /\ Level(shape, 0) <= Level(shape, i)
      BY <2>1
  <2> QED
      BY <2>1, <2>3, <2>4 DEF AtOrAbove
<1>2. /\ n \in Nat
      /\ Aboves(shape, i) \ Aboves(shape, 0) = {Up(shape, i, k) : k \in 0 .. n - 1}
      /\ \A j, k \in 0 .. n - 1 :
            j < k => Up(shape, i, k) \in Aboves(shape, Up(shape, i, j)) \ {Up(shape, i, j)}
    BY <1>1, ClimbPasses
<1>3. Aboves(shape, 0) = {}
    BY AbovesFacts
<1>4. Path(shape, i) = [k \in 1 .. n |-> Up(shape, i, k - 1)]
    BY ZenonT(90), <1>1, LineageFacts DEF Lineage
<1> HIDE DEF n
<1>5. ToSet(Path(shape, i)) = {Up(shape, i, k) : k \in 0 .. n - 1}
  <2>1. ASSUME NEW k \in 0 .. n - 1 PROVE Up(shape, i, k) \in ToSet(Path(shape, i))
    <3>1. k + 1 \in 1 .. n /\ (k + 1) - 1 = k
        BY <1>2
    <3>2. Path(shape, i)[k + 1] = Up(shape, i, k) /\ k + 1 \in DOMAIN Path(shape, i)
        BY <1>4, <3>1
    <3> QED
        BY <3>2 DEF ToSet
  <2>2. ASSUME NEW k \in DOMAIN Path(shape, i)
        PROVE  Path(shape, i)[k] \in {Up(shape, i, j) : j \in 0 .. n - 1}
    <3>1. k \in 1 .. n /\ Path(shape, i)[k] = Up(shape, i, k - 1)
        BY <1>4
    <3>2. k - 1 \in 0 .. n - 1
        BY <1>2, <3>1
    <3> QED
        BY <3>1, <3>2
  <2> QED
      BY <2>1, <2>2 DEF ToSet
<1>6. ASSUME NEW j \in 1 .. Len(Path(shape, i)), NEW k \in 1 .. Len(Path(shape, i)), j < k
      PROVE  Path(shape, i)[k] \in Aboves(shape, Path(shape, i)[j]) \ {Path(shape, i)[j]}
  <2>1. j \in 1 .. n /\ k \in 1 .. n /\ Path(shape, i)[j] = Up(shape, i, j - 1)
        /\ Path(shape, i)[k] = Up(shape, i, k - 1)
      BY <1>2, <1>4
  <2>2. j - 1 \in 0 .. n - 1 /\ k - 1 \in 0 .. n - 1 /\ j - 1 < k - 1
      BY <1>2, <1>6, <2>1
  <2> QED
      BY <1>2, <2>1, <2>2
<1> QED
    BY <1>2, <1>3, <1>5, <1>6

-----------------------------------------------------------------------------
(* The order of the traversal: parents first, and a state together with all  *)
(* the states below it.                                                    *)

\* The last of p is replaced by q.
Replaces(p, q, r) == r = Front(p) \o q

\* The list is one shorter, and q is added to it.
Lengthened(p, q, r, l, m) ==
    /\ l \in Nat \ {0} /\ m \in Nat
    /\ Last(p) = p[l]
    /\ Len(r) = (l - 1) + m
    /\ \A k \in 1 .. l - 1 : r[k] = p[k]
    /\ \A k \in l .. Len(r) : k - (l - 1) \in 1 .. m /\ r[k] = q[k - (l - 1)]

(* The last of the stack is replaced by its children (position.go,           *)
(* compileShape).                                                           *)
LEMMA Replaced ==
    ASSUME NEW S, NEW p \in Seq(S), p # << >>, NEW q \in Seq(S), NEW r, Replaces(p, q, r)
    PROVE  Lengthened(p, q, r, Len(p), Len(q))
<1> DEFINE f == Front(p)
<1>1. Len(p) \in Nat \ {0} /\ Len(q) \in Nat
    OBVIOUS
<1>2. f = [k \in 1 .. Len(p) - 1 |-> p[k]]
    BY <1>1 DEF Front
<1>3. f \in Seq(S) /\ Len(f) = Len(p) - 1
    BY <1>1, <1>2
<1> HIDE DEF f
<1>4. /\ Len(f \o q) = Len(f) + Len(q)
      /\ \A k \in 1 .. Len(f) + Len(q) :
            (f \o q)[k] = IF k <= Len(f) THEN f[k] ELSE q[k - Len(f)]
    BY <1>3, ConcatProperties
<1>5. r = f \o q /\ Last(p) = p[Len(p)]
    BY DEF f, Last, Replaces
<1> QED
    BY <1>1, <1>2, <1>3, <1>4, <1>5 DEF Lengthened

\* The first k nodes of the preorder are those visited.
Keeps(n, c, o, k) ==
    /\ c[k].preorder \in Seq(1 .. n) /\ Len(c[k].preorder) = k
    /\ \A q \in 1 .. k : c[k].preorder[q] = o[q]

\* The next node is the last of the stack, and its children come on top.
Takes(parent, n, c, o, k) ==
    /\ c[k].stack \in Seq(1 .. n) /\ c[k].stack # << >>
    /\ o[k + 1] = Last(c[k].stack)
    /\ Replaces(c[k].stack, Children(parent, o[k + 1]), c[k + 1].stack)

(* What is visited stays at its place, and the next one is the last of the   *)
(* stack (position.go, compileShape).                                        *)
LEMMA VisitOrder ==
    ASSUME NEW n, NEW parent, Forest(parent, n), NEW c, VisitLoop(parent, n, c),
           NEW o, o = Visited(parent).preorder
    PROVE  /\ \A k \in 0 .. n : Keeps(n, c, o, k)
           /\ \A k \in 0 .. n - 1 : Takes(parent, n, c, o, k)
<1>1. n \in Nat /\ o = c[n].preorder
    BY DEF Forest, VisitLoop
<1>2. \A k \in 0 .. n : c[k].preorder \in Seq(1 .. n) /\ c[k].stack \in Seq(1 .. n)
                        /\ Len(c[k].preorder) = k /\ VisitInv(parent, n, k, c[k])
    BY DEF VisitLoop, VisitInv
<1>3. \A k \in 1 .. n : k - 1 \in 0 .. n - 1 /\ k - 1 \in 0 .. n /\ k \in 0 .. n
    BY <1>1
<1>4. ASSUME NEW k \in 1 .. n
      PROVE  /\ c[k].preorder = Append(c[k - 1].preorder, Last(c[k - 1].stack))
             /\ c[k].stack = Front(c[k - 1].stack) \o Children(parent, Last(c[k - 1].stack))
             /\ c[k - 1].stack # << >>
  <2>1. c[k] = VisitStep(parent, c[k - 1])
      BY DEF VisitLoop
  <2>2. c[k - 1].stack # << >>
      BY <1>2, <1>3, VisitGoesOn
  <2> QED
      BY SMTT(60), <2>1, <2>2 DEF VisitStep
<1>5. ASSUME NEW k \in 1 .. n
      PROVE  /\ \A q \in 1 .. k - 1 : c[k].preorder[q] = c[k - 1].preorder[q]
             /\ c[k].preorder[k] = Last(c[k - 1].stack)
  <2>1. c[k - 1].preorder \in Seq(1 .. n) /\ Len(c[k - 1].preorder) = k - 1
      BY <1>2, <1>3
  <2>2. k \in Nat \ {0}
      BY <1>1
  <2> DEFINE p == c[k - 1].preorder
             x == Last(c[k - 1].stack)
  <2>3. c[k].preorder = Append(p, x) /\ p \in Seq(1 .. n) /\ Len(p) = k - 1
      BY <1>4, <2>1
  <2> HIDE DEF p, x
  <2>4. /\ \A q \in 1 .. k - 1 : c[k].preorder[q] = p[q]
        /\ c[k].preorder[k] = x
      BY <2>2, <2>3
  <2> QED
      BY <2>4 DEF p, x
<1> DEFINE R == {m \in Nat : \A k \in 0 .. n : k + m <= n =>
                     \A q \in 1 .. k : c[k + m].preorder[q] = c[k].preorder[q]}
<1>6. Nat \subseteq R
  <2>1. 0 \in R
    <3>1. \A k \in 0 .. n : k + 0 = k
        BY <1>1
    <3> QED
        BY <3>1
  <2>2. ASSUME NEW m \in Nat, m \in R PROVE m + 1 \in R
    <3> SUFFICES ASSUME NEW k \in 0 .. n, k + (m + 1) <= n, NEW q \in 1 .. k
                 PROVE  c[k + (m + 1)].preorder[q] = c[k].preorder[q]
        BY <2>2
    <3>1. /\ k + m <= n /\ k + (m + 1) \in 1 .. n /\ (k + (m + 1)) - 1 = k + m
          /\ q \in 1 .. (k + (m + 1)) - 1
        BY <1>1, <2>2
    <3>2. c[k + m].preorder[q] = c[k].preorder[q]
        BY <2>2, <3>1
    <3> HIDE DEF R
    <3>3. c[k + (m + 1)].preorder[q] = c[(k + (m + 1)) - 1].preorder[q]
        BY <1>5, <3>1
    <3> QED
        BY <3>1, <3>2, <3>3
  <2> HIDE DEF R
  <2> QED
      BY <2>1, <2>2, InductOn
<1>7. ASSUME NEW k \in 0 .. n, NEW q \in 1 .. k PROVE c[k].preorder[q] = o[q]
  <2>1. n - k \in Nat /\ k + (n - k) = n /\ n <= n
      BY <1>1
  <2>2. n - k \in R
      BY <1>6, <2>1
  <2>3. c[k + (n - k)].preorder[q] = c[k].preorder[q]
    <3> DEFINE m == n - k
    <3>1. m \in R /\ k + m <= n
        BY <2>1, <2>2
    <3> HIDE DEF m
    <3>2. c[k + m].preorder[q] = c[k].preorder[q]
        BY <3>1
    <3> QED
        BY <3>2 DEF m
  <2> QED
      BY <1>1, <2>1, <2>3
<1> HIDE DEF R
<1>8. ASSUME NEW k \in 1 .. n PROVE o[k] = Last(c[k - 1].stack)
  <2>1. k \in 0 .. n /\ k \in 1 .. k
      BY <1>1
  <2> QED
      BY <1>5, <1>7, <2>1
<1>9. ASSUME NEW k \in 0 .. n - 1 PROVE Takes(parent, n, c, o, k)
  <2>1. k + 1 \in 1 .. n /\ (k + 1) - 1 = k /\ k \in 0 .. n
      BY <1>1
  <2>2. /\ c[k + 1].stack = Front(c[k].stack) \o Children(parent, Last(c[k].stack))
        /\ c[k].stack # << >> /\ o[k + 1] = Last(c[k].stack)
    <3> DEFINE j == k + 1
    <3>1. j \in 1 .. n /\ j - 1 = k
        BY <2>1
    <3> HIDE DEF j
    <3>2. /\ c[j].stack = Front(c[j - 1].stack) \o Children(parent, Last(c[j - 1].stack))
          /\ c[j - 1].stack # << >> /\ o[j] = Last(c[j - 1].stack)
        BY <1>4, <1>8, <3>1
    <3> QED
        BY <3>1, <3>2 DEF j
  <2>3. c[k].stack \in Seq(1 .. n)
      BY <1>2, <2>1
  <2> QED
      BY <2>2, <2>3 DEF Takes, Replaces
<1>10. ASSUME NEW k \in 0 .. n PROVE Keeps(n, c, o, k)
    BY <1>2, <1>7 DEF Keeps
<1> QED
    BY <1>9, <1>10

\* All nodes once, each after its parent.
Traversal(parent, n, o) ==
    /\ o \in Seq(1 .. n) /\ Len(o) = n /\ ToSet(o) = 1 .. n
    /\ \A j, k \in 1 .. n : o[j] = o[k] => j = k
    /\ \A k \in 1 .. n : parent[o[k]] = 0 \/ \E j \in 1 .. k - 1 : o[j] = parent[o[k]]

(* Every node is visited once, and its parent before it (position.go,        *)
(* compileShape).                                                           *)
LEMMA ParentsFirst ==
    ASSUME NEW n, NEW parent, Forest(parent, n), NEW o, o = Visited(parent).preorder
    PROVE  Traversal(parent, n, o)
<1>1. PICK c : VisitLoop(parent, n, c)
    BY VisitSteps
<1>2. n \in Nat /\ o \in Seq(1 .. n) /\ Len(o) = n /\ ToSet(o) = 1 .. n
    BY VisitedFacts DEF Forest
<1>3. ASSUME NEW k \in 1 .. n
      PROVE  /\ o[k] \in 1 .. n
             /\ \A j \in 1 .. k - 1 : o[j] # o[k]
             /\ parent[o[k]] = 0 \/ \E j \in 1 .. k - 1 : o[j] = parent[o[k]]
  <2> DEFINE v == c[k - 1]
  <2>1. k - 1 \in 0 .. n /\ k - 1 \in 0 .. n - 1 /\ (k - 1) + 1 = k
      BY <1>2
  <2>2. /\ v.preorder \in Seq(1 .. n) /\ Len(v.preorder) = k - 1
        /\ \A q \in 1 .. k - 1 : v.preorder[q] = o[q]
    <3>1. Keeps(n, c, o, k - 1)
        BY <1>1, <2>1, VisitOrder
    <3> QED
        BY <3>1 DEF Keeps
  <2>3. v.stack \in Seq(1 .. n) /\ v.stack # << >> /\ o[k] = Last(v.stack)
    <3>1. Takes(parent, n, c, o, k - 1)
        BY <1>1, <2>1, VisitOrder
    <3> QED
        BY <2>1, <3>1 DEF Takes
  <2>4. VisitInv(parent, n, k - 1, v)
      BY <1>1, <2>1 DEF VisitLoop
  <2> HIDE DEF v
  <2>5. o[k] \in ToSet(v.stack) /\ o[k] \in 1 .. n
    <3>1. Distinct(v.stack)
        BY <2>4 DEF VisitInv
    <3> DEFINE I == 1 .. n
    <3>2. v.stack \in Seq(I)
        BY <2>3
    <3> HIDE DEF I
    <3>3. Last(v.stack) \in ToSet(v.stack) /\ Last(v.stack) \in I
        BY <2>3, <3>1, <3>2, Popped
    <3> QED
        BY <2>3, <3>3 DEF I
  <2>6. ToSet(v.preorder) = {o[q] : q \in 1 .. k - 1}
    <3>1. DOMAIN v.preorder = 1 .. k - 1
        BY <2>2
    <3> QED
        BY <2>2, <3>1 DEF ToSet
  <2>7. o[k] \notin ToSet(v.preorder)
      BY <2>4, <2>5 DEF VisitInv
  <2>8. parent[o[k]] = 0 \/ parent[o[k]] \in ToSet(v.preorder)
      BY <2>4, <2>5 DEF VisitInv
  <2> QED
      BY <2>5, <2>6, <2>7, <2>8
<1>4. \A j, k \in 1 .. n : o[j] = o[k] => j = k
  <2> SUFFICES ASSUME NEW j \in 1 .. n, NEW k \in 1 .. n, o[j] = o[k], j # k PROVE FALSE
      OBVIOUS
  <2>1. j \in 1 .. k - 1 \/ k \in 1 .. j - 1
      BY <1>2
  <2> QED
      BY <1>3, <2>1
<1> QED
    BY <1>2, <1>3, <1>4 DEF Traversal

\* A node with all that is below it.
Below(parent, n, i, D) ==
    /\ D \subseteq 1 .. n /\ i \in D
    /\ \A j \in 1 .. n : parent[j] \in D => j \in D
    /\ \A j \in D : j # i => parent[j] \in D

\* Of what is below the node, nothing was visited and nothing but the node is on
\* the stack; or it was visited as one block, and what is left is on top.
BlockInv(o, i, D, k, stack) ==
    \/ /\ \A q \in 1 .. k : o[q] \notin D
       /\ \A s \in 1 .. Len(stack) : stack[s] \in D => stack[s] = i
    \/ \E p, e \in 1 .. k, m \in 0 .. Len(stack) :
          /\ o[p] = i /\ p <= e
          /\ \A q \in 1 .. k : o[q] \in D <=> p <= q /\ q <= e
          /\ \A s \in 1 .. Len(stack) : stack[s] \in D <=> s > m
          /\ m < Len(stack) => e = k

(* The next node of the traversal belongs to the block that is not finished  *)
(* (position.go, compileShape).                                             *)
LEMMA BlockStep ==
    ASSUME NEW n, NEW parent, Forest(parent, n), NEW i \in 1 .. n, NEW D,
           Below(parent, n, i, D), NEW o, NEW k \in Nat,
           NEW p \in Seq(1 .. n), p # << >>, Distinct(p), BlockInv(o, i, D, k, p),
           o[k + 1] = Last(p),
           NEW r, Replaces(p, Children(parent, o[k + 1]), r),
           \A s \in 1 .. Len(r) : \A j \in 1 .. k + 1 : r[s] # o[j]
    PROVE  BlockInv(o, i, D, k + 1, r)
<1> DEFINE x == o[k + 1]
           ch == Children(parent, x)
           l == Len(p)
<1>1. n \in Nat /\ parent \in [1 .. n -> 0 .. n]
    BY DEF Forest
<1>0. x = Last(p) /\ Replaces(p, ch, r)
    OBVIOUS
<1> HIDE DEF x
<1>2. ch \in Seq(1 .. n) /\ ToSet(ch) = {j \in 1 .. n : parent[j] = x}
    BY ZenonT(90), <1>1, ChildrenFacts
<1>3. \A s \in 1 .. Len(ch) : ch[s] \in 1 .. n /\ parent[ch[s]] = x
  <2>1. \A s \in 1 .. Len(ch) : ch[s] \in ToSet(ch)
      BY <1>2 DEF ToSet
  <2> QED
      BY <1>2, <2>1
<1> HIDE DEF ch, l
<1>4. /\ l \in Nat \ {0} /\ Len(ch) \in Nat
      /\ x = p[l]
      /\ Len(r) = (l - 1) + Len(ch)
      /\ \A s \in 1 .. l - 1 : r[s] = p[s]
      /\ \A s \in l .. Len(r) : s - (l - 1) \in 1 .. Len(ch) /\ r[s] = ch[s - (l - 1)]
  <2> DEFINE I == 1 .. n
  <2>1. p \in Seq(I) /\ ch \in Seq(I)
      BY <1>2
  <2> HIDE DEF I
  <2>3. Lengthened(p, ch, r, l, Len(ch))
      BY <1>0, <2>1, Replaced DEF l
  <2> QED
      BY <1>0, <2>3 DEF Lengthened
<1>5. ASSUME NEW s \in l .. Len(r) PROVE r[s] \in 1 .. n /\ parent[r[s]] = x
  <2>1. s - (l - 1) \in 1 .. Len(ch) /\ r[s] = ch[s - (l - 1)]
      BY <1>4
  <2> QED
      BY <1>3, <2>1
<1>6. \A s \in 1 .. Len(r) : s \in 1 .. l - 1 \/ s \in l .. Len(r)
    BY <1>4
<1>7. \A s \in 1 .. l - 1 : p[s] # x
  <2>1. \A s \in 1 .. l - 1 : s \in 1 .. l /\ s # l /\ l \in 1 .. l
      BY <1>4
  <2>2. \A s, t \in 1 .. l : p[s] = p[t] => s = t
      BY DEF Distinct, l
  <2> QED
      BY <1>4, <2>1, <2>2
<1>8. /\ D \subseteq 1 .. n /\ i \in D
      /\ \A j \in 1 .. n : parent[j] \in D => j \in D
      /\ \A j \in D : j # i => parent[j] \in D
    BY DEF Below
<1>9. k + 1 \in 1 .. k + 1 /\ \A q \in 1 .. k + 1 : q \in 1 .. k \/ q = k + 1
    OBVIOUS
<1>10. \A s \in 1 .. l - 1 : s \in 1 .. l
    BY <1>4
<1>11. l \in 1 .. l
    BY <1>4
<1>12. CASE /\ \A q \in 1 .. k : o[q] \notin D
            /\ \A s \in 1 .. Len(p) : p[s] \in D => p[s] = i
  <2>1. \A s \in 1 .. l : p[s] \in D => p[s] = i
      BY <1>12 DEF l
  <2>2. CASE x = i
    <3>1. \A s \in 1 .. l - 1 : r[s] \notin D
        BY <1>4, <1>7, <1>10, <2>1, <2>2
    <3>2. \A s \in l .. Len(r) : r[s] \in D
      <4>1. \A y \in 1 .. n : parent[y] = x => y \in D
          BY <1>8, <2>2
      <4> QED
          BY <1>5, <4>1
    <3>3. l - 1 \in 0 .. Len(r)
        BY <1>4
    <3>4. \A s \in 1 .. Len(r) : r[s] \in D <=> s > l - 1
      <4>1. \A s \in 1 .. l - 1 : ~(s > l - 1)
          BY <1>4
      <4>2. \A s \in l .. Len(r) : s > l - 1
          BY <1>4
      <4> QED
          BY <1>6, <3>1, <3>2, <4>1, <4>2
    <3>5. o[k + 1] = i
        BY <2>2 DEF x
    <3>6. \A q \in 1 .. k + 1 : o[q] \in D <=> k + 1 <= q /\ q <= k + 1
      <4>1. \A q \in 1 .. k : ~(k + 1 <= q)
          OBVIOUS
      <4> QED
          BY <1>8, <1>9, <1>12, <3>5, <4>1
    <3>7. k + 1 <= k + 1
        OBVIOUS
    <3> QED
        BY <1>9, <3>3, <3>4, <3>5, <3>6, <3>7 DEF BlockInv
  <2>3. CASE x # i
    <3>1. x \notin D
        BY <1>4, <1>11, <2>1, <2>3
    <3>2. \A s \in 1 .. Len(r) : r[s] \in D => r[s] = i
      <4>0. \A y \in 1 .. n : parent[y] = x /\ y \in D => y = i
          BY <1>8, <3>1
      <4>1. \A s \in l .. Len(r) : r[s] \in D => r[s] = i
          BY <1>5, <4>0
      <4> QED
          BY <1>4, <1>6, <1>10, <2>1, <4>1
    <3>3. \A q \in 1 .. k + 1 : o[q] \notin D
        BY <1>9, <1>12, <3>1 DEF x
    <3> QED
        BY <3>2, <3>3 DEF BlockInv
  <2> QED
      BY <2>2, <2>3
<1>13. ASSUME NEW a \in 1 .. k, NEW e \in 1 .. k, NEW m \in 0 .. l,
              o[a] = i, a <= e, \A q \in 1 .. k : o[q] \in D <=> a <= q /\ q <= e,
              \A s \in 1 .. l : p[s] \in D <=> s > m,
              m < l => e = k
       PROVE  BlockInv(o, i, D, k + 1, r)
  <2>1. a \in 1 .. k + 1 /\ e \in 1 .. k + 1
      OBVIOUS
  <2>2. CASE m < l
    <3>1. x \in D /\ m \in 0 .. l - 1 /\ e = k
        BY <1>4, <1>11, <1>13, <2>2
    <3>2. \A s \in l .. Len(r) : r[s] \in D /\ s > m
      <4>0. \A y \in 1 .. n : parent[y] = x => y \in D
          BY <1>8, <3>1
      <4>1. \A s \in l .. Len(r) : r[s] \in D
          BY <1>5, <4>0
      <4>2. \A s \in l .. Len(r) : s > m
          BY <1>4, <3>1
      <4> QED
          BY <4>1, <4>2
    <3>3. \A s \in 1 .. l - 1 : r[s] \in D <=> s > m
        BY <1>4, <1>10, <1>13
    <3>4. \A s \in 1 .. Len(r) : r[s] \in D <=> s > m
        BY <1>6, <3>2, <3>3
    <3>5. \A q \in 1 .. k + 1 : o[q] \in D <=> a <= q /\ q <= k + 1
      <4>1. \A q \in 1 .. k : o[q] \in D <=> a <= q /\ q <= k + 1
          BY <1>13, <3>1
      <4>2. o[k + 1] \in D /\ a <= k + 1 /\ k + 1 <= k + 1
          BY <3>1, <1>13 DEF x
      <4> QED
          BY <1>9, <4>1, <4>2
    <3>6. m \in 0 .. Len(r) /\ a <= k + 1
        BY <1>4, <3>1
    <3> QED
        BY <1>9, <1>13, <2>1, <3>4, <3>5, <3>6 DEF BlockInv
  <2>3. CASE m = l
    <3>1. \A s \in 1 .. l : p[s] \notin D
        BY <1>4, <1>13, <2>3
    <3>2. x \notin D
        BY <1>4, <1>11, <3>1
    <3>3. \A s \in 1 .. Len(r) : r[s] # i
        BY <1>13, <2>1
    <3>4. \A s \in 1 .. Len(r) : r[s] \notin D
      <4>1. \A s \in l .. Len(r) : s \in 1 .. Len(r)
          BY <1>4
      <4>2. \A s \in l .. Len(r) : r[s] \notin D
          BY <1>5, <1>8, <3>2, <3>3, <4>1
      <4> QED
          BY <1>4, <1>6, <1>10, <3>1, <4>2
    <3>5. Len(r) \in Nat
        BY <1>4
    <3>6. Len(r) \in 0 .. Len(r) /\ ~(Len(r) < Len(r))
          /\ \A s \in 1 .. Len(r) : ~(s > Len(r))
        BY <3>5
    <3>7. \A q \in 1 .. k + 1 : o[q] \in D <=> a <= q /\ q <= e
      <4>1. ~(k + 1 <= e) /\ o[k + 1] \notin D
          BY <3>2 DEF x
      <4> QED
          BY <1>9, <1>13, <4>1
    <3> QED
        BY <1>13, <2>1, <3>4, <3>6, <3>7 DEF BlockInv
  <2> QED
      BY <1>4, <1>13, <2>2, <2>3
<1>14. CASE \E a, e \in 1 .. k, m \in 0 .. l :
                /\ o[a] = i /\ a <= e
                /\ \A q \in 1 .. k : o[q] \in D <=> a <= q /\ q <= e
                /\ \A s \in 1 .. l : p[s] \in D <=> s > m
                /\ m < l => e = k
    BY <1>13, <1>14
<1> QED
    BY <1>12, <1>14 DEF BlockInv, l

(* A state and the states below it are visited one after the other, the      *)
(* state first (position.go, compileShape).                                  *)
LEMMA BlocksAreVisited ==
    ASSUME NEW n, NEW parent, Forest(parent, n), NEW i \in 1 .. n, NEW D,
           Below(parent, n, i, D), NEW o, o = Visited(parent).preorder
    PROVE  \E p, e \in 1 .. n :
              /\ o[p] = i /\ p <= e
              /\ \A q \in 1 .. n : o[q] \in D <=> p <= q /\ q <= e
<1>1. PICK c : VisitLoop(parent, n, c)
    BY VisitSteps
<1>2. n \in Nat /\ parent \in [1 .. n -> 0 .. n]
    BY DEF Forest
<1>3. /\ D \subseteq 1 .. n /\ i \in D /\ 0 \notin D
      /\ \A j \in D : j # i => parent[j] \in D
    BY <1>2 DEF Below
<1> DEFINE T == {k \in Nat : k <= n => BlockInv(o, i, D, k, c[k].stack)}
<1>4. 0 \in T
  <2> DEFINE ch == Children(parent, 0)
  <2>1. c[0].stack = ch
      BY <1>1 DEF VisitLoop, VisitNone
  <2>2. ch \in Seq(1 .. n) /\ ToSet(ch) = {j \in 1 .. n : parent[j] = 0}
      BY <1>2, ChildrenFacts
  <2> HIDE DEF ch
  <2>3. \A s \in 1 .. Len(ch) : ch[s] \in ToSet(ch)
      BY <2>2 DEF ToSet
  <2>4. \A s \in 1 .. Len(ch) : ch[s] \in D => ch[s] = i
      BY <1>3, <2>2, <2>3
  <2>5. BlockInv(o, i, D, 0, ch)
      BY <2>4 DEF BlockInv
  <2> QED
      BY <2>1, <2>5
<1>5. ASSUME NEW k \in Nat, k \in T PROVE k + 1 \in T
  <2> SUFFICES ASSUME k + 1 <= n PROVE BlockInv(o, i, D, k + 1, c[k + 1].stack)
      OBVIOUS
  <2>1. k \in 0 .. n /\ k + 1 \in 0 .. n /\ k + 1 \in 1 .. n /\ (k + 1) - 1 = k /\ k <= n
      BY <1>2
  <2>2. BlockInv(o, i, D, k, c[k].stack)
      BY <1>5, <2>1
  <2>3. /\ c[k].stack \in Seq(1 .. n) /\ c[k].stack # << >>
        /\ o[k + 1] = Last(c[k].stack)
        /\ Replaces(c[k].stack, Children(parent, o[k + 1]), c[k + 1].stack)
    <3>1. k \in 0 .. n - 1
        BY <1>2
    <3> HIDE DEF T
    <3>2. Takes(parent, n, c, o, k)
        BY <1>1, <3>1, VisitOrder
    <3> QED
        BY <3>2 DEF Takes
  <2>4. VisitInv(parent, n, k, c[k]) /\ VisitInv(parent, n, k + 1, c[k + 1])
      BY <1>1, <2>1 DEF VisitLoop
  <2>5. /\ c[k + 1].preorder \in Seq(1 .. n) /\ Len(c[k + 1].preorder) = k + 1
        /\ \A q \in 1 .. k + 1 : c[k + 1].preorder[q] = o[q]
    <3>1. Keeps(n, c, o, k + 1)
      <4> HIDE DEF T
      <4> QED
          BY <1>1, <2>1, VisitOrder
    <3> QED
        BY <3>1 DEF Keeps
  <2>6. \A s \in 1 .. Len(c[k + 1].stack) : \A j \in 1 .. k + 1 : c[k + 1].stack[s] # o[j]
    <3>1. c[k + 1].stack \in Seq(1 .. n)
          /\ ToSet(c[k + 1].stack) \cap ToSet(c[k + 1].preorder) = {}
        BY <2>4 DEF VisitInv
    <3>2. \A s \in 1 .. Len(c[k + 1].stack) : c[k + 1].stack[s] \in ToSet(c[k + 1].stack)
        BY <3>1 DEF ToSet
    <3>3. \A j \in 1 .. k + 1 : o[j] \in ToSet(c[k + 1].preorder)
        BY SMTT(60), <2>5 DEF ToSet
    <3> QED
        BY <3>1, <3>2, <3>3
  <2>7. Distinct(c[k].stack)
      BY <2>4 DEF VisitInv
  <2> HIDE DEF T
  <2> QED
      BY <2>2, <2>3, <2>6, <2>7, BlockStep
<1>6. BlockInv(o, i, D, n, c[n].stack)
  <2>1. n \in T
    <3> HIDE DEF T
    <3> QED
        BY <1>2, <1>4, <1>5, InductOn
  <2> QED
      BY <1>2, <2>1
<1>7. \E q \in 1 .. n : o[q] \in D
  <2>1. o \in Seq(1 .. n) /\ Len(o) = n /\ ToSet(o) = 1 .. n
      BY ParentsFirst DEF Traversal
  <2>2. \E q \in 1 .. n : o[q] = i
      BY SMTT(60), <2>1 DEF ToSet
  <2> QED
      BY <1>3, <2>2
<1> QED
    BY <1>6, <1>7 DEF BlockInv

-----------------------------------------------------------------------------
(* What the second loop leaves: the end of a state's block from those of its *)
(* children, and its destination from that of its initial child.             *)

Offspring(parent, n, i) == {j \in 1 .. n : parent[j] = i}

Closes(order, parent, initials, enter, i, a, b) ==
    /\ b.exit[i] = ExitAfter(enter[i], {a.exit[j] : j \in Offspring(parent, Len(order), i)})
    /\ b.destination[i] = IF order[i] \notin DOMAIN initials THEN a.destination[i]
                          ELSE a.destination[IndexOf(order, initials[order[i]])]
    /\ \A j \in 1 .. Len(order) :
          j # i => b.exit[j] = a.exit[j] /\ b.destination[j] = a.destination[j]

(* One iteration of the second loop (position.go, compileShape).             *)
LEMMA ClosesOne ==
    ASSUME NEW order, NEW parents, NEW initials, Compilable(order, parents, initials),
           NEW n, n = Len(order), NEW parent, parent = ParentNodes(order, parents),
           NEW v, v = Visited(parent), NEW a \in CloseValues(n), NEW k \in 1 .. n,
           NEW enter, enter = EnterOf(order, v),
           NEW b, b = CloseStep(order, parent, v, enter, initials, a, k)
    PROVE  Closes(order, parent, initials, enter, v.preorder[n - k + 1], a, b)
<1> DEFINE i == v.preorder[n - k + 1]
           ends == {a.exit[j] : j \in ToSet(Children(parent, i))}
           t == IndexOf(order, initials[order[i]])
<1>1. n \in Nat /\ DOMAIN order = 1 .. n /\ Forest(parent, n)
    BY DEF Compilable
<1>2. i \in 1 .. n
    BY CloseType
<1>3. /\ b.exit = [a.exit EXCEPT ![i] = ExitAfter(enter[i], ends)]
      /\ b.destination = IF order[i] \notin DOMAIN initials THEN a.destination
                         ELSE [a.destination EXCEPT ![i] = a.destination[t]]
    BY DEF CloseStep, DestinationThrough
<1>4. ToSet(Children(parent, i)) = Offspring(parent, n, i)
  <2> HIDE DEF i
  <2>1. parent \in [1 .. n -> 0 .. n]
      BY <1>1 DEF Forest
  <2> QED
      BY <1>1, <2>1, ChildrenFacts DEF Offspring
<1>5. a.exit \in [1 .. n -> 0 .. n] /\ a.destination \in [1 .. n -> 1 .. n]
    BY DEF CloseValues
<1> HIDE DEF i
<1>6. ends = {a.exit[j] : j \in Offspring(parent, n, i)}
    BY <1>4
<1> HIDE DEF ends, t
<1>7. b.exit[i] = ExitAfter(enter[i], ends) /\ \A j \in 1 .. n : j # i => b.exit[j] = a.exit[j]
    BY <1>2, <1>3, <1>5
<1>8. /\ b.destination[i] = IF order[i] \notin DOMAIN initials THEN a.destination[i]
                            ELSE a.destination[t]
      /\ \A j \in 1 .. n : j # i => b.destination[j] = a.destination[j]
    BY <1>2, <1>3, <1>5
<1>9. Closes(order, parent, initials, enter, i, a, b)
    BY <1>6, <1>7, <1>8 DEF Closes, t
<1> QED
    BY <1>9 DEF i

\* What compileShape leaves of a node.
Closed(order, initials, n, parent, o, shape, i) ==
    /\ shape.enter[i] \in Nat /\ shape.enter[i] + 1 \in 1 .. n /\ o[shape.enter[i] + 1] = i
    /\ shape.exit[i] \in 0 .. n
    /\ shape.exit[i] = ExitAfter(shape.enter[i], {shape.exit[j] : j \in Offspring(parent, n, i)})
    /\ shape.destination[i] = IF order[i] \notin DOMAIN initials THEN i
                              ELSE shape.destination[IndexOf(order, initials[order[i]])]

(* The end of a block and the destination are final when the parent reads    *)
(* them (position.go, compileShape).                                         *)
LEMMA CloseFacts ==
    ASSUME NEW order, NEW parents, NEW initials, Compilable(order, parents, initials),
           NEW n, n = Len(order), NEW parent, parent = ParentNodes(order, parents),
           NEW o, o = Visited(parent).preorder,
           NEW shape, shape = CompileShape(order, parents, initials)
    PROVE  \A i \in 1 .. n : Closed(order, initials, n, parent, o, shape, i)
<1> DEFINE v == Visited(parent)
           enter == EnterOf(order, v)
<1>1. /\ n \in Nat /\ DOMAIN order = 1 .. n /\ Forest(parent, n)
      /\ \A i \in 1 .. n : order[i] \in DOMAIN initials =>
              \E j \in 1 .. n : order[j] = initials[order[i]] /\ parent[j] = i
      /\ \A i, j \in 1 .. n : order[i] = order[j] => i = j
    BY DEF Compilable
<1>2. PICK c : CloseLoop(order, parents, initials, c)
    BY CloseSteps
<1>3. /\ c[0] = CloseNone(order)
      /\ \A k \in 1 .. n :
            /\ c[k] = CloseStep(order, parent, v, enter, initials, c[k - 1], k)
            /\ c[k - 1] \in CloseValues(n)
      /\ shape = [state |-> order, parent |-> parent, depth |-> v.depth, enter |-> enter,
                  exit |-> c[n].exit, destination |-> c[n].destination]
    BY <1>2 DEF CloseLoop
<1>4. shape.enter = enter /\ shape.exit = c[n].exit /\ shape.destination = c[n].destination
    BY <1>3
<1>5. /\ o \in Seq(1 .. n) /\ Len(o) = n /\ ToSet(o) = 1 .. n
      /\ \A j, k \in 1 .. n : o[j] = o[k] => j = k
      /\ \A k \in 1 .. n : parent[o[k]] = 0 \/ \E j \in 1 .. k - 1 : o[j] = parent[o[k]]
  <2>1. Traversal(parent, n, o)
      BY <1>1, ParentsFirst
  <2> QED
      BY <2>1 DEF Traversal
<1>6. ASSUME NEW k \in 1 .. n
      PROVE  Closes(order, parent, initials, enter, o[n - k + 1], c[k - 1], c[k])
    BY <1>3, ClosesOne
<1>7. \A i \in 1 .. n : enter[i] \in Nat /\ enter[i] + 1 \in 1 .. n /\ o[enter[i] + 1] = i
  <2> TAKE i \in 1 .. n
  <2>1. enter[i] = IndexOf(o, i) - 1
      BY <1>1 DEF EnterOf
  <2>2. DOMAIN o = 1 .. n
      BY <1>5
  <2>3. \E x \in DOMAIN o : o[x] = i
      BY <1>5 DEF ToSet
  <2>4. IndexOf(o, i) \in 1 .. n /\ o[IndexOf(o, i)] = i
      BY <2>2, <2>3, IndexOfFacts
  <2>5. (IndexOf(o, i) - 1) + 1 = IndexOf(o, i) /\ IndexOf(o, i) - 1 \in Nat
      BY <2>4
  <2> QED
      BY <2>1, <2>4, <2>5
<1> HIDE DEF v, enter
<1>8. \A k \in 1 .. n : o[k] \in 1 .. n
    BY SMTT(60), <1>5
<1>9. ASSUME NEW k \in 1 .. n, NEW i \in 1 .. n, i # o[n - k + 1]
      PROVE  c[k].exit[i] = c[k - 1].exit[i] /\ c[k].destination[i] = c[k - 1].destination[i]
    BY <1>6, <1>9 DEF Closes
<1>10. ASSUME NEW q \in 1 .. n
       PROVE  \A m \in Nat : m <= n - q => c[m].destination[o[q]] = o[q]
  <2> DEFINE T == {m \in Nat : m <= n - q => c[m].destination[o[q]] = o[q]}
  <2>1. 0 \in T
    <3>1. c[0].destination = [x \in 1 .. n |-> x]
        BY <1>1, <1>3 DEF CloseNone
    <3> QED
        BY <1>8, <3>1
  <2>2. ASSUME NEW m \in Nat, m \in T PROVE m + 1 \in T
    <3> SUFFICES ASSUME m + 1 <= n - q PROVE c[m + 1].destination[o[q]] = o[q]
        OBVIOUS
    <3>1. /\ m + 1 \in 1 .. n /\ (m + 1) - 1 = m /\ m <= n - q
          /\ n - (m + 1) + 1 \in 1 .. n /\ n - (m + 1) + 1 # q
        BY <1>1
    <3>2. c[m].destination[o[q]] = o[q]
        BY <2>2, <3>1
    <3>3. o[n - (m + 1) + 1] # o[q] /\ o[q] \in 1 .. n
        BY <1>5, <1>8, <3>1
    <3> HIDE DEF T
    <3>4. c[m + 1].destination[o[q]] = c[(m + 1) - 1].destination[o[q]]
        BY ZenonT(90), <1>9, <3>1, <3>3
    <3> QED
        BY <3>1, <3>2, <3>4
  <2>3. Nat \subseteq T
    <3> HIDE DEF T
    <3> QED
        BY <2>1, <2>2, InductOn
  <2> QED
      BY <2>3
<1>11. ASSUME NEW q \in 1 .. n
       PROVE  \A m \in Nat : m <= q - 1 =>
                 /\ c[n - m].exit[o[q]] = c[n].exit[o[q]]
                 /\ c[n - m].destination[o[q]] = c[n].destination[o[q]]
  <2> DEFINE T == {m \in Nat : m <= q - 1 =>
                      /\ c[n - m].exit[o[q]] = c[n].exit[o[q]]
                      /\ c[n - m].destination[o[q]] = c[n].destination[o[q]]}
  <2>1. 0 \in T
    <3>1. n - 0 = n
        BY <1>1
    <3> QED
        BY <3>1
  <2>2. ASSUME NEW m \in Nat, m \in T PROVE m + 1 \in T
    <3> SUFFICES ASSUME m + 1 <= q - 1
                 PROVE  /\ c[n - (m + 1)].exit[o[q]] = c[n].exit[o[q]]
                        /\ c[n - (m + 1)].destination[o[q]] = c[n].destination[o[q]]
        OBVIOUS
    <3>1. /\ n - m \in 1 .. n /\ (n - m) - 1 = n - (m + 1) /\ m <= q - 1
          /\ n - (n - m) + 1 \in 1 .. n /\ n - (n - m) + 1 # q
        BY <1>1
    <3>2. /\ c[n - m].exit[o[q]] = c[n].exit[o[q]]
          /\ c[n - m].destination[o[q]] = c[n].destination[o[q]]
        BY <2>2, <3>1
    <3>3. o[n - (n - m) + 1] # o[q] /\ o[q] \in 1 .. n
        BY <1>5, <1>8, <3>1
    <3> DEFINE k == n - m
    <3> HIDE DEF T, k
    <3>4. /\ c[k].exit[o[q]] = c[k - 1].exit[o[q]]
          /\ c[k].destination[o[q]] = c[k - 1].destination[o[q]]
      <4>1. k \in 1 .. n /\ o[q] # o[n - k + 1] /\ o[q] \in 1 .. n
          BY <3>1, <3>3 DEF k
      <4> QED
          BY SMTT(60), <1>9, <4>1
    <3>5. k - 1 = n - (m + 1)
        BY <3>1 DEF k
    <3> QED
        BY <3>2, <3>4, <3>5 DEF k
  <2>3. Nat \subseteq T
    <3> HIDE DEF T
    <3> QED
        BY <2>1, <2>2, InductOn
  <2> QED
      BY <2>3
<1>12. ASSUME NEW q \in 1 .. n, NEW k \in 0 .. n, k >= n - q + 1
       PROVE  c[k].exit[o[q]] = c[n].exit[o[q]] /\ c[k].destination[o[q]] = c[n].destination[o[q]]
  <2> DEFINE m == n - k
  <2>1. m \in Nat /\ m <= q - 1 /\ n - m = k
      BY <1>1, <1>12
  <2> HIDE DEF m
  <2>2. /\ c[n - m].exit[o[q]] = c[n].exit[o[q]]
        /\ c[n - m].destination[o[q]] = c[n].destination[o[q]]
      BY <1>11, <2>1
  <2> QED
      BY <2>1, <2>2
<1>13. ASSUME NEW q \in 1 .. n, NEW r \in 1 .. n, parent[o[r]] = o[q]
       PROVE  q < r
  <2>1. o[q] # 0
      BY <1>8
  <2>2. PICK j \in 1 .. r - 1 : o[j] = parent[o[r]]
      BY <1>5, <1>13, <2>1
  <2>3. j \in 1 .. n
      BY <1>1, <2>2
  <2>4. j = q
      BY <1>5, <1>13, <2>2, <2>3
  <2> QED
      BY <1>1, <2>2, <2>4
<1>14. \A i \in 1 .. n : \E q \in 1 .. n : o[q] = i
    BY <1>7
<1>15. ASSUME NEW i \in 1 .. n PROVE Closed(order, initials, n, parent, o, shape, i)
  <2>1. PICK q \in 1 .. n : o[q] = i
      BY <1>14
  <2> DEFINE k == n - q + 1
             a == c[k - 1]
  <2>2. k \in 1 .. n /\ k \in 0 .. n /\ k - 1 \in 0 .. n /\ n - k + 1 = q /\ k >= n - q + 1
      BY <1>1
  <2> HIDE DEF k
  <2>3. Closes(order, parent, initials, enter, i, a, c[k])
      BY <1>6, <2>1, <2>2
  <2>4. c[k].exit[i] = c[n].exit[i] /\ c[k].destination[i] = c[n].destination[i]
      BY <1>12, <2>1, <2>2
  <2>5. ASSUME NEW j \in 1 .. n, parent[j] = i
        PROVE  a.exit[j] = c[n].exit[j] /\ a.destination[j] = c[n].destination[j]
    <3>1. PICK r \in 1 .. n : o[r] = j
        BY <1>14
    <3>2. q < r
        BY <1>13, <2>1, <2>5, <3>1
    <3>3. k - 1 >= n - r + 1
        BY <1>1, <2>2, <3>2
    <3> QED
        BY ZenonT(90), <1>12, <2>2, <3>1, <3>3
  <2>6. {a.exit[j] : j \in Offspring(parent, n, i)}
        = {shape.exit[j] : j \in Offspring(parent, n, i)}
    <3> HIDE DEF a
    <3> QED
        BY <1>4, <2>5 DEF Offspring
  <2>7. shape.exit[i] = ExitAfter(shape.enter[i], {shape.exit[j] : j \in Offspring(parent, n, i)})
      BY <1>4, <2>3, <2>4, <2>6 DEF Closes
  <2>8. a.destination[i] = i
    <3>1. k - 1 \in Nat /\ k - 1 <= n - q
        BY <1>1, <2>2
    <3> QED
        BY <1>10, <2>1, <3>1
  <2>9. order[i] \in DOMAIN initials =>
           LET t == IndexOf(order, initials[order[i]])
           IN  a.destination[t] = c[n].destination[t]
    <3> SUFFICES ASSUME order[i] \in DOMAIN initials
                 PROVE  LET t == IndexOf(order, initials[order[i]])
                        IN  a.destination[t] = c[n].destination[t]
        OBVIOUS
    <3>1. PICK j \in 1 .. n : order[j] = initials[order[i]] /\ parent[j] = i
        BY <1>1
    <3>2. IndexOf(order, initials[order[i]]) \in 1 .. n
          /\ order[IndexOf(order, initials[order[i]])] = order[j]
        BY <1>1, <3>1, IndexOfFacts
    <3>3. IndexOf(order, initials[order[i]]) = j
        BY <1>1, <3>2
    <3> HIDE DEF a
    <3> QED
        BY <2>5, <3>1, <3>3
  <2>10. shape.destination[i] = IF order[i] \notin DOMAIN initials THEN i
                                ELSE shape.destination[IndexOf(order, initials[order[i]])]
    <3> HIDE DEF a
    <3> QED
        BY <1>4, <2>3, <2>4, <2>8, <2>9 DEF Closes
  <2>11. shape.exit[i] \in 0 .. n
    <3>1. n \in 1 .. n
        BY <1>1
    <3>2. c[n] \in CloseValues(n)
      <4>1. /\ c[n] = CloseStep(order, parent, v, enter, initials, c[n - 1], n)
            /\ c[n - 1] \in CloseValues(n)
          BY <1>3, <3>1
      <4> QED
          BY <3>1, <4>1, CloseType DEF v, enter
    <3> QED
        BY <1>4, <3>2 DEF CloseValues
  <2> QED
      BY <1>4, <1>7, <2>7, <2>10, <2>11 DEF Closed
<1> QED
    BY <1>15

\* A hierarchy that can be compiled, with what compileShape makes of it.
Built(order, parents, initials, n, parent, o, shape) ==
    /\ Compilable(order, parents, initials)
    /\ n = Len(order)
    /\ parent = ParentNodes(order, parents)
    /\ o = Visited(parent).preorder
    /\ shape = CompileShape(order, parents, initials)

\* What of it the rest needs.
Standing(order, initials, n, parent, o, shape) ==
    /\ n \in Nat /\ DOMAIN order = 1 .. n /\ Forest(parent, n)
    /\ \A i, j \in 1 .. n : order[i] = order[j] => i = j
    /\ \A i \in 1 .. n : order[i] \in DOMAIN initials =>
          \E j \in 1 .. n : order[j] = initials[order[i]] /\ parent[j] = i
    /\ Hierarchy(shape) /\ Size(shape) = n /\ Nodes(shape) = 1 .. n
    /\ shape.parent = parent /\ shape.state = order
    /\ o = Visited(parent).preorder /\ Traversal(parent, n, o)
    /\ \A i \in 1 .. n : Closed(order, initials, n, parent, o, shape, i)

(* The compiled hierarchy (position.go, compileShape).                       *)
LEMMA BuiltFacts ==
    ASSUME NEW order, NEW parents, NEW initials, NEW n, NEW parent, NEW o, NEW shape,
           Built(order, parents, initials, n, parent, o, shape)
    PROVE  Standing(order, initials, n, parent, o, shape)
<1>1. /\ n \in Nat /\ DOMAIN order = 1 .. n /\ Forest(parent, n)
      /\ \A i, j \in 1 .. n : order[i] = order[j] => i = j
      /\ \A i \in 1 .. n : order[i] \in DOMAIN initials =>
            \E j \in 1 .. n : order[j] = initials[order[i]] /\ parent[j] = i
    BY DEF Built, Compilable
<1>2. shape = CompileShape(order, parents, initials) /\ Compilable(order, parents, initials)
    BY DEF Built
<1>3. Hierarchy(shape) /\ shape.state = order
    BY <1>2, CompiledFacts
<1>4. shape.parent = parent
  <2>1. CompileShape(order, parents, initials).parent = ParentNodes(order, parents)
      BY DEF CompileShape
  <2> QED
      BY <1>2, <2>1 DEF Built
<1>5. Traversal(parent, n, o)
    BY <1>1, ParentsFirst DEF Built
<1>6. \A i \in 1 .. n : Closed(order, initials, n, parent, o, shape, i)
    BY CloseFacts DEF Built
<1>7. Size(shape) = n /\ Nodes(shape) = 1 .. n /\ o = Visited(parent).preorder
    BY <1>3 DEF Size, Nodes, Built
<1> QED
    BY <1>1, <1>3, <1>4, <1>5, <1>6, <1>7 DEF Standing

Subtree(shape, n, i) == {b \in 1 .. n : i \in Aboves(shape, b)}

\* The place of a node in preorder.
Place(shape, i) == shape.enter[i] + 1

(* What is below a state in the hierarchy (position.go, compileShape).       *)
LEMMA SubtreeIsBelow ==
    ASSUME NEW order, NEW initials, NEW n, NEW parent, NEW o, NEW shape,
           Standing(order, initials, n, parent, o, shape), NEW i \in 1 .. n
    PROVE  Below(parent, n, i, Subtree(shape, n, i))
<1>1. /\ n \in Nat /\ parent \in [1 .. n -> 0 .. n] /\ Hierarchy(shape) /\ Nodes(shape) = 1 .. n
      /\ shape.parent = parent
    BY DEF Standing, Forest
<1>2. Aboves(shape, 0) = {} /\ i \in Aboves(shape, i)
    BY <1>1, AbovesFacts
<1>3. \A j \in 1 .. n : Aboves(shape, j) = {j} \cup Aboves(shape, parent[j])
    BY <1>1, AbovesFacts
<1>4. \A j \in 1 .. n : parent[j] \in Subtree(shape, n, i) => j \in Subtree(shape, n, i)
    BY <1>3 DEF Subtree
<1>5. ASSUME NEW j \in Subtree(shape, n, i), j # i PROVE parent[j] \in Subtree(shape, n, i)
  <2>1. j \in 1 .. n /\ i \in Aboves(shape, parent[j])
      BY <1>3, <1>5 DEF Subtree
  <2>2. parent[j] \in 0 .. n /\ parent[j] # 0
      BY <1>1, <1>2, <2>1
  <2>3. parent[j] \in 1 .. n
      BY <1>1, <2>2
  <2> QED
      BY <2>1, <2>3 DEF Subtree
<1> QED
    BY <1>2, <1>4, <1>5 DEF Below, Subtree

(* The block of a child lies behind the beginning of its parent's, and ends  *)
(* with it at the latest (position.go, compileShape).                        *)
LEMMA ChildBlock ==
    ASSUME NEW order, NEW initials, NEW n, NEW parent, NEW o, NEW shape,
           Standing(order, initials, n, parent, o, shape), NEW i \in 1 .. n
    PROVE  /\ Place(shape, i) \in 1 .. n /\ o[Place(shape, i)] = i
           /\ shape.exit[i] \in 0 .. n /\ Place(shape, i) <= shape.exit[i]
           /\ \/ shape.exit[i] = Place(shape, i)
              \/ \E j \in 1 .. n : parent[j] = i /\ shape.exit[i] = shape.exit[j]
           /\ \A j \in 1 .. n : parent[j] = i => /\ Place(shape, i) < Place(shape, j)
                                                 /\ shape.exit[j] <= shape.exit[i]
<1>1. /\ n \in Nat /\ Traversal(parent, n, o)
      /\ \A j \in 1 .. n : Closed(order, initials, n, parent, o, shape, j)
    BY DEF Standing
<1>2. \A j \in 1 .. n : /\ Place(shape, j) \in 1 .. n /\ o[Place(shape, j)] = j
                        /\ shape.exit[j] \in 0 .. n
    BY <1>1 DEF Closed, Place
<1> DEFINE ends == {shape.exit[j] : j \in Offspring(parent, n, i)}
           S == {Place(shape, i)} \cup ends
<1>3. shape.exit[i] = Max(S)
    BY <1>1 DEF Closed, ExitAfter, Place
<1>4. S \in SUBSET (0 .. n) /\ S # {}
    BY <1>1, <1>2 DEF Offspring
<1>5. shape.exit[i] \in S /\ \A y \in S : shape.exit[i] >= y
  <2> HIDE DEF S
  <2> QED
      BY <1>1, <1>3, <1>4, MaxFacts
<1>6. Place(shape, i) <= shape.exit[i]
    BY <1>1, <1>2, <1>5
<1>7. \/ shape.exit[i] = Place(shape, i)
      \/ \E j \in 1 .. n : parent[j] = i /\ shape.exit[i] = shape.exit[j]
    BY <1>5 DEF Offspring
<1>8. ASSUME NEW j \in 1 .. n, parent[j] = i
      PROVE  Place(shape, i) < Place(shape, j) /\ shape.exit[j] <= shape.exit[i]
  <2>1. shape.exit[j] \in S
      BY <1>8 DEF Offspring
  <2>2. shape.exit[i] >= shape.exit[j] /\ shape.exit[i] \in 0 .. n /\ shape.exit[j] \in 0 .. n
      BY <1>2, <1>5, <2>1
  <2>3. \E k \in 1 .. Place(shape, j) - 1 : o[k] = i
    <3> DEFINE q == Place(shape, j)
    <3>1. i # 0 /\ q \in 1 .. n /\ o[q] = j
        BY <1>2
    <3> HIDE DEF q
    <3>2. parent[o[q]] = 0 \/ \E k \in 1 .. q - 1 : o[k] = parent[o[q]]
        BY <1>1, <3>1 DEF Traversal
    <3>3. \E k \in 1 .. q - 1 : o[k] = i
        BY <1>8, <3>1, <3>2
    <3> QED
        BY <3>3 DEF q
  <2>4. PICK k \in 1 .. Place(shape, j) - 1 : o[k] = i
      BY <2>3
  <2>5. k \in 1 .. n
      BY <1>1, <1>2
  <2>6. k = Place(shape, i)
      BY <1>1, <1>2, <2>4, <2>5 DEF Traversal
  <2> QED
      BY <1>1, <1>2, <2>2, <2>4, <2>6
<1> QED
    BY <1>2, <1>6, <1>7, <1>8

(* The block of a state encloses those of the states below it (position.go,  *)
(* compileShape).                                                           *)
LEMMA BlocksNest ==
    ASSUME NEW order, NEW initials, NEW n, NEW parent, NEW o, NEW shape,
           Standing(order, initials, n, parent, o, shape), NEW b \in 1 .. n,
           NEW a \in Aboves(shape, b)
    PROVE  Place(shape, a) <= Place(shape, b) /\ shape.exit[b] <= shape.exit[a]
<1>1. /\ n \in Nat /\ parent \in [1 .. n -> 0 .. n] /\ Hierarchy(shape) /\ Nodes(shape) = 1 .. n
      /\ shape.parent = parent /\ Size(shape) = n
    BY DEF Standing, Forest
<1>2. b \in 0 .. Size(shape)
    BY <1>1
<1> DEFINE x(m) == Up(shape, b, m)
           T == {m \in Nat : x(m) # 0 => /\ Place(shape, x(m)) <= Place(shape, b)
                                         /\ shape.exit[b] <= shape.exit[x(m)]}
<1>3. x(0) = b /\ \A m \in Nat : x(m) \in 0 .. n /\ x(m + 1) = Above(shape, x(m))
    BY ZenonT(90), <1>1, <1>2, UpFacts
<1>4. \A i \in 1 .. n : /\ Place(shape, i) \in 1 .. n /\ shape.exit[i] \in 0 .. n
                        /\ \A j \in 1 .. n : parent[j] = i => /\ Place(shape, i) < Place(shape, j)
                                                              /\ shape.exit[j] <= shape.exit[i]
    BY ChildBlock
<1> HIDE DEF x
<1>5. 0 \in T
  <2>1. Place(shape, b) \in 1 .. n /\ shape.exit[b] \in 0 .. n
      BY <1>4
  <2>2. Place(shape, b) <= Place(shape, b) /\ shape.exit[b] <= shape.exit[b]
      BY <1>1, <2>1
  <2> QED
      BY <1>3, <2>2
<1>6. ASSUME NEW m \in Nat, m \in T PROVE m + 1 \in T
  <2> SUFFICES ASSUME x(m + 1) # 0
               PROVE  /\ Place(shape, x(m + 1)) <= Place(shape, b)
                      /\ shape.exit[b] <= shape.exit[x(m + 1)]
      OBVIOUS
  <2>1. x(m) # 0 /\ x(m + 1) = parent[x(m)] /\ x(m) \in 0 .. n /\ x(m + 1) \in 0 .. n
    <3>1. x(m + 1) \in 0 .. n
        BY <1>3
    <3> QED
        BY <1>1, <1>3, <3>1 DEF Above
  <2>2. x(m) \in 1 .. n /\ x(m + 1) \in 1 .. n
      BY <1>1, <2>1
  <2>3. Place(shape, x(m)) <= Place(shape, b) /\ shape.exit[b] <= shape.exit[x(m)]
      BY <1>6, <2>1
  <2>4. /\ Place(shape, x(m + 1)) < Place(shape, x(m))
        /\ shape.exit[x(m)] <= shape.exit[x(m + 1)]
      BY <1>4, <2>1, <2>2
  <2>5. /\ Place(shape, x(m + 1)) \in 1 .. n /\ Place(shape, x(m)) \in 1 .. n
        /\ Place(shape, b) \in 1 .. n /\ shape.exit[b] \in 0 .. n
        /\ shape.exit[x(m)] \in 0 .. n /\ shape.exit[x(m + 1)] \in 0 .. n
      BY <1>4, <2>2
  <2>6. \A p, q, r \in 0 .. n : /\ (p < q /\ q <= r) => p <= r
                                /\ (p <= q /\ q <= r) => p <= r
      BY <1>1
  <2>7. \A p \in 1 .. n : p \in 0 .. n
      BY <1>1
  <2> HIDE DEF T
  <2> QED
      BY <2>3, <2>4, <2>5, <2>6, <2>7
<1>7. Nat \subseteq T
  <2> HIDE DEF T
  <2> QED
      BY <1>5, <1>6, InductOn
<1>8. PICK m \in Nat : a = x(m) /\ a # 0
  <2>1. AtOrAbove(shape, a, b) /\ a # 0
      BY <1>1 DEF Aboves
  <2>2. Level(shape, b) \in Nat /\ Level(shape, a) \in Nat
      BY <1>2, <2>1, <1>1, UpLevels DEF AtOrAbove
  <2> QED
      BY <2>1, <2>2 DEF AtOrAbove, x
<1> QED
    BY <1>7, <1>8

(* The end of a block is the place of a state below (position.go,            *)
(* compileShape).                                                           *)
LEMMA BlockEnds ==
    ASSUME NEW order, NEW initials, NEW n, NEW parent, NEW o, NEW shape,
           Standing(order, initials, n, parent, o, shape), NEW i \in 1 .. n
    PROVE  \E b \in Subtree(shape, n, i) : shape.exit[i] = Place(shape, b)
<1>1. /\ n \in Nat /\ parent \in [1 .. n -> 0 .. n] /\ Hierarchy(shape) /\ Nodes(shape) = 1 .. n
      /\ shape.parent = parent /\ Size(shape) = n
    BY DEF Standing, Forest
<1> DEFINE Ends(j) == \E b \in Subtree(shape, n, j) : shape.exit[j] = Place(shape, b)
           T == {m \in Nat : \A j \in 1 .. n : n - Place(shape, j) < m => Ends(j)}
<1>2. \A j \in 1 .. n : Below(parent, n, j, Subtree(shape, n, j))
    BY SubtreeIsBelow
<1>3. ASSUME NEW j \in 1 .. n, NEW k \in 1 .. n, parent[k] = j
      PROVE  Subtree(shape, n, k) \subseteq Subtree(shape, n, j)
  <2>1. Aboves(shape, k) = {k} \cup Aboves(shape, j) /\ j \in Aboves(shape, j)
      BY <1>1, <1>3, AbovesFacts
  <2>2. ASSUME NEW b \in 1 .. n, k \in Aboves(shape, b) PROVE j \in Aboves(shape, b)
    <3>1. AtOrAbove(shape, k, b) /\ AtOrAbove(shape, j, k) /\ j \in Nodes(shape)
        BY <1>1, <2>1, <2>2 DEF Aboves
    <3>0. b \in 0 .. Size(shape)
        BY <1>1
    <3>2. AtOrAbove(shape, j, b)
        BY <1>1, <3>0, <3>1, AboveAbove
    <3> QED
        BY <3>1, <3>2 DEF Aboves
  <2> QED
      BY <2>2 DEF Subtree
<1>4. 0 \in T
  <2>1. \A j \in 1 .. n : Place(shape, j) \in 1 .. n
      BY ChildBlock
  <2>2. \A j \in 1 .. n : ~(n - Place(shape, j) < 0)
      BY <1>1, <2>1
  <2> QED
      BY <2>2
<1>5. ASSUME NEW m \in Nat, m \in T PROVE m + 1 \in T
  <2> SUFFICES ASSUME NEW j \in 1 .. n, n - Place(shape, j) < m + 1 PROVE Ends(j)
      OBVIOUS
  <2>1. \/ shape.exit[j] = Place(shape, j)
        \/ \E k \in 1 .. n : parent[k] = j /\ shape.exit[j] = shape.exit[k]
      BY ChildBlock
  <2>2. CASE shape.exit[j] = Place(shape, j)
    <3>1. j \in Subtree(shape, n, j)
        BY <1>2 DEF Below
    <3> QED
        BY <2>2, <3>1
  <2>3. CASE \E k \in 1 .. n : parent[k] = j /\ shape.exit[j] = shape.exit[k]
    <3>1. PICK k \in 1 .. n : parent[k] = j /\ shape.exit[j] = shape.exit[k]
        BY <2>3
    <3>2. /\ Place(shape, j) \in 1 .. n /\ Place(shape, k) \in 1 .. n
          /\ Place(shape, j) < Place(shape, k)
        BY <3>1, ChildBlock
    <3>3. n - Place(shape, k) < m
        BY <1>1, <3>2
    <3>4. Ends(k)
        BY <1>5, <3>3
    <3> QED
        BY <1>3, <3>1, <3>4
  <2> QED
      BY <2>1, <2>2, <2>3
<1>6. Nat \subseteq T
  <2> HIDE DEF T
  <2> QED
      BY <1>4, <1>5, InductOn
<1>7. Place(shape, i) \in 1 .. n
    BY ChildBlock
<1>8. n + 1 \in T /\ n - Place(shape, i) < n + 1
    BY <1>1, <1>6, <1>7
<1> QED
    BY <1>8

(* The test of Status: a block lies in another one exactly when its state is *)
(* below the other's (position.go, compileShape and Status).                 *)
LEMMA StatusFacts ==
    ASSUME NEW order, NEW initials, NEW n, NEW parent, NEW o, NEW shape,
           Standing(order, initials, n, parent, o, shape), NEW a \in 1 .. n, NEW i \in 1 .. n
    PROVE  Status(shape, a, i) = (CASE i = a -> "active"
                                    [] i # a /\ i \in Aboves(shape, a) -> "enclosing"
                                    [] OTHER -> "inactive")
<1> DEFINE D == Subtree(shape, n, i)
<1>1. /\ n \in Nat /\ Forest(parent, n) /\ o = Visited(parent).preorder
      /\ Traversal(parent, n, o)
    BY DEF Standing
<1>2. \A j \in 1 .. n : /\ Place(shape, j) \in 1 .. n /\ o[Place(shape, j)] = j
                        /\ shape.exit[j] \in 0 .. n /\ Place(shape, j) <= shape.exit[j]
    BY ChildBlock
<1>3. shape.enter[i] <= shape.enter[a] <=> Place(shape, i) <= Place(shape, a)
  <2>0. \A j \in 1 .. n : Closed(order, initials, n, parent, o, shape, j)
      BY DEF Standing
  <2>1. shape.enter[i] \in Nat /\ shape.enter[a] \in Nat
      BY <2>0 DEF Closed
  <2> QED
      BY <2>1 DEF Place
<1>4. i \in Aboves(shape, a) => /\ Place(shape, i) <= Place(shape, a)
                               /\ shape.exit[a] <= shape.exit[i]
    BY BlocksNest
<1>5. ASSUME Place(shape, i) <= Place(shape, a), shape.exit[a] <= shape.exit[i]
      PROVE  i \in Aboves(shape, a)
  <2>1. Below(parent, n, i, D)
      BY SubtreeIsBelow
  <2>2. PICK p, e \in 1 .. n : /\ o[p] = i /\ p <= e
                               /\ \A q \in 1 .. n : o[q] \in D <=> p <= q /\ q <= e
      BY <1>1, <2>1, BlocksAreVisited
  <2>3. PICK b \in D : shape.exit[i] = Place(shape, b)
      BY BlockEnds
  <2>4. b \in 1 .. n
      BY DEF Subtree
  <2>5. p = Place(shape, i)
    <3>1. \A j, k \in 1 .. n : o[j] = o[k] => j = k
        BY <1>1 DEF Traversal
    <3>2. Place(shape, i) \in 1 .. n /\ o[Place(shape, i)] = o[p]
        BY <1>2, <2>2
    <3> QED
        BY <3>1, <3>2
  <2>6. Place(shape, b) <= e
      BY <1>2, <2>2, <2>4
  <2> DEFINE q == Place(shape, a)
  <2>7. q \in 1 .. n /\ o[q] = a /\ q <= shape.exit[a] /\ shape.exit[a] \in 0 .. n
        /\ shape.exit[i] \in 0 .. n
      BY <1>2
  <2>8. p <= q /\ q <= e
      BY <1>1, <1>5, <2>3, <2>5, <2>6, <2>7
  <2> HIDE DEF q, D
  <2>9. o[q] \in D
      BY <2>2, <2>7, <2>8
  <2> QED
      BY <2>7, <2>9 DEF D, Subtree
<1>6. i \in Aboves(shape, a) <=>
         shape.enter[i] <= shape.enter[a] /\ shape.exit[a] <= shape.exit[i]
    BY <1>3, <1>4, <1>5
<1> QED
    BY <1>6 DEF Status

\* The chain of initial children from i ends at d.
ChainEnds(order, initials, n, shape, i, d) ==
    /\ d \in 1 .. n /\ order[d] \notin DOMAIN initials
    /\ i \in Aboves(shape, d)
    /\ \A j \in Aboves(shape, d) \ {d} :
          i \in Aboves(shape, j) => /\ order[j] \in DOMAIN initials
                                    /\ IndexOf(order, initials[order[j]]) \in Aboves(shape, d)

(* The chain from a state is the step to its initial child, and the chain    *)
(* from there (position.go, compileShape).                                   *)
LEMMA ChainGoesOn ==
    ASSUME NEW order, NEW initials, NEW n, NEW parent, NEW o, NEW shape,
           Standing(order, initials, n, parent, o, shape), NEW i \in 1 .. n, NEW t \in 1 .. n,
           order[i] \in DOMAIN initials, t = IndexOf(order, initials[order[i]]), parent[t] = i,
           NEW d, ChainEnds(order, initials, n, shape, t, d)
    PROVE  ChainEnds(order, initials, n, shape, i, d)
<1>1. /\ n \in Nat /\ Hierarchy(shape) /\ Nodes(shape) = 1 .. n /\ Size(shape) = n
      /\ shape.parent = parent
    BY DEF Standing
<1>2. /\ d \in 1 .. n /\ order[d] \notin DOMAIN initials
      /\ t \in Aboves(shape, d)
      /\ \A j \in Aboves(shape, d) \ {d} :
            t \in Aboves(shape, j) => /\ order[j] \in DOMAIN initials
                                      /\ IndexOf(order, initials[order[j]]) \in Aboves(shape, d)
    BY DEF ChainEnds
<1>3. Aboves(shape, t) = {t} \cup Aboves(shape, i) /\ i \in Aboves(shape, i)
    BY <1>1, AbovesFacts
<1>4. \A j : j \in Aboves(shape, d) => /\ j \in 1 .. n /\ j \in 0 .. Size(shape)
                                       /\ AtOrAbove(shape, j, d)
    BY <1>1 DEF Aboves
<1>5. d \in 0 .. Size(shape)
    BY <1>1, <1>2
<1>6. i \in Aboves(shape, d)
  <2>1. AtOrAbove(shape, t, d) /\ AtOrAbove(shape, i, t)
      BY <1>2, <1>3 DEF Aboves
  <2>2. AtOrAbove(shape, i, d)
      BY <1>1, <1>5, <2>1, AboveAbove
  <2> QED
      BY <1>1, <2>2 DEF Aboves
<1>7. ASSUME NEW j \in Aboves(shape, d) \ {d}, i \in Aboves(shape, j)
      PROVE  /\ order[j] \in DOMAIN initials
             /\ IndexOf(order, initials[order[j]]) \in Aboves(shape, d)
  <2>1. AtOrAbove(shape, t, j) \/ AtOrAbove(shape, j, t)
      BY <1>1, <1>2, <1>4, <1>5, AbovesAreAChain
  <2>2. CASE t \in Aboves(shape, j)
      BY <1>2, <2>2
  <2>3. CASE j \in Aboves(shape, t)
    <3>1. CASE j = t
      <4>1. t \in Aboves(shape, j)
          BY <1>1, <3>1, AbovesFacts
      <4> QED
          BY <1>2, <4>1
    <3>2. CASE j \in Aboves(shape, i)
      <4>1. j = i
        <5>1. AtOrAbove(shape, j, i) /\ AtOrAbove(shape, i, j) /\ i \in 0 .. Size(shape)
              /\ AtOrAbove(shape, i, i)
            BY <1>1, <1>3, <1>7, <3>2 DEF Aboves
        <5> QED
            BY <1>1, <5>1, AbovesAreAChain
      <4> QED
          BY <1>2, <4>1
    <3> QED
        BY <1>3, <2>3, <3>1, <3>2
  <2> QED
      BY <1>1, <1>4, <2>1, <2>2, <2>3 DEF Aboves
<1> QED
    BY <1>2, <1>6, <1>7 DEF ChainEnds

(* The destination is the end of the chain of initial children               *)
(* (position.go, compileShape).                                             *)
LEMMA DestinationFacts ==
    ASSUME NEW order, NEW initials, NEW n, NEW parent, NEW o, NEW shape,
           Standing(order, initials, n, parent, o, shape), NEW i \in 1 .. n
    PROVE  ChainEnds(order, initials, n, shape, i, shape.destination[i])
<1> DEFINE Good(j) == ChainEnds(order, initials, n, shape, j, shape.destination[j])
           T == {m \in Nat : \A j \in 1 .. n : n - Place(shape, j) < m => Good(j)}
<1>1. /\ n \in Nat /\ Hierarchy(shape) /\ Nodes(shape) = 1 .. n /\ Size(shape) = n
      /\ shape.parent = parent /\ DOMAIN order = 1 .. n
      /\ \A x, y \in 1 .. n : order[x] = order[y] => x = y
      /\ \A x \in 1 .. n : order[x] \in DOMAIN initials =>
            \E j \in 1 .. n : order[j] = initials[order[x]] /\ parent[j] = x
      /\ \A j \in 1 .. n : Closed(order, initials, n, parent, o, shape, j)
    BY DEF Standing
<1>2. \A j \in 1 .. n : Place(shape, j) \in 1 .. n
    BY ChildBlock
<1>3. 0 \in T
  <2>1. \A j \in 1 .. n : ~(n - Place(shape, j) < 0)
      BY <1>1, <1>2
  <2> QED
      BY <2>1
<1>4. ASSUME NEW m \in Nat, m \in T PROVE m + 1 \in T
  <2> SUFFICES ASSUME NEW j \in 1 .. n, n - Place(shape, j) < m + 1 PROVE Good(j)
      OBVIOUS
  <2> DEFINE t == IndexOf(order, initials[order[j]])
  <2>1. shape.destination[j] = IF order[j] \notin DOMAIN initials THEN j
                               ELSE shape.destination[t]
      BY <1>1 DEF Closed
  <2>2. CASE order[j] \notin DOMAIN initials
    <3>1. shape.destination[j] = j
        BY <2>1, <2>2
    <3>2. j \in Aboves(shape, j)
        BY <1>1, AbovesFacts
    <3>3. ASSUME NEW k \in Aboves(shape, j) \ {j} PROVE j \notin Aboves(shape, k)
      <4>1. SUFFICES ASSUME j \in Aboves(shape, k) PROVE FALSE
          OBVIOUS
      <4>2. /\ AtOrAbove(shape, k, j) /\ AtOrAbove(shape, j, k) /\ AtOrAbove(shape, j, j)
            /\ j \in 0 .. Size(shape)
          BY <1>1, <3>2, <4>1 DEF Aboves
      <4> QED
          BY <1>1, <3>3, <4>2, AbovesAreAChain
    <3> QED
        BY <2>2, <3>1, <3>2, <3>3 DEF ChainEnds
  <2>3. CASE order[j] \in DOMAIN initials
    <3>1. PICK k \in 1 .. n : order[k] = initials[order[j]] /\ parent[k] = j
        BY <1>1, <2>3
    <3>2. t = k
      <4>1. t \in 1 .. n /\ order[t] = order[k]
          BY <1>1, <3>1, IndexOfFacts
      <4> QED
          BY <1>1, <4>1
    <3>3. Place(shape, j) < Place(shape, k)
        BY <3>1, ChildBlock
    <3>4. n - Place(shape, k) < m
        BY <1>1, <1>2, <3>3
    <3>5. Good(k)
        BY <1>4, <3>4
    <3>6. shape.destination[j] = shape.destination[k]
        BY <2>1, <2>3, <3>2
    <3>7. ChainEnds(order, initials, n, shape, j, shape.destination[k])
        BY <2>3, <3>1, <3>2, <3>5, ChainGoesOn
    <3> QED
        BY <3>6, <3>7
  <2> QED
      BY <2>2, <2>3
<1>5. Nat \subseteq T
  <2> HIDE DEF T
  <2> QED
      BY <1>3, <1>4, InductOn
<1>6. n + 1 \in T /\ n - Place(shape, i) < n + 1
    BY <1>1, <1>2, <1>5
<1> QED
    BY <1>6

(* The nodes above a node are all sets have in common that contain it and    *)
(* the parents of their members (position.go, Path).                         *)
LEMMA AbovesAreClosure ==
    ASSUME NEW shape, Hierarchy(shape), NEW i \in Nodes(shape), NEW S,
           i \in S, \A j \in S : j \in Nodes(shape) /\ shape.parent[j] # 0 => shape.parent[j] \in S
    PROVE  Aboves(shape, i) \subseteq S
<1> DEFINE x(m) == Up(shape, i, m)
           T == {m \in Nat : x(m) # 0 => x(m) \in S}
<1>1. i \in 0 .. Size(shape) /\ Size(shape) \in Nat
    BY DEF Nodes, Hierarchy
<1>2. x(0) = i /\ \A m \in Nat : x(m) \in 0 .. Size(shape) /\ x(m + 1) = Above(shape, x(m))
    BY <1>1, UpFacts
<1> HIDE DEF x
<1>3. 0 \in T
    BY <1>2
<1>4. ASSUME NEW m \in Nat, m \in T PROVE m + 1 \in T
  <2> SUFFICES ASSUME x(m + 1) # 0 PROVE x(m + 1) \in S
      OBVIOUS
  <2>1. x(m) # 0 /\ x(m + 1) = shape.parent[x(m)] /\ x(m) \in 0 .. Size(shape)
      BY <1>2 DEF Above
  <2>2. x(m) \in S /\ x(m) \in Nodes(shape)
      BY <1>1, <1>4, <2>1 DEF Nodes
  <2> QED
      BY <2>1, <2>2
<1>5. Nat \subseteq T
  <2> HIDE DEF T
  <2> QED
      BY <1>3, <1>4, InductOn
<1>6. ASSUME NEW a \in Aboves(shape, i) PROVE a \in S
  <2>1. AtOrAbove(shape, a, i) /\ a # 0
      BY DEF Aboves, Nodes
  <2>2. Level(shape, i) \in Nat /\ Level(shape, a) \in Nat
      BY <1>1, <2>1, UpLevels DEF AtOrAbove
  <2>3. \E m \in Nat : a = x(m)
      BY <2>1, <2>2 DEF AtOrAbove, x
  <2> QED
      BY <1>5, <2>1, <2>3
<1> QED
    BY <1>6

-----------------------------------------------------------------------------
(* Lists.                                                                  *)

(* A finite function on the first numbers is a list of its values            *)
(* (definition.go, Compile).                                                *)
LEMMA ListAgain ==
    ASSUME NEW n \in Nat, NEW f, f = [k \in 1 .. n |-> f[k]]
    PROVE  IsList(f) /\ Len(f) = n /\ DOMAIN f = 1 .. n
<1>1. DOMAIN f = 1 .. n
    OBVIOUS
<1>2. \A k \in 1 .. n : f[k] \in ToSet(f)
    BY <1>1 DEF ToSet
<1> QED
    BY <1>1, <1>2 DEF IsList

(* A list is a function on its places (definition.go, Compile).              *)
LEMMA ListFacts ==
    ASSUME NEW s, IsList(s)
    PROVE  /\ Len(s) \in Nat /\ DOMAIN s = 1 .. Len(s) /\ s = [k \in 1 .. Len(s) |-> s[k]]
           /\ \A k \in 1 .. Len(s) : s[k] \in ToSet(s)
           /\ \A x \in ToSet(s) : \E k \in 1 .. Len(s) : s[k] = x
BY DEF IsList, ToSet

(* A list that grows by one stays a list (definition.go, Compile).           *)
LEMMA ListGrows ==
    ASSUME NEW s, IsList(s), NEW x
    PROVE  /\ IsList(Append(s, x))
           /\ Len(Append(s, x)) = Len(s) + 1
           /\ ToSet(Append(s, x)) = ToSet(s) \cup {x}
           /\ \A k \in 1 .. Len(s) : Append(s, x)[k] = s[k]
           /\ Append(s, x)[Len(s) + 1] = x
<1> DEFINE S == ToSet(s) \cup {x}
<1>1. s \in Seq(S) /\ x \in S
    BY DEF IsList
<1>2. /\ Append(s, x) \in Seq(S) /\ Len(Append(s, x)) = Len(s) + 1
      /\ ToSet(Append(s, x)) = ToSet(s) \cup {x}
    BY <1>1, OneMore
<1> QED
    BY <1>1, <1>2 DEF IsList

(* A list has as many elements as places when they differ, and fewer         *)
(* otherwise (definition.go, Compile; statemachine.go, Permitted).           *)
LEMMA CountList ==
    ASSUME NEW n \in Nat, NEW f, f = [k \in 1 .. n |-> f[k]],
           NEW A, A = {f[k] : k \in 1 .. n}
    PROVE  /\ IsFiniteSet(A) /\ Cardinality(A) \in Nat /\ Cardinality(A) <= n
           /\ Cardinality(A) = n <=> \A j, k \in 1 .. n : f[j] = f[k] => j = k
<1>1. f \in Surjection(1 .. n, A)
  <2>1. f \in [1 .. n -> A] /\ \A x \in A : \E k \in 1 .. n : f[k] = x
      OBVIOUS
  <2> QED
      BY <2>1 DEF Surjection
<1>2. IsFiniteSet(1 .. n) /\ Cardinality(1 .. n) = n
    BY FS_Interval
<1>3. /\ IsFiniteSet(A) /\ Cardinality(A) <= n
      /\ Cardinality(A) = n <=> f \in Injection(1 .. n, A)
    BY <1>1, <1>2, FS_Surjection
<1>4. f \in Injection(1 .. n, A) <=> \A j, k \in 1 .. n : f[j] = f[k] => j = k
    BY <1>1 DEF Injection, IsInjective, Surjection
<1>5. Cardinality(A) \in Nat
    BY <1>3, FS_CardinalityType
<1> QED
    BY <1>3, <1>4, <1>5

\* The lists up to each of some lists, one after the other.
Joined(S, ss, f) ==
    /\ f \in [0 .. Len(ss) -> Seq(S)]
    /\ f[0] = << >> /\ f[Len(ss)] = FlattenSeq(ss)
    /\ \A i \in 1 .. Len(ss) : f[i] = f[i - 1] \o ss[i]
    /\ \A i \in 0 .. Len(ss) : \A x : x \in ToSet(f[i]) <=> \E k \in 1 .. i : x \in ToSet(ss[k])

(* The nested loops that join lists, with what they have joined so far       *)
(* (statechart.go, selectTransition and Permitted; statemachine.go,         *)
(* Permitted).                                                             *)
LEMMA FlattenJoins ==
    ASSUME NEW S, NEW ss \in Seq(Seq(S))
    PROVE  \E f : Joined(S, ss, f)
<1> DEFINE L == Len(ss)
<1>1. L \in Nat /\ \A i \in 1 .. L : ss[i] \in Seq(S)
    OBVIOUS
<1>2. \E f : /\ f \in [0 .. L -> Seq(S)]
             /\ f[0] = << >> /\ f[L] = FlattenSeq(ss)
             /\ \A i \in 1 .. L : f[i] = f[i - 1] \o ss[i]
  <2>1. CASE ss = << >>
    <3> DEFINE f == [i \in 0 .. 0 |-> << >>]
    <3>1. L = 0 /\ FlattenSeq(ss) = << >>
        BY <2>1 DEF FlattenSeq
    <3>2. f \in [0 .. 0 -> Seq(S)] /\ f[0] = << >>
        OBVIOUS
    <3>3. \A i \in 1 .. 0 : FALSE
        OBVIOUS
    <3> HIDE DEF f, L
    <3> QED
        BY <3>1, <3>2, <3>3
  <2>2. CASE ss # << >>
    <3>1. PICK g \in [1 .. L -> Seq(S)] :
              /\ g[1] = ss[1]
              /\ \A i \in 2 .. L : g[i] = g[i - 1] \o ss[i]
              /\ FlattenSeq(ss) = g[L]
        BY <2>2, FlattenSteps
    <3>2. L # 0
        BY <2>2
    <3> HIDE DEF L
    <3> DEFINE f == [i \in 0 .. L |-> IF i = 0 THEN << >> ELSE g[i]]
    <3>3. f[0] = << >> /\ \A i \in 1 .. L : f[i] = g[i]
        BY <1>1
    <3>4. f \in [0 .. L -> Seq(S)]
      <4>1. \A i \in 0 .. L : i = 0 \/ i \in 1 .. L
          BY <1>1
      <4>2. << >> \in Seq(S)
          BY EmptySeq
      <4> QED
          BY <4>1, <4>2
    <3> HIDE DEF f
    <3>5. ASSUME NEW i \in 1 .. L PROVE f[i] = f[i - 1] \o ss[i]
      <4>1. CASE i = 1
        <5>1. f[1] = ss[1] /\ f[0] = << >> /\ ss[1] \in Seq(S) /\ i - 1 = 0
            BY <1>1, <3>1, <3>3, <4>1
        <5>2. << >> \o ss[1] = ss[1]
            BY <5>1, ConcatEmptySeq
        <5> QED
            BY <4>1, <5>1, <5>2
      <4>2. CASE i # 1
        <5>1. i \in 2 .. L /\ i - 1 \in 1 .. L
            BY <1>1, <4>2
        <5> QED
            BY <3>1, <3>3, <5>1
      <4> QED
          BY <4>1, <4>2
    <3>6. f[L] = FlattenSeq(ss)
        BY <1>1, <3>1, <3>2, <3>3
    <3> QED
        BY <3>3, <3>4, <3>5, <3>6
  <2> QED
      BY <2>1, <2>2
<1>3. PICK f : /\ f \in [0 .. L -> Seq(S)]
               /\ f[0] = << >> /\ f[L] = FlattenSeq(ss)
               /\ \A i \in 1 .. L : f[i] = f[i - 1] \o ss[i]
    BY <1>2
<1> HIDE DEF L
<1>4. \A i \in 0 .. L : \A x : x \in ToSet(f[i]) <=> \E k \in 1 .. i : x \in ToSet(ss[k])
  <2> DEFINE Holds(i) == \A x : x \in ToSet(f[i]) <=> \E k \in 1 .. i : x \in ToSet(ss[k])
             T == {i \in Nat : i <= L => Holds(i)}
  <2>1. 0 \in T
    <3>1. \A x : x \notin ToSet(<< >>)
        BY DEF ToSet
    <3>2. \A k \in 1 .. 0 : FALSE
        OBVIOUS
    <3>3. Holds(0)
        BY <1>3, <3>1, <3>2
    <3> QED
        BY <3>3
  <2>2. ASSUME NEW i \in Nat, i \in T PROVE i + 1 \in T
    <3> SUFFICES ASSUME i + 1 <= L PROVE Holds(i + 1)
        OBVIOUS
    <3> DEFINE j == i + 1
    <3>1. /\ j \in 1 .. L /\ j - 1 = i /\ i \in 0 .. L
          /\ \A k : k \in 1 .. j <=> k \in 1 .. i \/ k = j
        BY <1>1
    <3>2. Holds(i)
        BY <1>1, <2>2
    <3>3. f[j] = f[i] \o ss[j] /\ f[i] \in Seq(S) /\ ss[j] \in Seq(S)
      <4> HIDE DEF j
      <4> QED
          BY <1>1, <1>3, <3>1
    <3>4. \A x : x \in ToSet(f[j]) <=> x \in ToSet(f[i]) \/ x \in ToSet(ss[j])
        BY <3>3, ConcatRange
    <3> HIDE DEF j
    <3>5. Holds(j)
        BY <3>1, <3>2, <3>4
    <3> QED
        BY <3>5 DEF j
  <2>3. Nat \subseteq T
    <3> HIDE DEF T
    <3> QED
        BY <2>1, <2>2, InductOn
  <2>4. ASSUME NEW i \in 0 .. L PROVE Holds(i)
    <3>1. i \in Nat /\ i <= L
        BY <1>1
    <3> HIDE DEF Holds
    <3> QED
        BY <2>3, <3>1
  <2> QED
      BY <2>4
<1> QED
    BY <1>3, <1>4 DEF Joined, L

(* Lists that share nothing, and repeat nothing, repeat nothing when joined  *)
(* (statechart.go, Permitted; position.go, Arrows).                          *)
LEMMA FlattenDistinct ==
    ASSUME NEW S, NEW ss \in Seq(Seq(S)),
           \A i \in 1 .. Len(ss) : Distinct(ss[i]),
           \A i, j \in 1 .. Len(ss) : i # j => ToSet(ss[i]) \cap ToSet(ss[j]) = {}
    PROVE  Distinct(FlattenSeq(ss))
<1> DEFINE L == Len(ss)
<1>1. L \in Nat /\ \A i \in 1 .. L : ss[i] \in Seq(S)
    OBVIOUS
<1>2. PICK f : Joined(S, ss, f)
    BY FlattenJoins
<1> HIDE DEF L
<1> DEFINE T == {i \in Nat : i <= L => Distinct(f[i])}
<1>3. 0 \in T
    BY <1>2 DEF Joined, Distinct
<1>4. ASSUME NEW i \in Nat, i \in T PROVE i + 1 \in T
  <2> SUFFICES ASSUME i + 1 <= L PROVE Distinct(f[i + 1])
      OBVIOUS
  <2> DEFINE j == i + 1
  <2>1. j \in 1 .. L /\ j - 1 = i /\ i \in 0 .. L /\ i <= L
      BY <1>1
  <2>2. \A k \in 1 .. i : k \in 1 .. L /\ k # j
      BY <1>1
  <2> HIDE DEF j
  <2>3. f[j] = f[i] \o ss[j] /\ f[i] \in Seq(S) /\ ss[j] \in Seq(S)
        /\ \A x : x \in ToSet(f[i]) <=> \E k \in 1 .. i : x \in ToSet(ss[k])
      BY <1>1, <1>2, <2>1 DEF Joined, L
  <2>4. ToSet(f[i]) \cap ToSet(ss[j]) = {}
      BY <2>1, <2>2, <2>3 DEF L
  <2>5. Distinct(f[i]) /\ Distinct(ss[j])
      BY <1>4, <2>1 DEF L
  <2>6. Distinct(f[i] \o ss[j])
      BY <2>3, <2>4, <2>5, Pushed
  <2> QED
      BY <2>3, <2>6 DEF j
<1>5. Nat \subseteq T
  <2> HIDE DEF T
  <2> QED
      BY <1>3, <1>4, InductOn
<1>6. f[L] = FlattenSeq(ss)
    BY <1>2 DEF Joined, L
<1> QED
    BY <1>1, <1>5, <1>6

\* List q begins with list p.
BeginsWith(S, q, p) == \E r \in Seq(S) : q = p \o r

(* What is before and behind one of some joined lists (statechart.go,        *)
(* selectTransition).                                                      *)
LEMMA FlattenParts ==
    ASSUME NEW S, NEW ss \in Seq(Seq(S)), NEW i \in 1 .. Len(ss)
    PROVE  \E p \in Seq(S), r \in Seq(S) :
              /\ FlattenSeq(ss) = (p \o ss[i]) \o r
              /\ \A x : x \in ToSet(p) <=> \E k \in 1 .. i - 1 : x \in ToSet(ss[k])
<1> DEFINE L == Len(ss)
<1>0. \A p, q, r \in Seq(S) : (p \o q) \o r = p \o (q \o r)
    BY SMTT(60), ConcatAssociative
<1>1. L \in Nat /\ \A k \in 1 .. L : ss[k] \in Seq(S)
    OBVIOUS
<1>2. PICK f : Joined(S, ss, f)
    BY FlattenJoins
<1> HIDE DEF L
<1>3. i \in 1 .. L /\ i - 1 \in 0 .. L
    BY <1>1 DEF L
<1>4. /\ f[i - 1] \in Seq(S) /\ ss[i] \in Seq(S) /\ f[i] = f[i - 1] \o ss[i]
      /\ \A x : x \in ToSet(f[i - 1]) <=> \E k \in 1 .. i - 1 : x \in ToSet(ss[k])
    BY <1>1, <1>2, <1>3 DEF Joined, L
<1> DEFINE T == {n \in Nat : i + n <= L => BeginsWith(S, f[i + n], f[i])}
<1>5. f[i] \in Seq(S)
  <2>1. i \in 0 .. L
      BY <1>1, <1>3
  <2> QED
      BY <1>2, <2>1 DEF Joined, L
<1>6. 0 \in T
  <2>1. f[i] = f[i] \o << >> /\ << >> \in Seq(S) /\ i + 0 = i
      BY <1>3, <1>5, ConcatEmptySeq, EmptySeq
  <2> QED
      BY <2>1 DEF BeginsWith
<1>7. ASSUME NEW n \in Nat, n \in T PROVE n + 1 \in T
  <2> SUFFICES ASSUME i + (n + 1) <= L PROVE BeginsWith(S, f[i + (n + 1)], f[i])
      OBVIOUS
  <2> DEFINE j == i + (n + 1)
             m == i + n
  <2>1. j \in 1 .. L /\ j - 1 = m /\ m <= L
      BY <1>1, <1>3
  <2>2. PICK r \in Seq(S) : f[m] = f[i] \o r
      BY <1>7, <2>1 DEF BeginsWith
  <2> HIDE DEF j, m
  <2>3. f[j] = f[m] \o ss[j] /\ ss[j] \in Seq(S)
      BY <1>1, <1>2, <2>1 DEF Joined, L
  <2>4. (f[i] \o r) \o ss[j] = f[i] \o (r \o ss[j])
    <3> DEFINE u == f[i]
               v == ss[j]
    <3>1. u \in Seq(S) /\ v \in Seq(S)
        BY <1>5, <2>3
    <3> HIDE DEF u, v
    <3>2. (u \o r) \o v = u \o (r \o v)
        BY <1>0, <3>1
    <3> QED
        BY <3>2 DEF u, v
  <2>5. r \o ss[j] \in Seq(S)
      BY <2>3, ConcatProperties
  <2> QED
      BY <2>2, <2>3, <2>4, <2>5 DEF j, BeginsWith
<1>8. Nat \subseteq T
  <2> HIDE DEF T
  <2> QED
      BY <1>6, <1>7, InductOn
<1>9. PICK r \in Seq(S) : f[L] = f[i] \o r
  <2>1. L - i \in Nat /\ i + (L - i) = L /\ i + (L - i) <= L
      BY <1>1, <1>3
  <2>2. BeginsWith(S, f[L], f[i])
      BY <1>8, <2>1
  <2> QED
      BY <2>2 DEF BeginsWith
<1>10. f[L] = FlattenSeq(ss)
    BY <1>2 DEF Joined, L
<1> QED
    BY <1>4, <1>9, <1>10

\* The elements of the list are related to those that follow.
Ordered(R, p) == \A i, j \in 1 .. Len(p) : i < j => << p[i], p[j] >> \in R

(* Lists that are ordered, each before the next, are ordered when joined     *)
(* (statechart.go, selectTransition; position.go, Arrows).                   *)
LEMMA FlattenOrdered ==
    ASSUME NEW S, NEW R, NEW ss \in Seq(Seq(S)),
           \A i \in 1 .. Len(ss) : Ordered(R, ss[i]),
           \A i, j \in 1 .. Len(ss) :
              i < j => \A x \in ToSet(ss[i]), y \in ToSet(ss[j]) : << x, y >> \in R
    PROVE  Ordered(R, FlattenSeq(ss))
<1> DEFINE L == Len(ss)
<1>1. L \in Nat /\ \A i \in 1 .. L : ss[i] \in Seq(S)
    OBVIOUS
<1>2. PICK f : Joined(S, ss, f)
    BY FlattenJoins
<1> HIDE DEF L
<1> DEFINE T == {i \in Nat : i <= L => Ordered(R, f[i])}
<1>3. 0 \in T
    BY <1>2 DEF Joined, Ordered
<1>4. ASSUME NEW i \in Nat, i \in T PROVE i + 1 \in T
  <2> SUFFICES ASSUME i + 1 <= L PROVE Ordered(R, f[i + 1])
      OBVIOUS
  <2> DEFINE j == i + 1
  <2>1. j \in 1 .. L /\ j - 1 = i /\ i \in 0 .. L /\ i <= L
      BY <1>1
  <2>2. \A k \in 1 .. i : k \in 1 .. L /\ k < j
      BY <1>1
  <2> HIDE DEF j
  <2>3. f[j] = f[i] \o ss[j] /\ f[i] \in Seq(S) /\ ss[j] \in Seq(S)
        /\ \A x : x \in ToSet(f[i]) <=> \E k \in 1 .. i : x \in ToSet(ss[k])
      BY <1>1, <1>2, <2>1 DEF Joined, L
  <2>4. \A x \in ToSet(f[i]), y \in ToSet(ss[j]) : << x, y >> \in R
      BY <2>1, <2>2, <2>3 DEF L
  <2>5. Ordered(R, f[i]) /\ Ordered(R, ss[j])
      BY <1>4, <2>1 DEF L
  <2> DEFINE p == f[i]
             q == ss[j]
             r == f[j]
  <2>6. /\ p \in Seq(S) /\ q \in Seq(S) /\ Len(p) \in Nat /\ Len(q) \in Nat
        /\ Len(r) = Len(p) + Len(q)
        /\ \A k \in 1 .. Len(p) : r[k] = p[k] /\ p[k] \in ToSet(p)
        /\ \A k \in 1 .. Len(q) : r[Len(p) + k] = q[k] /\ q[k] \in ToSet(q)
    <3>1. p \in Seq(S) /\ q \in Seq(S) /\ r = p \o q
        BY <2>3
    <3> HIDE DEF p, q, r
    <3>2. \A k \in 1 .. Len(p) : r[k] = p[k]
        BY <3>1, ConcatProperties
    <3>3. \A k \in 1 .. Len(q) : r[Len(p) + k] = q[k]
      <4> TAKE k \in 1 .. Len(q)
      <4>1. /\ Len(p) \in Nat /\ Len(q) \in Nat
            /\ Len(p) + k \in Len(p) + 1 .. Len(p) + Len(q) /\ (Len(p) + k) - Len(p) = k
          BY <3>1
      <4> QED
          BY <3>1, <4>1, ConcatProperties
    <3>4. Len(r) = Len(p) + Len(q)
        BY <3>1, ConcatProperties
    <3>5. /\ \A k \in 1 .. Len(p) : p[k] \in ToSet(p)
          /\ \A k \in 1 .. Len(q) : q[k] \in ToSet(q)
        BY SMTT(60), <3>1 DEF ToSet
    <3>6. Len(p) \in Nat /\ Len(q) \in Nat
        BY <3>1
    <3> QED
        BY <3>1, <3>2, <3>3, <3>4, <3>5, <3>6
  <2> HIDE DEF p, q, r
  <2>7. \A k \in 1 .. Len(r) : k \in 1 .. Len(p)
                             \/ (k - Len(p) \in 1 .. Len(q) /\ Len(p) + (k - Len(p)) = k)
      BY <2>6
  <2>8. ASSUME NEW a \in 1 .. Len(r), NEW b \in 1 .. Len(r), a < b
        PROVE  << r[a], r[b] >> \in R
    <3>1. CASE b \in 1 .. Len(p)
      <4>1. a \in 1 .. Len(p)
          BY <2>6, <2>8, <3>1
      <4> QED
          BY <2>5, <2>6, <2>8, <3>1, <4>1 DEF Ordered, p
    <3>2. CASE a \in 1 .. Len(p) /\ b - Len(p) \in 1 .. Len(q) /\ Len(p) + (b - Len(p)) = b
      <4> DEFINE d == b - Len(p)
      <4>1. d \in 1 .. Len(q) /\ Len(p) + d = b
          BY <3>2
      <4> HIDE DEF d
      <4>2. r[b] = q[d] /\ q[d] \in ToSet(q) /\ r[a] = p[a] /\ p[a] \in ToSet(p)
          BY <2>6, <3>2, <4>1
      <4> QED
          BY <2>4, <4>2 DEF p, q
    <3>3. CASE /\ a - Len(p) \in 1 .. Len(q) /\ Len(p) + (a - Len(p)) = a
               /\ b - Len(p) \in 1 .. Len(q) /\ Len(p) + (b - Len(p)) = b
      <4> DEFINE c == a - Len(p)
                 d == b - Len(p)
      <4>1. /\ d \in 1 .. Len(q) /\ Len(p) + d = b /\ c \in 1 .. Len(q) /\ Len(p) + c = a
            /\ c < d
          BY <2>6, <2>8, <3>3
      <4> HIDE DEF c, d
      <4>2. r[b] = q[d] /\ r[a] = q[c]
          BY <2>6, <4>1
      <4>3. << q[c], q[d] >> \in R
          BY <2>5, <4>1 DEF Ordered, q
      <4> QED
          BY <4>2, <4>3
    <3> QED
        BY <2>6, <2>7, <2>8, <3>1, <3>2, <3>3
  <2> QED
      BY <2>8 DEF Ordered, r, j
<1>5. Nat \subseteq T
  <2> HIDE DEF T
  <2> QED
      BY <1>3, <1>4, InductOn
<1>6. f[L] = FlattenSeq(ss)
    BY <1>2 DEF Joined, L
<1> QED
    BY <1>1, <1>5, <1>6

\* What is chosen for an event, if it is.
ChosenPair(C, to, e) == IF e \in C THEN << << e, to[e] >> >> ELSE << >>

(* Permitted lists the events that are chosen, each once with where it leads *)
(* (statemachine.go and statechart.go, Permitted).                           *)
LEMMA ChosenAreListed ==
    ASSUME NEW E, NEW events \in Seq(E), Distinct(events),
           NEW C, C \subseteq ToSet(events), NEW to, to = [e \in C |-> to[e]],
           NEW choices, choices = [j \in DOMAIN events |-> ChosenPair(C, to, events[j])],
           NEW out, out = FlattenSeq(choices)
    PROVE  /\ Len(out) \in Nat /\ DOMAIN out = 1 .. Len(out)
           /\ Len(out) = Cardinality(C)
           /\ ToSet(out) = {<< e, to[e] >> : e \in C}
<1> DEFINE n == Len(events)
           S == {<< e, to[e] >> : e \in C}
<1>1. n \in Nat /\ DOMAIN events = 1 .. n /\ \A e \in C : \E j \in 1 .. n : events[j] = e
    BY SMTT(60) DEF ToSet
<1> HIDE DEF n
<1>2. ASSUME NEW j \in 1 .. n
      PROVE  /\ choices[j] \in Seq(S)
             /\ Distinct(choices[j])
             /\ \A x : x \in ToSet(choices[j]) <=> events[j] \in C /\ x = << events[j], to[events[j]] >>
  <2> DEFINE x == << events[j], to[events[j]] >>
  <2>1. choices[j] = IF events[j] \in C THEN << x >> ELSE << >>
      BY <1>1 DEF ChosenPair
  <2>2. events[j] \in C => x \in S
      OBVIOUS
  <2>3. \A y : ToSet(<< y >>) = {y} /\ Distinct(<< y >>)
      BY DEF ToSet, Distinct
  <2>4. ToSet(<< >>) = {} /\ Distinct(<< >>) /\ << >> \in Seq(S)
      BY DEF ToSet, Distinct
  <2>5. \A y \in S : << y >> \in Seq(S)
    <3> HIDE DEF S
    <3> QED
        OBVIOUS
  <2> HIDE DEF x, S
  <2>6. CASE events[j] \in C
      BY ZenonT(90), <2>1, <2>2, <2>3, <2>5, <2>6 DEF x
  <2>7. CASE events[j] \notin C
      BY <2>1, <2>4, <2>7
  <2> QED
      BY <2>6, <2>7
<1>3. choices \in Seq(Seq(S)) /\ Len(choices) = n
  <2> DEFINE Q == Seq(S)
  <2>1. choices = [j \in 1 .. n |-> choices[j]]
      BY <1>1
  <2> HIDE DEF Q, S
  <2>2. choices \in [1 .. n -> Q]
      BY <1>2, <2>1 DEF Q
  <2>3. choices \in Seq(Q) /\ Len(choices) = n
      BY <1>1, <2>2, ListOf
  <2> QED
      BY <2>3 DEF Q
<1>4. ASSUME NEW i \in 1 .. n, NEW j \in 1 .. n, i # j
      PROVE  ToSet(choices[i]) \cap ToSet(choices[j]) = {}
  <2>1. events[i] # events[j]
      BY <1>1, <1>4 DEF Distinct, n
  <2>2. ASSUME NEW x, x \in ToSet(choices[i]), x \in ToSet(choices[j]) PROVE FALSE
    <3>1. x = << events[i], to[events[i]] >> /\ x = << events[j], to[events[j]] >>
        BY <1>2, <2>2
    <3> QED
        BY <2>1, <3>1
  <2> QED
      BY <2>2
<1> HIDE DEF S
<1>5. out \in Seq(S) /\ Distinct(out)
      /\ \A x : x \in ToSet(out) <=> \E j \in 1 .. n : x \in ToSet(choices[j])
  <2>1. /\ \A i \in 1 .. Len(choices) : Distinct(choices[i])
        /\ \A i, j \in 1 .. Len(choices) : i # j => ToSet(choices[i]) \cap ToSet(choices[j]) = {}
      BY <1>2, <1>3, <1>4
  <2>2. Distinct(FlattenSeq(choices))
      BY <1>3, <2>1, FlattenDistinct
  <2> QED
      BY <1>3, <2>2, FlattenFacts
<1>6. ToSet(out) = S
  <2>1. ASSUME NEW x \in ToSet(out) PROVE x \in S
    <3>1. PICK j \in 1 .. n : x \in ToSet(choices[j])
        BY <1>5
    <3> QED
        BY <1>2, <3>1 DEF S
  <2>2. ASSUME NEW x \in S PROVE x \in ToSet(out)
    <3>1. PICK e \in C : x = << e, to[e] >>
        BY DEF S
    <3>2. PICK j \in 1 .. n : events[j] = e
        BY <1>1
    <3> QED
        BY <1>2, <1>5, <3>1, <3>2
  <2> QED
      BY <2>1, <2>2
<1> DEFINE m == Len(out)
<1>7. m \in Nat /\ DOMAIN out = 1 .. m /\ m = Len(out)
    BY <1>5
<1> HIDE DEF m
<1> DEFINE h == [j \in 1 .. m |-> out[j][1]]
<1>8. \A j \in 1 .. m : h[j] \in C /\ out[j] = << h[j], to[h[j]] >>
  <2> TAKE j \in 1 .. m
  <2>1. out[j] \in S
      BY <1>5, <1>6, <1>7 DEF ToSet
  <2>2. PICK e \in C : out[j] = << e, to[e] >>
      BY <2>1 DEF S
  <2> QED
      BY <2>2
<1>9. h = [j \in 1 .. m |-> h[j]]
    OBVIOUS
<1> HIDE DEF h
<1>10. C = {h[j] : j \in 1 .. m}
  <2>1. ASSUME NEW e \in C PROVE \E j \in 1 .. m : h[j] = e
    <3>1. << e, to[e] >> \in ToSet(out)
        BY <1>6 DEF S
    <3>2. PICK j \in 1 .. m : out[j] = << e, to[e] >>
        BY <1>7, <3>1 DEF ToSet
    <3>3. << h[j], to[h[j]] >> = << e, to[e] >>
        BY <1>8, <3>2
    <3> QED
        BY <3>3
  <2> QED
      BY <1>8, <2>1
<1>11. ASSUME NEW i \in 1 .. m, NEW j \in 1 .. m, h[i] = h[j] PROVE i = j
  <2>1. out[i] = out[j]
      BY <1>8, <1>11
  <2> QED
      BY <1>5, <1>7, <2>1 DEF Distinct
<1>12. Cardinality(C) = m
  <2>1. h \in [1 .. m -> C]
      BY <1>8, <1>9
  <2>2. h \in Bijection(1 .. m, C)
      BY <1>10, <1>11, <2>1 DEF Bijection, Injection, IsInjective, Surjection
  <2>3. IsFiniteSet(1 .. m) /\ Cardinality(1 .. m) = m
      BY <1>7, FS_Interval
  <2> QED
      BY <2>2, <2>3, FS_Bijection DEF ExistsBijection
<1> QED
    BY <1>6, <1>7, <1>12 DEF S

-----------------------------------------------------------------------------
(* What selectTransition finds (statechart/statechart.go).                   *)

\* The first row is looked at before the second: its state is below, or it is the
\* same and declared earlier.
LooksFirst(ch, x, y) ==
    \/ y.handler \in Aboves(ch.shape, x.handler) \ {x.handler}
    \/ x.handler = y.handler /\ x.row < y.row

Sooner(ch, Q) == {p \in Q \X Q : LooksFirst(ch, p[1], p[2])}

\* The rows that selectTransition looks through are those of the active states, from
\* the nearest state on and in declaration order.
Looked(ch, source, event, q) ==
    /\ q \in Seq(CandidateRows(ch, source, event))
    /\ Len(q) \in Nat /\ DOMAIN q = 1 .. Len(q)
    /\ \A j \in 1 .. Len(q) : q[j] \in CandidateRows(ch, source, event)
    /\ \A x \in CandidateRows(ch, source, event) : \E j \in 1 .. Len(q) : q[j] = x
    /\ \A j, k \in 1 .. Len(q) : j < k => LooksFirst(ch, q[j], q[k])

(* All rows for the event are looked at, and in which order (statechart.go,  *)
(* selectTransition).                                                       *)
LEMMA CandidatesAreOrdered ==
    ASSUME NEW ch, ChartSound(ch), NEW source \in Nodes(ch.shape), NEW event
    PROVE  Looked(ch, source, event, Candidates(ch, source, event))
<1> DEFINE S == CandidateRows(ch, source, event)
           R == Sooner(ch, S)
           h == HandlersOf(ch.shape, source)
           n == Len(h)
           q == Candidates(ch, source, event)
           rows(i) == RowsAt(ch, ch.shape.state[i], event)
           at(i) == [j \in DOMAIN rows(i) |-> [handler |-> i, row |-> rows(i)[j]]]
           ss == [j \in DOMAIN h |-> at(h[j])]
<1>1. Hierarchy(ch.shape)
    BY DEF ChartSound
<1>2. /\ h \in Seq(Nodes(ch.shape))
      /\ \A j \in 1 .. n : AtOrAbove(ch.shape, h[j], source)
      /\ \A a \in Nodes(ch.shape) : AtOrAbove(ch.shape, a, source) => a \in ToSet(h)
    BY <1>1, HandlersFacts
<1>3. \A j, k \in 1 .. n : j < k => h[k] \in Aboves(ch.shape, h[j]) \ {h[j]}
    BY <1>1, PathCovers DEF HandlersOf
<1> HIDE DEF h
<1>4. n \in Nat /\ DOMAIN h = 1 .. n /\ \A j \in 1 .. n : h[j] \in Nodes(ch.shape)
    BY <1>2
<1> HIDE DEF n
<1>5. \A x \in S, y \in S : << x, y >> \in R <=> LooksFirst(ch, x, y)
  <2> HIDE DEF S
  <2> QED
      BY DEF Sooner
<1>6. ASSUME NEW i \in Nodes(ch.shape), AtOrAbove(ch.shape, i, source)
      PROVE  /\ at(i) \in Seq(S) /\ Ordered(R, at(i))
             /\ \A x : x \in ToSet(at(i)) <=> x \in S /\ x.handler = i
  <2> DEFINE r == rows(i)
             m == Len(r)
  <2>1. /\ r \in Seq(Rows(ch))
        /\ ToSet(r) = {k \in Rows(ch) : /\ ch.transitions[k].from = ch.shape.state[i]
                                        /\ ch.transitions[k].event = event}
        /\ \A j, k \in 1 .. m : j < k => r[j] < r[k]
      BY RowsAtFacts
  <2> HIDE DEF r
  <2>2. m \in Nat /\ DOMAIN r = 1 .. m /\ \A j \in 1 .. m : r[j] \in ToSet(r)
      BY <2>1 DEF ToSet
  <2> HIDE DEF m
  <2>3. at(i) = [j \in 1 .. m |-> [handler |-> i, row |-> r[j]]]
      BY <2>2 DEF r
  <2>4. \A k : k \in ToSet(r) => [handler |-> i, row |-> k] \in S
      BY <1>6, <2>1 DEF CandidateRows
  <2>5. \A x \in S : x.handler = i => x = [handler |-> i, row |-> x.row] /\ x.row \in ToSet(r)
      BY <2>1 DEF CandidateRows
  <2> DEFINE g == at(i)
  <2> HIDE DEF at, S, R
  <2>6. g = [j \in 1 .. m |-> g[j]] /\ \A j \in 1 .. m : g[j] = [handler |-> i, row |-> r[j]]
      BY <2>3
  <2> HIDE DEF g
  <2>7. g \in [1 .. m -> S] /\ DOMAIN g = 1 .. m
      BY <2>2, <2>4, <2>6
  <2>8. g \in Seq(S) /\ Len(g) = m
      BY <2>2, <2>7, ListOf
  <2>9. Ordered(R, g)
    <3>1. ASSUME NEW j \in 1 .. m, NEW k \in 1 .. m, j < k PROVE << g[j], g[k] >> \in R
      <4>1. g[j].handler = g[k].handler /\ g[j].row < g[k].row /\ g[j] \in S /\ g[k] \in S
          BY <2>1, <2>6, <2>7, <3>1 DEF m
      <4> QED
          BY <1>5, <4>1 DEF LooksFirst
    <3> QED
        BY <2>8, <3>1 DEF Ordered
  <2>10. ASSUME NEW x PROVE x \in ToSet(g) <=> x \in S /\ x.handler = i
    <3>1. ASSUME x \in ToSet(g) PROVE x \in S /\ x.handler = i
      <4>1. PICK j \in 1 .. m : g[j] = x
          BY <2>7, <3>1 DEF ToSet
      <4> QED
          BY <2>6, <2>7, <4>1
    <3>2. ASSUME x \in S, x.handler = i PROVE x \in ToSet(g)
      <4>1. PICK j \in 1 .. m : r[j] = x.row
          BY <2>2, <2>5, <3>2 DEF ToSet
      <4>2. g[j] = x
          BY <2>5, <2>6, <3>2, <4>1
      <4> QED
          BY <2>7, <4>2 DEF ToSet
    <3> QED
        BY <3>1, <3>2
  <2> QED
      BY <2>8, <2>9, <2>10 DEF g
<1>7. q = FlattenSeq(ss)
    BY DEF Candidates, h
<1>8. /\ ss = [j \in 1 .. n |-> ss[j]]
      /\ \A j \in 1 .. n : /\ ss[j] \in Seq(S) /\ Ordered(R, ss[j])
                           /\ \A x : x \in ToSet(ss[j]) <=> x \in S /\ x.handler = h[j]
  <2>1. ss = [j \in 1 .. n |-> ss[j]] /\ \A j \in 1 .. n : ss[j] = at(h[j])
      BY <1>4
  <2> HIDE DEF ss, at, S, R
  <2> QED
      BY <1>2, <1>4, <1>6, <2>1 DEF n
<1> HIDE DEF ss, S, R, q
<1>9. ss \in Seq(Seq(S)) /\ Len(ss) = n
  <2> DEFINE Q == Seq(S)
  <2> HIDE DEF Q
  <2>1. ss \in [1 .. n -> Q]
      BY <1>8 DEF Q
  <2>2. ss \in Seq(Q) /\ Len(ss) = n
      BY <1>4, <2>1, ListOf
  <2> QED
      BY <2>2 DEF Q
<1>10. q \in Seq(S) /\ \A x : x \in ToSet(q) <=> \E j \in 1 .. n : x \in ToSet(ss[j])
    BY <1>7, <1>9, FlattenFacts
<1>11. Ordered(R, q)
  <2>1. ASSUME NEW j \in 1 .. n, NEW k \in 1 .. n, j < k,
               NEW x \in ToSet(ss[j]), NEW y \in ToSet(ss[k])
        PROVE  << x, y >> \in R
    <3>1. x \in S /\ y \in S /\ x.handler = h[j] /\ y.handler = h[k]
        BY <1>8, <2>1
    <3>2. h[k] \in Aboves(ch.shape, h[j]) \ {h[j]}
        BY <1>3, <2>1 DEF n
    <3> QED
        BY <1>5, <3>1, <3>2 DEF LooksFirst
  <2>2. /\ \A j \in 1 .. Len(ss) : Ordered(R, ss[j])
        /\ \A j, k \in 1 .. Len(ss) :
              j < k => \A x \in ToSet(ss[j]), y \in ToSet(ss[k]) : << x, y >> \in R
      BY <1>8, <1>9, <2>1
  <2>3. Ordered(R, FlattenSeq(ss))
      BY <1>9, <2>2, FlattenOrdered
  <2> QED
      BY <1>7, <2>3
<1>12. Len(q) \in Nat /\ DOMAIN q = 1 .. Len(q) /\ \A j \in 1 .. Len(q) : q[j] \in S
    BY <1>10
<1>13. ASSUME NEW x \in S PROVE \E j \in 1 .. Len(q) : q[j] = x
  <2>1. AtOrAbove(ch.shape, x.handler, source) /\ x.handler \in Nodes(ch.shape)
      BY DEF S, CandidateRows
  <2>2. PICK j \in 1 .. n : h[j] = x.handler
      BY <1>2, <1>4, <2>1 DEF ToSet
  <2>3. x \in ToSet(q)
      BY <1>8, <1>10, <2>2
  <2> QED
      BY <1>12, <2>3 DEF ToSet
<1>14. ASSUME NEW j \in 1 .. Len(q), NEW k \in 1 .. Len(q), j < k PROVE LooksFirst(ch, q[j], q[k])
  <2>1. << q[j], q[k] >> \in R
      BY <1>11, <1>14 DEF Ordered
  <2> QED
      BY <1>5, <1>12, <2>1
<1> QED
    BY <1>10, <1>12, <1>13, <1>14 DEF Looked, S, q

\* The rows for the event that apply, with the states that handle them.
ApplyingAt(ch, source, event, passing) ==
    {x \in CandidateRows(ch, source, event) : Applies(ch, x.row, passing)}

\* Position j is that of the first row that applies.
FirstApplies(ch, source, event, passing, q, j) ==
    /\ j \in 1 .. Len(q)
    /\ q[j] \in ApplyingAt(ch, source, event, passing)
    /\ \A x \in ApplyingAt(ch, source, event, passing) : x = q[j] \/ LooksFirst(ch, q[j], x)
    /\ \A k \in 1 .. j - 1 : ~Applies(ch, q[k].row, passing)

(* The row that is selected comes before all others that apply               *)
(* (statechart.go, selectTransition).                                        *)
LEMMA FirstIsSelected ==
    ASSUME NEW ch, ChartSound(ch), NEW source \in Nodes(ch.shape), NEW event, NEW passing
    PROVE  LET A == ApplyingAt(ch, source, event, passing)
               j == SelectTransition(ch, source, event, passing)
           IN  IF A = {} THEN j = 0
               ELSE FirstApplies(ch, source, event, passing, Candidates(ch, source, event), j)
<1> DEFINE q == Candidates(ch, source, event)
           C == CandidateRows(ch, source, event)
           A == ApplyingAt(ch, source, event, passing)
           applying == {j \in DOMAIN q : Applies(ch, q[j].row, passing)}
           first == SelectTransition(ch, source, event, passing)
<1>1. first = IF applying = {} THEN 0 ELSE Min(applying)
    BY DEF SelectTransition
<1>2. Looked(ch, source, event, q)
    BY CandidatesAreOrdered
<1> HIDE DEF q, first
<1>3. /\ Len(q) \in Nat /\ DOMAIN q = 1 .. Len(q)
      /\ \A j \in 1 .. Len(q) : q[j] \in C
      /\ \A x \in C : \E j \in 1 .. Len(q) : q[j] = x
      /\ \A j, k \in 1 .. Len(q) : j < k => LooksFirst(ch, q[j], q[k])
    BY <1>2 DEF Looked
<1>4. \A x : x \in A <=> x \in C /\ Applies(ch, x.row, passing)
    BY DEF ApplyingAt
<1> HIDE DEF C, A
<1>5. CASE A = {}
  <2>1. applying = {}
      BY <1>3, <1>4, <1>5
  <2> QED
      BY <1>1, <1>5, <2>1 DEF A, first
<1>6. CASE A # {}
  <2>1. \A j : j \in applying <=> j \in 1 .. Len(q) /\ q[j] \in A
      BY <1>3, <1>4
  <2>2. \A x \in A : \E j \in 1 .. Len(q) : q[j] = x
      BY <1>3, <1>4
  <2> HIDE DEF applying
  <2>3. applying # {} /\ applying \in SUBSET Nat
      BY <1>3, <1>6, <2>1, <2>2
  <2>4. first \in applying /\ \A j \in applying : first <= j
      BY <1>1, <2>3, MinFacts
  <2>5. first \in 1 .. Len(q) /\ q[first] \in A
      BY <2>1, <2>4
  <2>6. ASSUME NEW x \in A PROVE x = q[first] \/ LooksFirst(ch, q[first], x)
    <3>1. PICK j \in 1 .. Len(q) : q[j] = x
        BY <2>2
    <3>2. first <= j
        BY <2>1, <2>4, <3>1
    <3>3. j = first \/ first < j
        BY <1>3, <2>5, <3>2
    <3> QED
        BY <1>3, <2>5, <3>1, <3>3
  <2>7. ASSUME NEW k \in 1 .. first - 1 PROVE ~Applies(ch, q[k].row, passing)
    <3>1. k \in 1 .. Len(q) /\ ~(first <= k)
        BY <1>3, <2>5
    <3>2. k \notin applying
        BY <2>4, <3>1
    <3> QED
        BY <1>3, <1>4, <2>1, <3>1, <3>2
  <2> QED
      BY <1>6, <2>5, <2>6, <2>7 DEF FirstApplies, A, q, first
<1> QED
    BY <1>5, <1>6

-----------------------------------------------------------------------------
(* What Compile of a statechart refuses (statechart/statechart.go).          *)

(* As many elements as places: no element is one of those before it          *)
(* (statechart.go and definition.go, Compile).                               *)
LEMMA CountUnlike ==
    ASSUME NEW n \in Nat, NEW f, f = [k \in 1 .. n |-> f[k]],
           NEW A, A = {f[k] : k \in 1 .. n}
    PROVE  Cardinality(A) = n <=> \A k \in 1 .. n : \A j \in 1 .. k - 1 : f[j] # f[k]
<1>1. Cardinality(A) = n <=> \A j, k \in 1 .. n : f[j] = f[k] => j = k
    BY CountList
<1>2. ASSUME \A k \in 1 .. n : \A j \in 1 .. k - 1 : f[j] # f[k],
             NEW j \in 1 .. n, NEW k \in 1 .. n, f[j] = f[k]
      PROVE  j = k
  <2>1. j \in 1 .. k - 1 \/ k \in 1 .. j - 1 \/ j = k
      OBVIOUS
  <2> QED
      BY <1>2, <2>1
<1>3. ASSUME \A j, k \in 1 .. n : f[j] = f[k] => j = k,
             NEW k \in 1 .. n, NEW j \in 1 .. k - 1
      PROVE  f[j] # f[k]
  <2>1. j \in 1 .. n /\ j # k
      OBVIOUS
  <2> QED
      BY <1>3, <2>1
<1> QED
    BY <1>1, <1>2, <1>3

\* The lists of a definition, as functions on their places.
OutlineLists(d) ==
    /\ Len(d.states) \in Nat /\ DOMAIN d.states = 1 .. Len(d.states)
    /\ d.states = [k \in 1 .. Len(d.states) |-> d.states[k]]
    /\ Len(d.substates) \in Nat /\ DOMAIN d.substates = 1 .. Len(d.substates)
    /\ Len(d.initials) \in Nat /\ DOMAIN d.initials = 1 .. Len(d.initials)
    /\ d.states \in Seq(ToSet(d.states))

\* Different keys.
StatesFine(d) ==
    /\ ToSet(d.states) \cap Invalid = {}
    /\ \A k \in 1 .. Len(d.states) : \A j \in 1 .. k - 1 : d.states[j] # d.states[k]

\* One parent each, another state.
EdgesFine(d) ==
    /\ \A k \in 1 .. Len(d.substates) :
          /\ {d.substates[k].child, d.substates[k].parent} \subseteq ToSet(d.states)
          /\ d.substates[k].child # d.substates[k].parent
    /\ \A k \in 1 .. Len(d.substates) : \A j \in 1 .. k - 1 :
          d.substates[j].child # d.substates[k].child

EdgesOf(d) == {<< d.substates[k].child, d.substates[k].parent >> : k \in DOMAIN d.substates}

(* Every state is looked at (statechart.go, Compile).                        *)
LEMMA StatesAreFine ==
    ASSUME NEW d, OutlineLists(d)
    PROVE  /\ StateProblems(d) = {} <=> StatesFine(d)
           /\ StatesFine(d) => Declared(d) = ToSet(d.states)
<1>1. ASSUME StateProblems(d) = {} PROVE StatesFine(d)
  <2>1. ASSUME NEW k \in 1 .. Len(d.states)
        PROVE  d.states[k] \notin Invalid /\ \A j \in 1 .. k - 1 : d.states[j] # d.states[k]
    <3>1. << "states", k >> \notin StateProblems(d)
        BY <1>1
    <3> QED
        BY <3>1 DEF StateProblems, OutlineLists
  <2> QED
      BY <2>1 DEF StatesFine, OutlineLists, ToSet
<1>2. ASSUME StatesFine(d) PROVE StateProblems(d) = {}
  <2>1. \A k \in DOMAIN d.states : d.states[k] \notin Invalid
      BY <1>2 DEF StatesFine, ToSet
  <2> QED
      BY <1>2, <2>1 DEF StatesFine, StateProblems, OutlineLists
<1>3. StatesFine(d) => Declared(d) = ToSet(d.states)
    BY DEF StatesFine, Declared
<1> QED
    BY <1>1, <1>2, <1>3

(* Every edge is looked at (statechart.go, Compile).                         *)
LEMMA EdgesAreFine ==
    ASSUME NEW d, OutlineLists(d), StatesFine(d)
    PROVE  SubstateProblems(d) = {} <=> EdgesFine(d)
<1> DEFINE V == ToSet(d.states)
           n == Len(d.substates)
           e(k) == d.substates[k]
<1>1. Declared(d) = V /\ DOMAIN d.substates = 1 .. n /\ n \in Nat
    BY StatesAreFine DEF OutlineLists
<1> HIDE DEF V, n
<1>2. ASSUME SubstateProblems(d) = {} PROVE EdgesFine(d)
  <2>1. ASSUME NEW k \in 1 .. n
        PROVE  {e(k).child, e(k).parent} \subseteq V /\ ~OwnParent(d, e(k)) /\ ~SecondParent(d, k)
    <3>1. << "substates", k >> \notin SubstateProblems(d)
        BY <1>2
    <3> QED
        BY <1>1, <3>1 DEF SubstateProblems
  <2>2. \A k \in 1 .. n : {e(k).child, e(k).parent} \subseteq V /\ e(k).child # e(k).parent
      BY <1>1, <2>1 DEF OwnParent
  <2>3. ASSUME NEW k \in 1 .. n, NEW j \in 1 .. k - 1 PROVE e(j).child # e(k).child
    <3>1. j \in 1 .. n
        BY <1>1
    <3>2. ~OwnParent(d, e(j)) /\ ~OwnParent(d, e(k)) /\ ~SecondParent(d, k)
        BY <2>1, <3>1
    <3> QED
        BY <3>2 DEF SecondParent, RepeatsChild
  <2> QED
      BY <2>2, <2>3 DEF EdgesFine, V, n
<1>3. ASSUME EdgesFine(d) PROVE SubstateProblems(d) = {}
  <2>1. ASSUME NEW k \in 1 .. n
        PROVE  {e(k).child, e(k).parent} \ V = {} /\ ~OwnParent(d, e(k)) /\ ~SecondParent(d, k)
    <3>1. /\ {e(k).child, e(k).parent} \subseteq V /\ e(k).child # e(k).parent
          /\ \A j \in 1 .. k - 1 : e(j).child # e(k).child
        BY <1>3 DEF EdgesFine, V, n
    <3> QED
        BY <3>1 DEF OwnParent, SecondParent, RepeatsChild
  <2> QED
      BY <1>1, <2>1 DEF SubstateProblems
<1> QED
    BY <1>2, <1>3

\* The function has the value t at s.
Maps(f, s, t) == s \in DOMAIN f /\ f[s] = t

(* The declared parents are those that the edges give (statechart.go,        *)
(* Compile).                                                                *)
LEMMA ParentsAreEdges ==
    ASSUME NEW d, OutlineLists(d), StatesFine(d), EdgesFine(d)
    PROVE  /\ \A s, t : << s, t >> \in EdgesOf(d) <=> Maps(ParentsOf(d), s, t)
           /\ \A s \in DOMAIN ParentsOf(d) : s \in ToSet(d.states) /\ ParentsOf(d)[s] \in ToSet(d.states)
<1> DEFINE V == ToSet(d.states)
           n == Len(d.substates)
           x(k) == d.substates[k]
           edges == {d.substates[k] : k \in {i \in DOMAIN d.substates :
                        /\ ~OwnParent(d, d.substates[i])
                        /\ ~RepeatsChild(d, i)
                        /\ {d.substates[i].child, d.substates[i].parent} \subseteq Declared(d)}}
           ps == ParentsOf(d)
           all == {d.substates[k] : k \in 1 .. n}
<1>1. Declared(d) = V /\ DOMAIN d.substates = 1 .. n /\ n \in Nat
    BY StatesAreFine DEF OutlineLists
<1>2. ps = [s \in {e.child : e \in edges} |-> (CHOOSE e \in edges : e.child = s).parent]
    BY DEF ParentsOf
<1>3. \A k \in 1 .. n : /\ {x(k).child, x(k).parent} \subseteq V /\ x(k).child # x(k).parent
                        /\ \A j \in 1 .. k - 1 : x(j).child # x(k).child
    BY DEF EdgesFine
<1> HIDE DEF V, n, ps
<1>4. edges = all
  <2>1. ASSUME NEW k \in 1 .. n
        PROVE  /\ ~OwnParent(d, x(k)) /\ ~RepeatsChild(d, k)
               /\ {x(k).child, x(k).parent} \subseteq Declared(d)
      BY <1>1, <1>3 DEF OwnParent, RepeatsChild
  <2> QED
      BY <1>1, <2>1
<1>5. ASSUME NEW k \in 1 .. n, NEW j \in 1 .. n, x(j).child = x(k).child PROVE j = k
  <2>1. j \in 1 .. k - 1 \/ k \in 1 .. j - 1 \/ j = k
      BY <1>1
  <2> QED
      BY <1>3, <1>5, <2>1
<1>6. \A e, f \in edges : e.child = f.child => e = f
    BY <1>4, <1>5
<1>7. \A e \in edges : {e.child, e.parent} \subseteq V
    BY <1>3, <1>4
<1>8. \A s, t : << s, t >> \in EdgesOf(d) <=> \E e \in edges : e.child = s /\ e.parent = t
    BY <1>1, <1>4 DEF EdgesOf
<1> HIDE DEF edges, all
<1>10. ASSUME NEW e \in edges PROVE Maps(ps, e.child, e.parent)
  <2>1. (CHOOSE f \in edges : f.child = e.child) = e
      BY <1>6
  <2> QED
      BY <1>2, <2>1 DEF Maps
<1>11. ASSUME NEW s, NEW t, Maps(ps, s, t) PROVE \E e \in edges : e.child = s /\ e.parent = t
  <2>1. PICK e \in edges : e.child = s
      BY <1>2, <1>11 DEF Maps
  <2>2. ps[s] = e.parent
      BY <1>10, <2>1 DEF Maps
  <2> QED
      BY <1>11, <2>1, <2>2 DEF Maps
<1>12. \A s, t : << s, t >> \in EdgesOf(d) <=> Maps(ps, s, t)
  <2> SUFFICES ASSUME NEW s, NEW t PROVE << s, t >> \in EdgesOf(d) <=> Maps(ps, s, t)
      OBVIOUS
  <2>1. << s, t >> \in EdgesOf(d) => Maps(ps, s, t)
      BY <1>8, <1>10
  <2>2. Maps(ps, s, t) => << s, t >> \in EdgesOf(d)
      BY <1>8, <1>11
  <2> QED
      BY <2>1, <2>2
<1>13. ASSUME NEW s \in DOMAIN ps PROVE s \in V /\ ps[s] \in V
  <2>1. Maps(ps, s, ps[s])
      BY DEF Maps
  <2> QED
      BY <1>7, <1>11, <2>1
<1> QED
    BY <1>12, <1>13 DEF ps, V

InitialsFine(d) ==
    /\ \A k \in 1 .. Len(d.initials) : << d.initials[k].child, d.initials[k].parent >> \in EdgesOf(d)
    /\ \A k \in 1 .. Len(d.initials) : \A j \in 1 .. k - 1 :
          d.initials[j].parent # d.initials[k].parent

\* Nobody is above itself.
NoCycles(d) ==
    ~\E S \in SUBSET ToSet(d.states) : S # {} /\ \A s \in S : \E t \in S : << s, t >> \in EdgesOf(d)

(* Every initial child is looked at (statechart.go, Compile).                *)
LEMMA InitialsAreFine ==
    ASSUME NEW d, OutlineLists(d), StatesFine(d), EdgesFine(d)
    PROVE  InitialProblems(d) = {} <=> InitialsFine(d)
<1> DEFINE V == ToSet(d.states)
           n == Len(d.initials)
           x(k) == d.initials[k]
           ps == ParentsOf(d)
<1>1. Declared(d) = V /\ DOMAIN d.initials = 1 .. n /\ n \in Nat
    BY StatesAreFine DEF OutlineLists
<1>2. \A s, t : << s, t >> \in EdgesOf(d) <=> Maps(ps, s, t)
    BY ParentsAreEdges
<1>3. \A s, t : Maps(ps, s, t) => s \in V /\ t \in V
    BY ParentsAreEdges DEF Maps
<1>4. ASSUME NEW k \in 1 .. n
      PROVE  ImmediateChild(d, x(k)) <=> << x(k).child, x(k).parent >> \in EdgesOf(d)
  <2>1. ImmediateChild(d, x(k)) <=> Maps(ps, x(k).child, x(k).parent)
      BY DEF ImmediateChild, Maps
  <2>2. << x(k).child, x(k).parent >> \in EdgesOf(d) <=> Maps(ps, x(k).child, x(k).parent)
      BY <1>2
  <2> QED
      BY <2>1, <2>2
<1> HIDE DEF V, n, ps
<1>5. ASSUME InitialProblems(d) = {} PROVE InitialsFine(d)
  <2>1. ASSUME NEW k \in 1 .. n
        PROVE  << x(k).child, x(k).parent >> \in EdgesOf(d) /\ ~SecondInitial(d, k)
    <3>1. << "initials", k >> \notin InitialProblems(d)
        BY <1>5
    <3>2. ImmediateChild(d, x(k)) /\ ~SecondInitial(d, k)
        BY <1>1, <3>1 DEF InitialProblems
    <3> QED
        BY <1>4, <3>2
  <2> QED
      BY <2>1 DEF InitialsFine, SecondInitial, n
<1>6. ASSUME InitialsFine(d) PROVE InitialProblems(d) = {}
  <2>1. ASSUME NEW k \in 1 .. n
        PROVE  /\ {x(k).child, x(k).parent} \ V = {} /\ ~SecondInitial(d, k)
               /\ ImmediateChild(d, x(k))
    <3>1. << x(k).child, x(k).parent >> \in EdgesOf(d) /\ ~SecondInitial(d, k)
        BY <1>6 DEF InitialsFine, SecondInitial, n
    <3>2. x(k).child \in V /\ x(k).parent \in V
        BY <1>2, <1>3, <3>1
    <3> QED
        BY <1>4, <3>1, <3>2
  <2> QED
      BY <1>1, <2>1 DEF InitialProblems
<1> QED
    BY <1>5, <1>6

(* Cycles are found when there are any (statechart.go, hierarchyCycles).     *)
LEMMA NoCyclesAreFound ==
    ASSUME NEW d, OutlineLists(d), StatesFine(d), EdgesFine(d)
    PROVE  HierarchyCycles(OrderOf(d), ParentsOf(d)) = {} <=> NoCycles(d)
<1> DEFINE V == ToSet(d.states)
           ps == ParentsOf(d)
           order == OrderOf(d)
           H == HierarchyCycles(order, ps)
<1>1. order \in Seq(V) /\ ToSet(order) = V
  <2>1. StateProblems(d) = {} /\ d.states \in Seq(V)
      BY StatesAreFine DEF OutlineLists
  <2> HIDE DEF V
  <2>2. V = ToSet(d.states)
      BY DEF V
  <2> QED
      BY <2>1, <2>2, OrderFacts
<1>2. /\ \A s, t : << s, t >> \in EdgesOf(d) <=> Maps(ps, s, t)
      /\ \A s \in DOMAIN ps : ps[s] \in V
    BY ParentsAreEdges
<1> HIDE DEF ps
<1>3. \A S : (\A s \in S : \E t \in S : << s, t >> \in EdgesOf(d)) <=> Unfounded(ps, S)
  <2> TAKE S
  <2>1. \A s : (\E t \in S : << s, t >> \in EdgesOf(d)) <=> s \in DOMAIN ps /\ ps[s] \in S
      BY <1>2 DEF Maps
  <2> QED
      BY <2>1 DEF Unfounded
<1>4. NoCycles(d) <=> \A S \in SUBSET V : Unfounded(ps, S) => S = {}
    BY <1>3 DEF NoCycles
<1> HIDE DEF V, order
<1>5. H = {C \in SUBSET V : IsCycle(ps, C)}
    BY <1>1, <1>2, CyclesAreAll
<1>6. ASSUME H = {}, NEW S \in SUBSET V, Unfounded(ps, S) PROVE S = {}
    BY <1>1, <1>2, <1>6, CyclesAreFound
<1>7. ASSUME \A S \in SUBSET V : Unfounded(ps, S) => S = {} PROVE H = {}
  <2> HIDE DEF H
  <2> SUFFICES ASSUME NEW C \in H PROVE FALSE
      OBVIOUS
  <2>1. C \in SUBSET V /\ C # {} /\ Unfounded(ps, C)
      BY <1>5 DEF IsCycle
  <2> QED
      BY <1>7, <2>1
<1> QED
    BY <1>4, <1>6, <1>7 DEF ps, order

(* Compile reports nothing when the states, the edges and the rows are fine  *)
(* (statechart.go, Compile).                                                *)
LEMMA PartsAccepted ==
    ASSUME NEW d, OutlineLists(d)
    PROVE  Problems(d) = {} <=>
              /\ StatesFine(d) /\ EdgesFine(d) /\ NoCycles(d) /\ InitialsFine(d)
              /\ TransitionProblems(d) = {}
<1> DEFINE H == HierarchyCycles(OrderOf(d), ParentsOf(d))
<1>2. Problems(d) = {} <=> /\ StateProblems(d) = {} /\ SubstateProblems(d) = {} /\ H = {}
                           /\ InitialProblems(d) = {} /\ TransitionProblems(d) = {}
  <2> HIDE DEF H
  <2>1. {<< "hierarchy", c >> : c \in H} = {} <=> H = {}
    <3>1. ASSUME {<< "hierarchy", c >> : c \in H} = {}, NEW c \in H PROVE FALSE
      <4>1. << "hierarchy", c >> \in {<< "hierarchy", x >> : x \in H}
          OBVIOUS
      <4> QED
          BY <3>1, <4>1
    <3> QED
        BY <3>1
  <2>2. Problems(d) = StateProblems(d) \cup SubstateProblems(d) \cup {<< "hierarchy", c >> : c \in H}
                      \cup InitialProblems(d) \cup TransitionProblems(d)
      BY DEF Problems, H
  <2> QED
      BY <2>1, <2>2
<1>3. StateProblems(d) = {} <=> StatesFine(d)
    BY StatesAreFine
<1>4. StatesFine(d) => (SubstateProblems(d) = {} <=> EdgesFine(d))
    BY EdgesAreFine
<1>5. StatesFine(d) /\ EdgesFine(d) => (H = {} <=> NoCycles(d))
    BY NoCyclesAreFound
<1>6. StatesFine(d) /\ EdgesFine(d) => (InitialProblems(d) = {} <=> InitialsFine(d))
    BY InitialsAreFine
<1> HIDE DEF H
<1> QED
    BY <1>2, <1>3, <1>4, <1>5, <1>6

\* The edges of a list.
PairsOf(n, a, b) == {<< a[k], b[k] >> : k \in 1 .. n}

(* The beginnings of a list of edges (statechart.go, Compile).               *)
LEMMA PairBeginnings ==
    ASSUME NEW n, NEW a, NEW b, NEW P, P = PairsOf(n, a, b)
    PROVE  {e[1] : e \in P} = {a[k] : k \in 1 .. n}
<1> USE DEF PairsOf
<1>1. ASSUME NEW x \in {e[1] : e \in P} PROVE x \in {a[k] : k \in 1 .. n}
  <2>1. PICK e \in P : x = e[1]
      OBVIOUS
  <2> QED
      BY <2>1
<1>2. ASSUME NEW k \in 1 .. n PROVE a[k] \in {e[1] : e \in P}
  <2> DEFINE e == << a[k], b[k] >>
  <2>1. e \in P /\ e[1] = a[k]
      OBVIOUS
  <2> HIDE DEF e
  <2> QED
      BY <2>1
<1> QED
    BY <1>1, <1>2

(* A list of edges among some states (statechart.go, Compile).               *)
LEMMA PairsWithin ==
    ASSUME NEW n, NEW a, NEW b, NEW P, P = PairsOf(n, a, b), NEW N
    PROVE  P \subseteq N \X N <=> \A k \in 1 .. n : a[k] \in N /\ b[k] \in N
<1> USE DEF PairsOf
<1>1. P \subseteq N \X N <=> \A k \in 1 .. n : << a[k], b[k] >> \in N \X N
    OBVIOUS
<1>2. \A k \in 1 .. n : << a[k], b[k] >> \in N \X N <=> a[k] \in N /\ b[k] \in N
    OBVIOUS
<1> QED
    BY <1>1, <1>2

(* A list of edges the other way round (statechart.go, Compile).             *)
LEMMA PairsReversed ==
    ASSUME NEW n, NEW a, NEW b, NEW P, P = PairsOf(n, a, b), NEW E
    PROVE  (\A e \in P : << e[2], e[1] >> \in E) <=> \A k \in 1 .. n : << b[k], a[k] >> \in E
<1> USE DEF PairsOf
<1>1. ASSUME \A e \in P : << e[2], e[1] >> \in E, NEW k \in 1 .. n PROVE << b[k], a[k] >> \in E
  <2> DEFINE e == << a[k], b[k] >>
  <2>1. e \in P /\ e[1] = a[k] /\ e[2] = b[k]
      OBVIOUS
  <2> HIDE DEF e
  <2>2. << e[2], e[1] >> \in E
      BY <1>1, <2>1
  <2> QED
      BY <2>1, <2>2
<1>2. ASSUME \A k \in 1 .. n : << b[k], a[k] >> \in E, NEW e \in P PROVE << e[2], e[1] >> \in E
  <2>1. PICK k \in 1 .. n : e = << a[k], b[k] >>
      OBVIOUS
  <2>2. e[1] = a[k] /\ e[2] = b[k] /\ << b[k], a[k] >> \in E
      BY <1>2, <2>1
  <2> QED
      BY <2>2
<1> QED
    BY <1>1, <1>2

\* The states and edges make a forest.
IsForest(d) ==
    LET names == ToSet(d.states)
        parentOf == EdgesOf(d)
        initialOf == {<< d.initials[k].parent, d.initials[k].child >> : k \in DOMAIN d.initials}
    IN  /\ names \cap Invalid = {}
        /\ Cardinality(names) = Len(d.states)
        /\ parentOf \subseteq names \X names
        /\ Cardinality({e[1] : e \in parentOf}) = Len(d.substates)
        /\ ~\E S \in SUBSET names : S # {} /\ \A s \in S : \E t \in S : << s, t >> \in parentOf
        /\ \A e \in initialOf : << e[2], e[1] >> \in parentOf
        /\ Cardinality({e[1] : e \in initialOf}) = Len(d.initials)

(* What is fine is a forest, and the other way round (statechart.go,         *)
(* Compile).                                                                *)
LEMMA ForestsAreFine ==
    ASSUME NEW d, OutlineLists(d)
    PROVE  IsForest(d) <=> StatesFine(d) /\ EdgesFine(d) /\ NoCycles(d) /\ InitialsFine(d)
<1> DEFINE names == ToSet(d.states)
           n == Len(d.states)
           ns == Len(d.substates)
           ni == Len(d.initials)
           parentOf == EdgesOf(d)
           initialOf == {<< d.initials[k].parent, d.initials[k].child >> : k \in DOMAIN d.initials}
           child == [k \in 1 .. ns |-> d.substates[k].child]
           parent == [k \in 1 .. ns |-> d.substates[k].parent]
           begin == [k \in 1 .. ni |-> d.initials[k].parent]
           first == [k \in 1 .. ni |-> d.initials[k].child]
           children == {e[1] : e \in parentOf}
           begins == {e[1] : e \in initialOf}
<1>1. /\ n \in Nat /\ DOMAIN d.states = 1 .. n /\ d.states = [k \in 1 .. n |-> d.states[k]]
      /\ ns \in Nat /\ DOMAIN d.substates = 1 .. ns
      /\ ni \in Nat /\ DOMAIN d.initials = 1 .. ni
    BY DEF OutlineLists
<1> HIDE DEF n, ns, ni
<1>2. Cardinality(names) = n <=> \A k \in 1 .. n : \A j \in 1 .. k - 1 : d.states[j] # d.states[k]
  <2> DEFINE f == d.states
  <2>1. names = {f[k] : k \in 1 .. n} /\ f = [k \in 1 .. n |-> f[k]]
      BY <1>1 DEF ToSet
  <2> HIDE DEF f, names
  <2>2. Cardinality(names) = n <=> \A k \in 1 .. n : \A j \in 1 .. k - 1 : f[j] # f[k]
      BY ZenonT(90), <1>1, <2>1, CountUnlike
  <2> QED
      BY <2>2 DEF f
<1>11. /\ children = {child[k] : k \in 1 .. ns}
       /\ parentOf \subseteq names \X names <=> \A k \in 1 .. ns : {child[k], parent[k]} \subseteq names
  <2>1. parentOf = PairsOf(ns, child, parent)
      BY <1>1 DEF EdgesOf, PairsOf
  <2> HIDE DEF parentOf, child, parent, names
  <2>2. {e[1] : e \in parentOf} = {child[k] : k \in 1 .. ns}
      BY <2>1, PairBeginnings
  <2>3. parentOf \subseteq names \X names
        <=> \A k \in 1 .. ns : child[k] \in names /\ parent[k] \in names
      BY ZenonT(90), <2>1, PairsWithin
  <2> QED
      BY <2>2, <2>3
<1>12. /\ begins = {begin[k] : k \in 1 .. ni}
       /\ (\A e \in initialOf : << e[2], e[1] >> \in parentOf)
             <=> \A k \in 1 .. ni : << first[k], begin[k] >> \in parentOf
  <2>1. initialOf = PairsOf(ni, begin, first)
      BY <1>1 DEF PairsOf
  <2> HIDE DEF parentOf, begin, first, initialOf
  <2>2. {e[1] : e \in initialOf} = {begin[k] : k \in 1 .. ni}
      BY <2>1, PairBeginnings
  <2>3. (\A e \in initialOf : << e[2], e[1] >> \in parentOf)
             <=> \A k \in 1 .. ni : << first[k], begin[k] >> \in parentOf
      BY <2>1, PairsReversed
  <2> QED
      BY <2>2, <2>3
<1>3. Cardinality(children) = ns <=> \A k \in 1 .. ns : \A j \in 1 .. k - 1 :
                                        d.substates[j].child # d.substates[k].child
  <2>1. children = {child[k] : k \in 1 .. ns} /\ child = [k \in 1 .. ns |-> child[k]]
      BY <1>11
  <2> HIDE DEF child, children
  <2>2. Cardinality(children) = ns <=> \A k \in 1 .. ns : \A j \in 1 .. k - 1 : child[j] # child[k]
      BY ZenonT(90), <1>1, <2>1, CountUnlike
  <2>3. \A k \in 1 .. ns : child[k] = d.substates[k].child
      BY DEF child
  <2>4. \A k \in 1 .. ns : \A j \in 1 .. k - 1 : j \in 1 .. ns
      BY <1>1
  <2> QED
      BY <2>2, <2>3, <2>4
<1>4. Cardinality(begins) = ni <=> \A k \in 1 .. ni : \A j \in 1 .. k - 1 :
                                      d.initials[j].parent # d.initials[k].parent
  <2>1. begins = {begin[k] : k \in 1 .. ni} /\ begin = [k \in 1 .. ni |-> begin[k]]
      BY <1>12
  <2> HIDE DEF begin, begins
  <2>2. Cardinality(begins) = ni <=> \A k \in 1 .. ni : \A j \in 1 .. k - 1 : begin[j] # begin[k]
      BY ZenonT(90), <1>1, <2>1, CountUnlike
  <2>3. \A k \in 1 .. ni : begin[k] = d.initials[k].parent
      BY DEF begin
  <2>4. \A k \in 1 .. ni : \A j \in 1 .. k - 1 : j \in 1 .. ni
      BY <1>1
  <2> QED
      BY <2>2, <2>3, <2>4
<1>5. parentOf \subseteq names \X names <=>
         \A k \in 1 .. ns : {d.substates[k].child, d.substates[k].parent} \subseteq names
  <2> HIDE DEF names, parentOf
  <2> QED
      BY <1>11
<1>6. NoCycles(d) => \A k \in 1 .. ns : {d.substates[k].child, d.substates[k].parent} \subseteq names
                                        => d.substates[k].child # d.substates[k].parent
  <2> SUFFICES ASSUME NoCycles(d), NEW k \in 1 .. ns, d.substates[k].child \in names,
                      d.substates[k].child = d.substates[k].parent
               PROVE  FALSE
      OBVIOUS
  <2> DEFINE s == d.substates[k].child
  <2>1. << s, s >> \in parentOf
      BY <1>1 DEF EdgesOf
  <2> HIDE DEF s
  <2>2. {s} \in SUBSET names
      BY DEF s
  <2> QED
      BY <2>1, <2>2 DEF NoCycles
<1>7. (\A e \in initialOf : << e[2], e[1] >> \in parentOf) <=>
         \A k \in 1 .. ni : << d.initials[k].child, d.initials[k].parent >> \in parentOf
  <2> HIDE DEF initialOf, parentOf
  <2> QED
      BY <1>12
<1>8. StatesFine(d) <=> names \cap Invalid = {} /\ Cardinality(names) = n
    BY <1>2 DEF StatesFine, n
<1>9. InitialsFine(d) <=> /\ \A e \in initialOf : << e[2], e[1] >> \in parentOf
                          /\ Cardinality(begins) = ni
    BY <1>4, <1>7 DEF InitialsFine, ni
<1>10. EdgesFine(d) /\ NoCycles(d) <=>
          parentOf \subseteq names \X names /\ Cardinality(children) = ns /\ NoCycles(d)
    BY <1>3, <1>5, <1>6 DEF EdgesFine, ns
<1> QED
    BY <1>8, <1>9, <1>10 DEF IsForest, NoCycles, n, ns, ni

\* The lists and the hierarchy of a definition are fine.
ShapeFine(d) ==
    /\ OutlineLists(d) /\ IsList(d.transitions)
    /\ StatesFine(d) /\ EdgesFine(d) /\ NoCycles(d) /\ InitialsFine(d)

(* The hierarchy of a definition can be compiled when its states and edges   *)
(* are fine (statechart.go, Compile; position.go, compileShape).             *)
LEMMA FineCompilable ==
    ASSUME NEW d, ShapeFine(d)
    PROVE  Compilable(d.states, ParentsOf(d), InitialsOf(d))
<1> DEFINE V == ToSet(d.states)
           order == d.states
           ps == ParentsOf(d)
           is == InitialsOf(d)
           n == Len(order)
<1>1. OutlineLists(d) /\ StatesFine(d) /\ EdgesFine(d) /\ NoCycles(d) /\ InitialsFine(d)
    BY DEF ShapeFine
<1>2. /\ \A s, t : << s, t >> \in EdgesOf(d) <=> Maps(ps, s, t)
      /\ \A s \in DOMAIN ps : s \in V /\ ps[s] \in V
    BY <1>1, ParentsAreEdges
<1>3. n \in Nat /\ DOMAIN order = 1 .. n /\ order \in Seq(V)
    BY <1>1 DEF OutlineLists
<1>4. ASSUME NEW i \in 1 .. n, NEW j \in 1 .. n, order[i] = order[j] PROVE i = j
  <2>1. i \in 1 .. j - 1 \/ j \in 1 .. i - 1 \/ i = j
      BY <1>3
  <2> QED
      BY <1>1, <1>4, <2>1 DEF StatesFine
<1>5. ChildrenGiven(d, V, ps)
  <2> SUFFICES ASSUME NEW k \in 1 .. Len(d.initials)
               PROVE  LET e == d.initials[k]
                      IN  e.child \in V /\ e.child \in DOMAIN ps /\ ps[e.child] = e.parent
      BY ZenonT(90), <1>1 DEF ChildrenGiven, OutlineLists, ToSet
  <2> DEFINE e == d.initials[k]
  <2>1. << e.child, e.parent >> \in EdgesOf(d)
      BY <1>1 DEF InitialsFine
  <2> HIDE DEF e
  <2>2. Maps(ps, e.child, e.parent)
      BY <1>2, <2>1
  <2> QED
      BY <1>2, <2>2 DEF Maps, e
<1>6. V = ToSet(order)
    OBVIOUS
<1>7. ASSUME NEW U \in SUBSET V, Unfounded(ps, U) PROVE U = {}
  <2>1. ASSUME NEW s \in U PROVE \E t \in U : << s, t >> \in EdgesOf(d)
      BY <1>2, <1>7 DEF Unfounded, Maps
  <2> QED
      BY <1>1, <2>1 DEF NoCycles
<1> HIDE DEF V, ps
<1>8. \A s \in DOMAIN is : is[s] \in V /\ is[s] \in DOMAIN ps /\ ps[is[s]] = s
    BY <1>5, InitialsAreChildren
<1> HIDE DEF order, is
<1>9. /\ \A i, j \in 1 .. Len(order) : order[i] = order[j] => i = j
      /\ \A s \in DOMAIN ps : ps[s] \in V
      /\ \A U \in SUBSET V : Unfounded(ps, U) => U = {}
    BY <1>2, <1>4, <1>7
<1> HIDE DEF n
<1>10. Compilable(order, ps, is)
    BY <1>3, <1>6, <1>8, <1>9, ForestCompilable
<1> QED
    BY <1>10 DEF order, ps, is

\* A row between declared states, for a valid event and of the right kind.
RowKnown(d, k) ==
    LET t == d.transitions[k]
    IN  /\ t.event \notin Invalid
        /\ {t.from, t.to} \subseteq ToSet(d.states)
        /\ t.kind \in (IF t.from = t.to THEN {"internal", "reentry"} ELSE {"external"})

(* Every row is looked at, one after the other (statechart.go, Compile).     *)
LEMMA ChartRowsFine ==
    ASSUME NEW d, StatesFine(d), OutlineLists(d)
    PROVE  TransitionProblems(d) = {} <=> \A k \in DOMAIN d.transitions : RowKnown(d, k) /\ ~DeadRow(d, k)
<1> DEFINE t(k) == d.transitions[k]
           bad(k) == \/ ~Registered(d, t(k))
                     \/ t(k).kind \notin Kinds
                     \/ t(k).kind = "external" /\ t(k).from = t(k).to
                     \/ t(k).kind \in {"internal", "reentry"} /\ t(k).from # t(k).to
                     \/ DeadRow(d, k)
<1>1. TransitionProblems(d) = {<< "transitions", i >> : i \in {k \in DOMAIN d.transitions : bad(k)}}
    BY DEF TransitionProblems
<1>2. ASSUME NEW k \in DOMAIN d.transitions PROVE ~bad(k) <=> RowKnown(d, k) /\ ~DeadRow(d, k)
  <2>1. Declared(d) = ToSet(d.states)
      BY StatesAreFine
  <2>2. Registered(d, t(k)) <=> {t(k).from, t(k).to} \subseteq ToSet(d.states) /\ t(k).event \notin Invalid
      BY <2>1 DEF Registered
  <2>3. CASE t(k).from = t(k).to
      BY <2>2, <2>3 DEF RowKnown, Kinds
  <2>4. CASE t(k).from # t(k).to
      BY <2>2, <2>4 DEF RowKnown, Kinds
  <2> QED
      BY <2>3, <2>4
<1> HIDE DEF bad
<1>3. TransitionProblems(d) = {} <=> \A k \in DOMAIN d.transitions : ~bad(k)
  <2>1. ASSUME TransitionProblems(d) = {}, NEW k \in DOMAIN d.transitions, bad(k) PROVE FALSE
    <3>1. << "transitions", k >> \in TransitionProblems(d)
        BY <1>1, <2>1
    <3> QED
        BY <2>1, <3>1
  <2>2. (\A k \in DOMAIN d.transitions : ~bad(k)) => TransitionProblems(d) = {}
      BY <1>1
  <2> QED
      BY <2>1, <2>2
<1> QED
    BY <1>2, <1>3

(* The tables of known rows are sound, even if some rows are dead            *)
(* (statechart.go, Compile).                                                *)
LEMMA KnownSound ==
    ASSUME NEW d, ShapeFine(d), \A k \in DOMAIN d.transitions : RowKnown(d, k)
    PROVE  LET all == ChartOf(d)
           IN  /\ ChartSound(all) /\ all.transitions = d.transitions /\ all.shape.state = d.states
               /\ Rows(all) = DOMAIN d.transitions /\ Nodes(all.shape) = DOMAIN d.states
<1> DEFINE all == ChartOf(d)
           h == CompileShape(d.states, ParentsOf(d), InitialsOf(d))
           m == Len(d.transitions)
<1>1. all = [shape |-> h, transitions |-> d.transitions]
    BY DEF ChartOf
<1>2. /\ h.state = d.states /\ Hierarchy(h)
      /\ \A i \in Nodes(h) : h.destination[i] \in Nodes(h) /\ AtOrAbove(h, i, h.destination[i])
    BY FineCompilable, CompiledFacts
<1> HIDE DEF h
<1>3. all.shape = h /\ all.transitions = d.transitions
    BY <1>1
<1> HIDE DEF all
<1>4. m \in Nat /\ DOMAIN d.transitions = 1 .. m
    BY ListFacts DEF ShapeFine
<1>5. DOMAIN d.states = Nodes(h)
    BY <1>2 DEF Nodes, Size, ShapeFine, OutlineLists
<1>6. ASSUME NEW k \in 1 .. m
      PROVE  /\ \E i \in Nodes(h) : h.state[i] = d.transitions[k].to
             /\ d.transitions[k].kind = "reentry" => d.transitions[k].from = d.transitions[k].to
  <2>1. RowKnown(d, k)
      BY <1>4
  <2>2. d.transitions[k].to \in ToSet(d.states)
      BY <2>1 DEF RowKnown
  <2>3. d.transitions[k].kind = "reentry" => d.transitions[k].from = d.transitions[k].to
      BY <2>1 DEF RowKnown
  <2> QED
      BY <1>2, <1>5, <2>2, <2>3 DEF ToSet
<1>7. Rows(all) = 1 .. m
    BY <1>3 DEF Rows
<1>8. ChartSound(all)
    BY <1>2, <1>3, <1>4, <1>6, <1>7 DEF ChartSound
<1> QED
    BY <1>2, <1>3, <1>4, <1>5, <1>7, <1>8 DEF all

\* Row i is the one selected at its state for some data.
Selectable(ch, d, i) ==
    LET source == IndexOf(d.states, d.transitions[i].from)
        event == d.transitions[i].event
    IN  \E passing \in SUBSET DOMAIN d.transitions :
            LET j == SelectTransition(ch, source, event, passing)
            IN  j # 0 /\ Candidates(ch, source, event)[j].row = i

(* A row is selected for some data exactly when no earlier row of its state  *)
(* for its event lacks a Guard (statechart.go, Compile and                   *)
(* selectTransition).                                                       *)
LEMMA SelectableUnlessDead ==
    ASSUME NEW d, ShapeFine(d), \A k \in DOMAIN d.transitions : RowKnown(d, k),
           NEW i \in DOMAIN d.transitions
    PROVE  Selectable(ChartOf(d), d, i) <=> ~DeadRow(d, i)
<1> DEFINE ch == ChartOf(d)
           source == IndexOf(d.states, d.transitions[i].from)
           event == d.transitions[i].event
           q == Candidates(ch, source, event)
           row(k) == d.transitions[k]
           x == [handler |-> source, row |-> i]
<1>1. /\ ChartSound(ch) /\ ch.transitions = d.transitions /\ ch.shape.state = d.states
      /\ Rows(ch) = DOMAIN d.transitions /\ Nodes(ch.shape) = DOMAIN d.states
    BY KnownSound
<1> HIDE DEF ch
<1>2. DOMAIN d.transitions = 1 .. Len(d.transitions) /\ Len(d.transitions) \in Nat
    BY ListFacts DEF ShapeFine
<1>3. source \in Nodes(ch.shape) /\ d.states[source] = row(i).from
  <2>1. row(i).from \in ToSet(d.states)
      BY DEF RowKnown
  <2>2. \E k \in DOMAIN d.states : d.states[k] = row(i).from
      BY <2>1 DEF ToSet
  <2> QED
      BY <1>1, <2>2, IndexOfFacts
<1>4. Hierarchy(ch.shape)
    BY <1>1 DEF ChartSound
<1>5. source \in Aboves(ch.shape, source) /\ AtOrAbove(ch.shape, source, source)
      /\ source \in 0 .. Size(ch.shape)
  <2>1. source \in Aboves(ch.shape, source)
      BY <1>3, <1>4, AbovesFacts
  <2> QED
      BY <1>3, <1>4, <2>1 DEF Aboves, Nodes, Hierarchy
<1>6. \A j, k \in DOMAIN d.states : d.states[j] = d.states[k] => j = k
  <2>1. ASSUME NEW j \in DOMAIN d.states, NEW k \in DOMAIN d.states, d.states[j] = d.states[k]
        PROVE  j = k
    <3>1. DOMAIN d.states = 1 .. Len(d.states) /\ Len(d.states) \in Nat
        BY DEF ShapeFine, OutlineLists
    <3>2. j \in 1 .. k - 1 \/ k \in 1 .. j - 1 \/ j = k
        BY <3>1
    <3> QED
        BY <2>1, <3>1, <3>2 DEF ShapeFine, StatesFine
  <2> QED
      BY <2>1
<1> HIDE DEF source
<1>7. ASSUME NEW r \in DOMAIN d.transitions, row(r).from = row(i).from, row(r).event = event
      PROVE  [handler |-> source, row |-> r] \in CandidateRows(ch, source, event)
  <2> DEFINE y == [handler |-> source, row |-> r]
  <2>1. y \in [handler : Nodes(ch.shape), row : Rows(ch)] /\ y.handler = source /\ y.row = r
      BY <1>1, <1>3
  <2> HIDE DEF y
  <2>2. y \in CandidateRows(ch, source, event)
      BY <1>1, <1>3, <1>5, <1>7, <2>1 DEF CandidateRows
  <2> QED
      BY <2>2 DEF y
<1>8. ASSUME NEW z \in CandidateRows(ch, source, event)
      PROVE  /\ z.row \in DOMAIN d.transitions /\ row(z.row).event = event
             /\ z.handler \in Nodes(ch.shape) /\ AtOrAbove(ch.shape, z.handler, source)
             /\ row(z.row).from = d.states[z.handler]
             /\ z = [handler |-> z.handler, row |-> z.row]
    BY <1>1 DEF CandidateRows
<1>9. \A r \in DOMAIN d.transitions : Registered(d, row(r))
  <2>1. Declared(d) = ToSet(d.states)
      BY StatesAreFine DEF ShapeFine
  <2> QED
      BY <2>1 DEF RowKnown, Registered
<1>10. DeadRow(d, i) <=> \E r \in 1 .. i - 1 : /\ row(r).from = row(i).from /\ row(r).event = event
                                               /\ ~row(r).guarded
  <2>1. \A r \in 1 .. i - 1 : r \in DOMAIN d.transitions
      BY <1>2
  <2>2. \A r : KeyOf(row(r)) = KeyOf(row(i)) <=> row(r).from = row(i).from /\ row(r).event = event
      BY DEF KeyOf
  <2> QED
      BY <1>9, <2>1, <2>2 DEF DeadRow
<1>11. ASSUME ~DeadRow(d, i) PROVE Selectable(ch, d, i)
  <2> DEFINE passing == {i}
             A == ApplyingAt(ch, source, event, passing)
             j == SelectTransition(ch, source, event, passing)
             z == q[j]
  <2>1. x \in CandidateRows(ch, source, event) /\ x.row = i /\ x.handler = source
      BY <1>7
  <2>2. x \in A
      BY <1>1, <2>1 DEF ApplyingAt, Applies
  <2> HIDE DEF passing, x
  <2>3. FirstApplies(ch, source, event, passing, q, j)
    <3>1. A # {}
        BY <2>2
    <3> HIDE DEF A
    <3> QED
        BY <1>1, <1>3, <3>1, FirstIsSelected DEF A
  <2> HIDE DEF j, q
  <2>4. j \in 1 .. Len(q) /\ z \in A /\ (x = z \/ LooksFirst(ch, z, x))
      BY <2>2, <2>3 DEF FirstApplies
  <2>5. z \in CandidateRows(ch, source, event) /\ (row(z.row).guarded => z.row = i)
      BY <1>1, <2>4 DEF ApplyingAt, Applies, passing
  <2> HIDE DEF z
  <2>6. x = z
    <3> SUFFICES ASSUME LooksFirst(ch, z, x) PROVE FALSE
        BY <2>4
    <3>1. CASE x.handler \in Aboves(ch.shape, z.handler) \ {z.handler}
      <4>1. AtOrAbove(ch.shape, source, z.handler) /\ source # z.handler
          BY <2>1, <3>1 DEF Aboves
      <4>2. AtOrAbove(ch.shape, z.handler, source)
          BY <1>8, <2>5
      <4> QED
          BY <1>4, <1>5, <4>1, <4>2, AbovesAreAChain
    <3>2. CASE z.handler = x.handler /\ z.row < x.row
      <4>1. /\ z.row \in DOMAIN d.transitions /\ row(z.row).event = event
            /\ row(z.row).from = row(i).from /\ z.row < i
          BY <1>3, <1>8, <2>1, <2>5, <3>2
      <4>2. z.row \in 1 .. i - 1 /\ ~row(z.row).guarded
          BY <1>2, <2>5, <4>1
      <4> QED
          BY <1>10, <1>11, <4>1, <4>2
    <3> QED
        BY <3>1, <3>2 DEF LooksFirst
  <2>7. j # 0 /\ z.row = i
      BY <2>1, <2>4, <2>6
  <2>8. passing \in SUBSET DOMAIN d.transitions
      BY DEF passing
  <2> QED
      BY <2>7, <2>8 DEF Selectable, j, z, q, source
<1>12. ASSUME Selectable(ch, d, i), DeadRow(d, i) PROVE FALSE
  <2>1. PICK passing \in SUBSET DOMAIN d.transitions :
              LET j == SelectTransition(ch, source, event, passing)
              IN  j # 0 /\ q[j].row = i
      BY <1>12 DEF Selectable, source
  <2> DEFINE A == ApplyingAt(ch, source, event, passing)
             j == SelectTransition(ch, source, event, passing)
             z == q[j]
  <2>2. PICK r \in 1 .. i - 1 : row(r).from = row(i).from /\ row(r).event = event /\ ~row(r).guarded
      BY <1>10, <1>12
  <2>3. r \in DOMAIN d.transitions /\ r < i /\ r \in Int /\ i \in Int
      BY <1>2
  <2> DEFINE y == [handler |-> source, row |-> r]
  <2>4. y \in CandidateRows(ch, source, event) /\ y.row = r /\ y.handler = source
      BY <1>7, <2>2, <2>3
  <2>5. y \in A
      BY <1>1, <2>2, <2>4 DEF ApplyingAt, Applies
  <2> HIDE DEF y
  <2>6. FirstApplies(ch, source, event, passing, q, j)
    <3>1. A # {}
        BY <2>5
    <3> HIDE DEF A
    <3> QED
        BY <1>1, <1>3, <3>1, FirstIsSelected DEF A
  <2>7. z.row = i
      BY <2>1
  <2> HIDE DEF j, q
  <2>8. z \in A /\ (y = z \/ LooksFirst(ch, z, y))
      BY <2>5, <2>6 DEF FirstApplies
  <2>9. z \in CandidateRows(ch, source, event)
      BY <2>8 DEF ApplyingAt
  <2> HIDE DEF z
  <2>10. z.handler = source
      BY <1>1, <1>3, <1>6, <1>8, <2>7, <2>9
  <2>11. y # z
      BY <2>3, <2>4, <2>7
  <2> QED
      BY <2>3, <2>4, <2>7, <2>8, <2>10, <2>11 DEF LooksFirst
<1> QED
    BY <1>11, <1>12 DEF ch
=============================================================================
