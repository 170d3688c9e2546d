---------------------------- MODULE InductionFacts ----------------------------
(***************************************************************************)
(* Facts about the natural numbers and about sequences that the proofs of  *)
(* the other modules cite.  They are stated with sets and functions where  *)
(* the library's induction theorems have an operator as a parameter, which *)
(* the provers can't instantiate.                                          *)
(***************************************************************************)
EXTENDS Integers, Sequences, FiniteSets, FiniteSetsExt, WellFoundedInduction,
        FiniteSetTheorems, TLAPS

-----------------------------------------------------------------------------
(* Induction *)

LEMMA LessThanOnNat ==
  /\ IsWellFoundedOn(OpToRel(<, Nat), Nat)
  /\ \A x, y \in Nat : <<y, x>> \in OpToRel(<, Nat) <=> y < x
<1>1. \A x, y \in Nat : <<y, x>> \in OpToRel(<, Nat) <=> y < x
  BY DEF OpToRel
<1> QED BY <1>1, NatLessThanWellFounded

\* Every set of natural numbers has a least element.
LEMMA LeastNatural ==
  ASSUME NEW T \in SUBSET Nat, T # {}
  PROVE  \E x \in T : \A y \in T : x <= y
<1> DEFINE R == OpToRel(<, Nat)
<1>1. IsWellFoundedOn(R, Nat) /\ \A x, y \in Nat : <<y, x>> \in R <=> y < x
  BY LessThanOnNat
<1> HIDE DEF R
<1>2. PICK x \in T : \A y \in T : ~ (<<y, x>> \in R)
  BY <1>1, WFMin
<1>3. ASSUME NEW y \in T PROVE x <= y
  <2>1. x \in Nat /\ y \in Nat /\ ~(y < x)
    BY <1>1, <1>2
  <2> QED BY <2>1
<1> QED BY <1>3

\* A set that has 0, and the number after each it has, has all.
LEMMA InductionOnNat ==
  ASSUME NEW S, 0 \in S, \A n \in Nat : n \in S => n + 1 \in S
  PROVE  \A n \in Nat : n \in S
<1> SUFFICES ASSUME Nat \ S # {} PROVE FALSE
  OBVIOUS
<1>1. PICK x \in Nat \ S : \A y \in Nat \ S : x <= y
  BY LeastNatural
<1>2. x # 0 /\ x - 1 \in Nat /\ ~(x <= x - 1) /\ x = (x - 1) + 1
  BY <1>1
<1> QED BY <1>1, <1>2

\* The same, with all the smaller numbers to start from.
LEMMA StrongInductionOnNat ==
  ASSUME NEW S, \A n \in Nat : (\A m \in Nat : m < n => m \in S) => n \in S
  PROVE  \A n \in Nat : n \in S
<1> SUFFICES ASSUME Nat \ S # {} PROVE FALSE
  OBVIOUS
<1>1. PICK x \in Nat \ S : \A y \in Nat \ S : x <= y
  BY LeastNatural
<1>2. \A m \in Nat : m < x => m \in S
  BY <1>1
<1> QED BY <1>1, <1>2

-----------------------------------------------------------------------------
(* Least and greatest elements *)

LEMMA MinIsLeast ==
  ASSUME NEW T \in SUBSET Nat, T # {}
  PROVE  Min(T) \in T /\ \A y \in T : Min(T) <= y
BY LeastNatural DEF Min

LEMMA MaxIsGreatest ==
  ASSUME NEW T \in SUBSET Nat, NEW b \in Nat, T # {}, \A y \in T : y <= b
  PROVE  Max(T) \in T /\ \A y \in T : y <= Max(T)
<1> DEFINE bounds == {x \in Nat : \A y \in T : y <= x}
<1>1. PICK x \in bounds : \A y \in bounds : x <= y
  BY LeastNatural
<1>2. x \in T
  <2> SUFFICES ASSUME x \notin T PROVE FALSE
    OBVIOUS
  <2>1. \A y \in T : y < x
    BY <1>1
  <2>2. PICK y \in T : TRUE
    OBVIOUS
  <2>3. x - 1 \in bounds
    BY <2>1, <2>2
  <2> QED BY <1>1, <2>3
<1> QED BY <1>1, <1>2 DEF Max

-----------------------------------------------------------------------------
(* Recursion *)

\* A function whose value for a number is made from that for a smaller one, next[n],
\* unless the number is one to stop at.
IsRecursion(f, Stop, base, next, step) ==
  \A n \in Nat : f[n] = IF n \in Stop THEN base[n] ELSE step[<<n, f[next[n]]>>]

LEMMA RecursionOnNat ==
  ASSUME NEW V, NEW Stop, NEW base \in [Nat -> V], NEW next \in [Nat -> Nat],
         NEW step \in [Nat \X V -> V],
         \A n \in Nat : n \notin Stop => next[n] < n
  PROVE  \E f \in [Nat -> V] : IsRecursion(f, Stop, base, next, step)
<1> DEFINE Value(g, k) == IF k \in Stop THEN base[k] ELSE step[<<k, g[next[k]]>>]
           Upto(g, n) == g \in [0 .. n -> V] /\ \A k \in 0 .. n : g[k] = Value(g, k)
           S == {n \in Nat : \E g : Upto(g, n)}
\* a value depends on the one it's made from only
<1>a. ASSUME NEW g, NEW h, NEW k \in Nat, k \notin Stop => g[next[k]] = h[next[k]]
      PROVE  Value(g, k) = Value(h, k)
  BY <1>a
<1>b. ASSUME NEW g, NEW k \in Nat, k \notin Stop => g[next[k]] \in V
      PROVE  Value(g, k) \in V
  <2>1. CASE k \in Stop
    BY <2>1
  <2>2. CASE k \notin Stop
    BY <1>b, <2>2
  <2> QED BY <2>1, <2>2
<1>c. \A k \in Nat : next[k] \in Nat
  OBVIOUS
<1> HIDE DEF Value
<1>d. ASSUME NEW n \in Nat, NEW g, Upto(g, n), NEW k \in Nat, k <= n
      PROVE  g[k] = Value(g, k) /\ g[k] \in V
  <2>1. k \in 0 .. n
    BY <1>d
  <2> QED BY <1>d, <2>1
\* two such functions agree where both are defined
<1>1. ASSUME NEW n \in Nat, NEW m \in Nat, NEW g, NEW h, Upto(g, n), Upto(h, m)
      PROVE  \A k \in Nat : k <= n /\ k <= m => g[k] = h[k]
  <2> DEFINE A == {k \in Nat : k <= n /\ k <= m => g[k] = h[k]}
  <2>1. ASSUME NEW k \in Nat, \A j \in Nat : j < k => j \in A PROVE k \in A
    <3> SUFFICES ASSUME k <= n, k <= m PROVE g[k] = h[k]
      OBVIOUS
    <3> HIDE DEF Upto
    <3>1. g[k] = Value(g, k) /\ h[k] = Value(h, k)
      BY <1>1, <1>d
    <3>2. ASSUME k \notin Stop PROVE g[next[k]] = h[next[k]]
      <4>1. next[k] \in Nat /\ next[k] < k
        BY <3>2
      <4> QED BY <2>1, <4>1
    <3> QED BY <3>1, <3>2, <1>a
  <2> HIDE DEF A
  <2>2. \A k \in Nat : k \in A
    BY <2>1, StrongInductionOnNat
  <2> QED BY <2>2 DEF A
<1>3. ASSUME NEW n \in Nat, \A m \in Nat : m < n => m \in S PROVE n \in S
  <2> DEFINE G(m) == CHOOSE g : Upto(g, m)
  <2>1. \A m \in Nat : m < n => Upto(G(m), m)
    BY <1>3
  <2> HIDE DEF G, Upto
  <2> DEFINE f == [k \in Nat |-> IF k < n THEN G(k)[k] ELSE base[k]]
  <2>f. \A k \in Nat : k < n => f[k] = G(k)[k]
    OBVIOUS
  <2> HIDE DEF f
  <2> DEFINE h == [k \in 0 .. n |-> IF k < n THEN f[k] ELSE Value(f, n)]
  <2>2. ASSUME NEW k \in Nat, k < n PROVE f[k] \in V /\ f[k] = Value(f, k)
    <3>1. Upto(G(k), k) /\ f[k] = G(k)[k]
      BY <2>1, <2>2, <2>f
    <3>2. f[k] = Value(G(k), k) /\ f[k] \in V
      BY <3>1, <1>d
    <3>3. ASSUME k \notin Stop PROVE G(k)[next[k]] = f[next[k]]
      <4>1. next[k] \in Nat /\ next[k] < k /\ next[k] < n
        BY <2>2, <3>3
      <4>2. Upto(G(next[k]), next[k]) /\ f[next[k]] = G(next[k])[next[k]]
        BY <2>1, <2>f, <4>1
      <4>3. G(next[k])[next[k]] = G(k)[next[k]]
        BY <1>1, <3>1, <4>1, <4>2
      <4> QED BY <4>2, <4>3
    <3>4. Value(G(k), k) = Value(f, k)
      BY <3>3, <1>a
    <3> QED BY <3>2, <3>4
  <2>3. Value(f, n) \in V
    BY <2>2, <1>b, <1>c
  <2>4. ASSUME NEW k \in 0 .. n PROVE h[k] \in V /\ h[k] = Value(f, k)
    <3>1. k \in Nat /\ (k < n \/ k = n)
      OBVIOUS
    <3>2. CASE k < n
      BY <3>1, <3>2, <2>2
    <3>3. CASE k = n
      BY <3>3, <2>3
    <3> QED BY <3>1, <3>2, <3>3
  <2>5. ASSUME NEW k \in 0 .. n PROVE Value(f, k) = Value(h, k)
    <3>1. ASSUME k \notin Stop PROVE f[next[k]] = h[next[k]]
      <4>1. k \in Nat
        OBVIOUS
      <4>2. next[k] \in Nat /\ next[k] < k
        BY <4>1, <3>1
      <4>3. next[k] \in 0 .. n /\ next[k] < n
        BY <4>2
      <4> QED BY <4>3
    <3>2. k \in Nat
      OBVIOUS
    <3> HIDE DEF h
    <3> QED BY <3>1, <3>2, <1>a
  <2>6. h \in [0 .. n -> V]
    <3>1. h = [k \in 0 .. n |-> h[k]]
      OBVIOUS
    <3> HIDE DEF h
    <3> QED BY <3>1, <2>4
  <2> HIDE DEF h
  <2>7. Upto(h, n)
    BY <2>4, <2>5, <2>6 DEF Upto
  <2> QED BY <2>7
<1> HIDE DEF S
<1>4. \A n \in Nat : n \in S
  BY <1>3, StrongInductionOnNat
<1> DEFINE G(n) == CHOOSE g : Upto(g, n)
           f == [n \in Nat |-> G(n)[n]]
<1>5. \A n \in Nat : Upto(G(n), n)
  BY <1>4 DEF S
<1> HIDE DEF G, Upto
<1>6. \A n \in Nat : f[n] = G(n)[n] /\ f[n] \in V
  BY <1>5, <1>d
<1>7. f \in [Nat -> V]
  BY <1>6
<1> HIDE DEF f
<1>8. ASSUME NEW n \in Nat PROVE f[n] = Value(f, n)
  <2>1. f[n] = Value(G(n), n)
    BY <1>5, <1>6, <1>d
  <2>2. ASSUME n \notin Stop PROVE G(n)[next[n]] = f[next[n]]
    <3>1. next[n] \in Nat /\ next[n] < n
      BY <2>2
    <3>2. Upto(G(next[n]), next[n]) /\ Upto(G(n), n)
      BY <1>5, <3>1
    <3>3. G(next[n])[next[n]] = G(n)[next[n]]
      BY <1>1, <3>1, <3>2
    <3> QED BY <3>1, <3>3, <1>6
  <2> QED BY <2>1, <2>2, <1>a
<1> QED BY <1>7, <1>8 DEF IsRecursion, Value

\* A function that gives each number a value made from that of the number before.
IsStepwise(f, base, step) ==
  f[0] = base /\ \A n \in Nat : f[n + 1] = step[<<n + 1, f[n]>>]

LEMMA StepwiseRecursion ==
  ASSUME NEW V, NEW base \in V, NEW step \in [Nat \X V -> V]
  PROVE  \E f \in [Nat -> V] : IsStepwise(f, base, step)
<1> DEFINE first == [n \in Nat |-> base]
           next == [n \in Nat |-> IF n = 0 THEN 0 ELSE n - 1]
<1>1. first \in [Nat -> V] /\ next \in [Nat -> Nat]
      /\ \A n \in Nat : n \notin {0} => next[n] < n
  OBVIOUS
<1>2. \A n \in Nat : first[n] = base /\ n + 1 \notin {0} /\ next[n + 1] = n
  OBVIOUS
<1> HIDE DEF first, next
<1>3. PICK f \in [Nat -> V] : IsRecursion(f, {0}, first, next, step)
  BY <1>1, RecursionOnNat
<1>4. f[0] = base
  BY <1>2, <1>3 DEF IsRecursion
<1>5. ASSUME NEW n \in Nat PROVE f[n + 1] = step[<<n + 1, f[n]>>]
  <2>1. n + 1 \in Nat
    OBVIOUS
  <2> QED BY <2>1, <1>2, <1>3 DEF IsRecursion
<1> QED BY <1>4, <1>5 DEF IsStepwise

\* The same, for the numbers to N.
IsStepwiseTo(f, N, base, step) ==
  f[0] = base /\ \A n \in 1 .. N : f[n] = step[<<n, f[n - 1]>>]

LEMMA StepwiseRecursionTo ==
  ASSUME NEW V, NEW base \in V, NEW N \in Nat, NEW step \in [(1 .. N) \X V -> V]
  PROVE  \E f \in [0 .. N -> V] : IsStepwiseTo(f, N, base, step)
<1> DEFINE all == [p \in Nat \X V |-> IF p[1] \in 1 .. N THEN step[p] ELSE base]
<1>1. all \in [Nat \X V -> V]
  <2> SUFFICES ASSUME NEW p \in Nat \X V PROVE all[p] \in V
    OBVIOUS
  <2>1. p[1] \in 1 .. N => p \in (1 .. N) \X V
    OBVIOUS
  <2> QED BY <2>1
<1>2. \A n \in 1 .. N, v \in V : all[<<n, v>>] = step[<<n, v>>]
  OBVIOUS
<1> HIDE DEF all
<1>3. PICK g \in [Nat -> V] : IsStepwise(g, base, all)
  BY <1>1, StepwiseRecursion
<1> DEFINE f == [n \in 0 .. N |-> g[n]]
<1>4. f \in [0 .. N -> V] /\ f[0] = base
  BY <1>3 DEF IsStepwise
<1>5. ASSUME NEW n \in 1 .. N PROVE f[n] = step[<<n, f[n - 1]>>]
  <2>1. n - 1 \in Nat /\ (n - 1) + 1 = n /\ n - 1 \in 0 .. N /\ n \in 0 .. N
    OBVIOUS
  <2>2. g[n] = all[<<n, g[n - 1]>>] /\ g[n - 1] \in V
    BY <2>1, <1>3 DEF IsStepwise
  <2> QED BY <2>1, <2>2, <1>2
<1> QED BY <1>4, <1>5 DEF IsStepwiseTo

\* A function whose value for a number is made from that for a greater one.
IsFromAbove(f, N, Stop, base, next, step) ==
  \A n \in 0 .. N : f[n] = IF n \in Stop THEN base[n] ELSE step[<<n, f[next[n]]>>]

LEMMA RecursionFromAbove ==
  ASSUME NEW V, NEW N \in Nat, NEW Stop, NEW base \in [0 .. N -> V],
         NEW next \in [0 .. N -> Nat], NEW step \in [(0 .. N) \X V -> V],
         \A n \in 0 .. N : n \notin Stop => n < next[n] /\ next[n] <= N
  PROVE  \E f \in [0 .. N -> V] : IsFromAbove(f, N, Stop, base, next, step)
<1> DEFINE Ends == {k \in Nat : k > N \/ N - k \in Stop}
           first == [k \in Nat |-> IF k <= N THEN base[N - k] ELSE base[0]]
           below == [k \in Nat |-> IF k \in Ends THEN 0 ELSE N - next[N - k]]
           make == [p \in Nat \X V |-> IF p[1] <= N THEN step[<<N - p[1], p[2]>>] ELSE base[0]]
<1>1. \A k \in Nat : k <= N => N - k \in 0 .. N /\ N - (N - k) = k
  OBVIOUS
<1>2. first \in [Nat -> V]
  BY <1>1
<1>3. ASSUME NEW k \in Nat, k \notin Ends PROVE N - next[N - k] \in Nat /\ N - next[N - k] < k
  <2>1. N - k \in 0 .. N /\ N - k \notin Stop
    BY <1>3
  <2>2. next[N - k] \in Nat /\ N - k < next[N - k] /\ next[N - k] <= N
    BY <2>1
  <2> QED BY <2>2
<1>4. below \in [Nat -> Nat] /\ \A k \in Nat : k \notin Ends => below[k] < k
  <2> HIDE DEF Ends
  <2> QED BY <1>3
<1>5. make \in [Nat \X V -> V]
  <2> SUFFICES ASSUME NEW p \in Nat \X V PROVE make[p] \in V
    OBVIOUS
  <2>1. p[1] \in Nat /\ p[2] \in V
    OBVIOUS
  <2>2. p[1] <= N => <<N - p[1], p[2]>> \in (0 .. N) \X V
    BY <2>1
  <2> QED BY <2>1, <2>2
<1>6. \A n \in 0 .. N : N - n \in Nat /\ N - n <= N /\ N - (N - n) = n
  OBVIOUS
<1>7. \A n \in 0 .. N : first[N - n] = base[n] /\ (N - n \in Ends <=> n \in Stop)
  BY <1>6
<1>8. \A n \in 0 .. N, v \in V : make[<<N - n, v>>] = step[<<n, v>>]
  BY <1>6
<1>9. \A n \in 0 .. N : n \notin Stop => below[N - n] = N - next[n]
  BY <1>6, <1>7
<1> HIDE DEF first, below, make, Ends
<1>10. PICK g \in [Nat -> V] : IsRecursion(g, Ends, first, below, make)
  BY <1>2, <1>4, <1>5, RecursionOnNat
<1> DEFINE f == [n \in 0 .. N |-> g[N - n]]
<1>11. f \in [0 .. N -> V]
  BY <1>6
<1>12. ASSUME NEW n \in 0 .. N, n \in Stop PROVE f[n] = base[n]
  <2>1. g[N - n] = first[N - n]
    BY <1>6, <1>7, <1>10, <1>12 DEF IsRecursion
  <2> QED BY <2>1, <1>7
<1>13. ASSUME NEW n \in 0 .. N, n \notin Stop PROVE f[n] = step[<<n, f[next[n]]>>]
  <2>1. next[n] \in 0 .. N
    BY <1>13
  <2>2. N - n \in Nat /\ N - n \notin Ends
    BY <1>6, <1>7, <1>13
  <2>3. g[N - n] = make[<<N - n, g[below[N - n]]>>]
    BY <2>2, <1>10 DEF IsRecursion
  <2>4. g[below[N - n]] = f[next[n]] /\ f[next[n]] \in V
    BY <2>1, <1>9, <1>11, <1>13
  <2> QED BY <2>3, <2>4, <1>8
<1> HIDE DEF f
<1> QED BY <1>11, <1>12, <1>13 DEF IsFromAbove
=============================================================================
