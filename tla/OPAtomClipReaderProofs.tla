------------------------ MODULE OPAtomClipReaderProofs ------------------------
(***************************************************************************)
(* Proofs about OPAtomClipReader: its tracks stay in step, its files are   *)
(* where they are to be read, its durations are right, and it implements   *)
(* Clip; for every clip, frame size, read error and size of the buffer.    *)
(***************************************************************************)
EXTENDS OPAtomClipReader, InductionFacts, SequenceTheorems

-----------------------------------------------------------------------------
(* Sums *)

\* The sums of the first of some sizes.
AreSums(f, size, n) == f = [k \in 0 .. n |-> IF k = 0 THEN 0 ELSE f[k - 1] + size[k]]

LEMMA PartialSums ==
  ASSUME NEW N \in Nat, NEW size \in [1 .. N -> Nat]
  PROVE  \E f \in [0 .. N -> Nat] :
           /\ f[0] = 0
           /\ \A p \in 1 .. N : f[p] = f[p - 1] + size[p]
           /\ \A n \in 0 .. N : /\ \E g : AreSums(g, size, n)
                                /\ \A g : AreSums(g, size, n) => g[n] = f[n]
<1> DEFINE add == [p \in (1 .. N) \X Nat |-> p[2] + size[p[1]]]
<1>1. add \in [(1 .. N) \X Nat -> Nat] /\ \A n \in 1 .. N, v \in Nat : add[<<n, v>>] = v + size[n]
  OBVIOUS
<1> HIDE DEF add
<1>2. PICK f \in [0 .. N -> Nat] : IsStepwiseTo(f, N, 0, add)
  BY <1>1, StepwiseRecursionTo
<1>3. f[0] = 0 /\ \A p \in 1 .. N : f[p] = f[p - 1] + size[p]
  <2>1. ASSUME NEW p \in 1 .. N PROVE f[p] = f[p - 1] + size[p]
    <3>1. p - 1 \in 0 .. N /\ f[p - 1] \in Nat
      OBVIOUS
    <3> QED BY <3>1, <1>1, <1>2 DEF IsStepwiseTo
  <2> QED BY <2>1, <1>2 DEF IsStepwiseTo
<1>4. ASSUME NEW n \in 0 .. N PROVE \E g : AreSums(g, size, n)
  <2> DEFINE g == [k \in 0 .. n |-> f[k]]
  <2>1. ASSUME NEW k \in 0 .. n PROVE f[k] = IF k = 0 THEN 0 ELSE g[k - 1] + size[k]
    <3>1. k # 0 => k \in 1 .. N /\ k - 1 \in 0 .. n
      OBVIOUS
    <3> QED BY <3>1, <1>3
  <2>2. AreSums(g, size, n)
    BY <2>1 DEF AreSums
  <2> QED BY <2>2
<1>5. ASSUME NEW n \in 0 .. N, NEW g, AreSums(g, size, n) PROVE g[n] = f[n]
  <2> DEFINE S == {k \in Nat : k <= n => g[k] = f[k]}
  <2>1. 0 \in S
    <3>1. 0 \in 0 .. n
      OBVIOUS
    <3> QED BY <3>1, <1>3, <1>5 DEF AreSums
  <2>2. ASSUME NEW k \in Nat, k \in S PROVE k + 1 \in S
    <3> SUFFICES ASSUME k + 1 <= n PROVE g[k + 1] = f[k + 1]
      OBVIOUS
    <3>1. k + 1 \in 0 .. n /\ k + 1 \in 1 .. N /\ (k + 1) - 1 = k /\ k + 1 # 0 /\ k <= n
      OBVIOUS
    <3>2. g[k + 1] = g[k] + size[k + 1]
      BY <3>1, <1>5 DEF AreSums
    <3> QED BY <3>1, <3>2, <2>2, <1>3
  <2> HIDE DEF S
  <2>3. \A k \in Nat : k \in S
    BY <2>1, <2>2, InductionOnNat
  <2> QED BY <2>3 DEF S
<1> QED BY <1>3, <1>4, <1>5

LEMMA SumsOfFirst ==
  ASSUME NEW s \in Seq(Nat \ {0})
  PROVE  /\ SumOfFirst(s, 0) = 0
         /\ \A n \in 0 .. Len(s) : SumOfFirst(s, n) \in Nat
         /\ \A n \in 1 .. Len(s) : SumOfFirst(s, n) = SumOfFirst(s, n - 1) + s[n]
<1> DEFINE size == [p \in 1 .. Len(s) |-> s[p]]
<1>1. Len(s) \in Nat /\ \A p \in 1 .. Len(s) : s[p] \in Nat
  BY LenProperties, ElementOfSeq
<1>2. size \in [1 .. Len(s) -> Nat]
  BY <1>1
<1>3. PICK f \in [0 .. Len(s) -> Nat] :
        /\ f[0] = 0
        /\ \A p \in 1 .. Len(s) : f[p] = f[p - 1] + size[p]
        /\ \A n \in 0 .. Len(s) : /\ \E g : AreSums(g, size, n)
                                  /\ \A g : AreSums(g, size, n) => g[n] = f[n]
  <2> HIDE DEF size
  <2> QED BY <1>1, <1>2, PartialSums
<1>4. ASSUME NEW n \in 0 .. Len(s) PROVE SumOfFirst(s, n) = f[n]
  <2> DEFINE Is(g) == g = [k \in 0 .. n |-> IF k = 0 THEN 0 ELSE g[k - 1] + s[k]]
             sum == CHOOSE g : Is(g)
  <2>1. ASSUME NEW g PROVE Is(g) <=> AreSums(g, size, n)
    <3>1. \A k \in 0 .. n : k # 0 => k \in 1 .. Len(s)
      OBVIOUS
    <3>2. [k \in 0 .. n |-> IF k = 0 THEN 0 ELSE g[k - 1] + s[k]]
            = [k \in 0 .. n |-> IF k = 0 THEN 0 ELSE g[k - 1] + size[k]]
      BY <3>1
    <3> QED BY <3>2 DEF AreSums
  <2>2. SumOfFirst(s, n) = sum[n]
    BY DEF SumOfFirst
  <2> HIDE DEF Is, size
  <2>3. \E g : Is(g)
    BY <2>1, <1>3
  <2>4. Is(sum)
    BY <2>3
  <2> HIDE DEF sum
  <2> QED BY <2>1, <2>2, <2>4, <1>3
<1>5. ASSUME NEW n \in 1 .. Len(s) PROVE SumOfFirst(s, n) = SumOfFirst(s, n - 1) + s[n]
  <2>1. n \in 0 .. Len(s) /\ n - 1 \in 0 .. Len(s)
    OBVIOUS
  <2> QED BY <2>1, <1>3, <1>4
<1>6. 0 \in 0 .. Len(s)
  BY <1>1
<1> QED BY <1>3, <1>4, <1>5, <1>6

LEMMA OffsetsOf ==
  ASSUME NEW e, NEW N \in Nat, \A p \in 0 .. N - 1 : FrameSize(e, p) \in Nat
  PROVE  /\ OffsetOf(e, 0) = 0
         /\ \A n \in 0 .. N : OffsetOf(e, n) \in Nat
         /\ \A n \in 0 .. N - 1 : OffsetOf(e, n + 1) = OffsetOf(e, n) + FrameSize(e, n)
<1> DEFINE size == [p \in 1 .. N |-> FrameSize(e, p - 1)]
<1>2. size \in [1 .. N -> Nat]
  <2>1. \A p \in 1 .. N : p - 1 \in 0 .. N - 1
    OBVIOUS
  <2> QED BY <2>1
<1>3. PICK f \in [0 .. N -> Nat] :
        /\ f[0] = 0
        /\ \A p \in 1 .. N : f[p] = f[p - 1] + size[p]
        /\ \A n \in 0 .. N : /\ \E g : AreSums(g, size, n)
                             /\ \A g : AreSums(g, size, n) => g[n] = f[n]
  <2> HIDE DEF size
  <2> QED BY <1>2, PartialSums
<1>4. ASSUME NEW n \in 0 .. N PROVE OffsetOf(e, n) = f[n]
  <2> DEFINE Is(g) == g = [k \in 0 .. n |-> IF k = 0 THEN 0 ELSE g[k - 1] + FrameSize(e, k - 1)]
             offset == CHOOSE g : Is(g)
  <2>1. ASSUME NEW g PROVE Is(g) <=> AreSums(g, size, n)
    <3>1. \A k \in 0 .. n : k # 0 => k \in 1 .. N
      OBVIOUS
    <3>2. [k \in 0 .. n |-> IF k = 0 THEN 0 ELSE g[k - 1] + FrameSize(e, k - 1)]
            = [k \in 0 .. n |-> IF k = 0 THEN 0 ELSE g[k - 1] + size[k]]
      BY <3>1
    <3> QED BY <3>2 DEF AreSums
  <2>2. OffsetOf(e, n) = offset[n]
    BY DEF OffsetOf
  <2> HIDE DEF Is, size
  <2>3. \E g : Is(g)
    BY <2>1, <1>3
  <2>4. Is(offset)
    BY <2>3
  <2> HIDE DEF offset
  <2> QED BY <2>1, <2>2, <2>4, <1>3
<1>5. ASSUME NEW n \in 0 .. N - 1 PROVE OffsetOf(e, n + 1) = OffsetOf(e, n) + FrameSize(e, n)
  <2>1. n \in 0 .. N /\ n + 1 \in 1 .. N /\ n + 1 \in 0 .. N /\ (n + 1) - 1 = n
    OBVIOUS
  <2>2. f[n + 1] = f[n] + size[n + 1] /\ size[n + 1] = FrameSize(e, n)
    BY <2>1, <1>3
  <2> HIDE DEF size
  <2> QED BY <2>1, <2>2, <1>4
<1>6. 0 \in 0 .. N
  OBVIOUS
<1> HIDE DEF size
<1> QED BY <1>3, <1>4, <1>5, <1>6


-----------------------------------------------------------------------------
(* Division *)

LEMMA DivisionIs ==
  ASSUME NEW a \in Nat, NEW n \in Nat \ {0}
  PROVE  a \div n \in Nat /\ a % n \in 0 .. n - 1 /\ a = n * (a \div n) + (a % n)
OBVIOUS

\* The quotient and the remainder are the only ones there are.
LEMMA Division ==
  ASSUME NEW n \in Nat \ {0}, NEW q \in Nat, NEW r \in 0 .. n - 1, NEW a \in Nat, a = n * q + r
  PROVE  a \div n = q /\ a % n = r
<1>1. PICK p \in Nat, s \in 0 .. n - 1 : p = a \div n /\ s = a % n /\ a = n * p + s
  BY DivisionIs
<1>2. n * (q - p) = s - r
  BY <1>1
<1>3. q - p < 1
  <2> SUFFICES ASSUME q - p >= 1 PROVE FALSE
    OBVIOUS
  <2>1. n * (q - p) >= n
    OBVIOUS
  <2> QED BY <2>1, <1>2
<1>4. p - q < 1
  <2> SUFFICES ASSUME p - q >= 1 PROVE FALSE
    OBVIOUS
  <2>1. n * (p - q) >= n
    OBVIOUS
  <2>2. n * (p - q) = r - s
    BY <1>1
  <2> QED BY <2>1, <2>2
<1>5. p = q
  BY <1>3, <1>4
<1>6. s = r
  BY <1>5, <1>1
<1> QED BY <1>1, <1>5, <1>6


-----------------------------------------------------------------------------
(* Offsets *)

\* The positions that an essence has an offset for, and what it has of the file.
Positions(e) == IF e.kind = "sized" THEN Nat ELSE 0 .. Len(e.sizes)
Extent(e) == IF e.kind = "sized" THEN EssenceLength(e) ELSE e.units

LEMMA FrameSizes ==
  ASSUME NEW e, WellFormed(e), NEW p \in Nat, p + 1 \in Positions(e)
  PROVE  FrameSize(e, p) \in Nat \ {0}
<1>1. e.sizes \in Seq(Nat \ {0}) /\ Len(e.sizes) \in Nat
  BY LenProperties DEF WellFormed
<1>2. Len(e.sizes) > 0
  <2>1. CASE e.kind = "sized"
    <3>1. e.sizes # <<>>
      BY <2>1 DEF WellFormed
    <3> QED BY <3>1, <1>1, EmptySeq
  <2>2. CASE e.kind # "sized"
    BY <1>1, <2>2 DEF Positions
  <2> QED BY <2>1, <2>2
<1>3. (p % Len(e.sizes)) + 1 \in 1 .. Len(e.sizes)
  <2>1. \A n \in Nat \ {0} : (p % n) + 1 \in 1 .. n
    OBVIOUS
  <2>2. Len(e.sizes) \in Nat \ {0}
    BY <1>1, <1>2
  <2> HIDE <1>1
  <2> QED BY <2>1, <2>2, Zenon
<1> QED BY <1>1, <1>3, ElementOfSeq DEF FrameSize

LEMMA OffsetIsSum ==
  ASSUME NEW e, WellFormed(e), NEW p \in Nat, p \in Positions(e)
  PROVE  /\ OffsetOf(e, 0) = 0
         /\ OffsetOf(e, p) \in Nat
         /\ p + 1 \in Positions(e) =>
              /\ FrameSize(e, p) \in Nat \ {0}
              /\ OffsetOf(e, p + 1) \in Nat
              /\ OffsetOf(e, p + 1) = OffsetOf(e, p) + FrameSize(e, p)
<1>1. Len(e.sizes) \in Nat
  BY LenProperties DEF WellFormed
<1>2. ASSUME NEW n \in Nat, n \in Positions(e), NEW q \in 0 .. n - 1
      PROVE  FrameSize(e, q) \in Nat
  <2>1. q \in Nat /\ q + 1 \in Positions(e)
    BY <1>1, <1>2 DEF Positions
  <2> QED BY <2>1, FrameSizes
<1>3. /\ OffsetOf(e, 0) = 0
      /\ OffsetOf(e, p) \in Nat
  <2>1. \A q \in 0 .. p - 1 : FrameSize(e, q) \in Nat
    BY <1>2
  <2>2. p \in 0 .. p
    OBVIOUS
  <2> QED BY <2>1, <2>2, OffsetsOf
<1>4. ASSUME p + 1 \in Positions(e)
      PROVE  /\ OffsetOf(e, p + 1) \in Nat
             /\ OffsetOf(e, p + 1) = OffsetOf(e, p) + FrameSize(e, p)
  <2>1. \A q \in 0 .. (p + 1) - 1 : FrameSize(e, q) \in Nat
    BY <1>2, <1>4
  <2>2. p + 1 \in 0 .. p + 1 /\ p \in 0 .. (p + 1) - 1 /\ p + 1 \in Nat
    OBVIOUS
  <2> QED BY <2>1, <2>2, OffsetsOf
<1> QED BY <1>3, <1>4, FrameSizes

\* Frames are one after the other, and none is empty.
LEMMA OffsetsGrow ==
  ASSUME NEW e, WellFormed(e), NEW p \in Nat, NEW q \in Nat, q \in Positions(e), p <= q
  PROVE  /\ p \in Positions(e)
         /\ OffsetOf(e, p) \in Nat /\ OffsetOf(e, q) \in Nat
         /\ p < q => OffsetOf(e, p) < OffsetOf(e, q)
         /\ OffsetOf(e, q) >= q
         /\ q - p <= OffsetOf(e, q) - OffsetOf(e, p)
<1>1. Len(e.sizes) \in Nat
  BY LenProperties DEF WellFormed
<1> DEFINE S == {n \in Nat : p + n \in Positions(e) => OffsetOf(e, p + n) >= OffsetOf(e, p) + n}
<1>a. p \in Positions(e)
  BY <1>1 DEF Positions
<1>b. OffsetOf(e, 0) = 0 /\ OffsetOf(e, p) \in Nat /\ OffsetOf(e, q) \in Nat
  BY <1>a, OffsetIsSum
<1>2. 0 \in S
  <2>1. p + 0 = p
    OBVIOUS
  <2> QED BY <2>1, <1>b
<1>3. ASSUME NEW n \in Nat, n \in S PROVE n + 1 \in S
  <2> SUFFICES ASSUME p + (n + 1) \in Positions(e)
               PROVE  OffsetOf(e, p + (n + 1)) >= OffsetOf(e, p) + (n + 1)
    OBVIOUS
  <2> DEFINE m == p + n
  <2>1. m \in Nat /\ p + (n + 1) = m + 1
    OBVIOUS
  <2>2. m \in Positions(e) /\ m + 1 \in Positions(e)
    BY <2>1, <1>1 DEF Positions
  <2>3. OffsetOf(e, m) >= OffsetOf(e, p) + n
    BY <2>2, <1>3
  <2> HIDE DEF m
  <2>4. OffsetOf(e, m) \in Nat /\ OffsetOf(e, m + 1) \in Nat /\ FrameSize(e, m) \in Nat \ {0}
        /\ OffsetOf(e, m + 1) = OffsetOf(e, m) + FrameSize(e, m)
    BY <2>1, <2>2, OffsetIsSum
  <2>5. OffsetOf(e, m + 1) >= OffsetOf(e, p) + (n + 1)
    BY <2>3, <2>4, <1>b
  <2> QED BY <2>5, <2>1
<1> HIDE DEF S
<1>4. \A n \in Nat : n \in S
  BY <1>2, <1>3, InductionOnNat
<1>5. OffsetOf(e, q) >= OffsetOf(e, p) + (q - p)
  <2>1. q - p \in Nat /\ p + (q - p) = q
    OBVIOUS
  <2> QED BY <2>1, <1>4 DEF S
<1> DEFINE T == {n \in Nat : n \in Positions(e) => OffsetOf(e, n) >= n}
<1>6. 0 \in T
  BY <1>b
<1>7. ASSUME NEW n \in Nat, n \in T PROVE n + 1 \in T
  <2> SUFFICES ASSUME n + 1 \in Positions(e) PROVE OffsetOf(e, n + 1) >= n + 1
    OBVIOUS
  <2>1. n \in Positions(e)
    BY <1>1 DEF Positions
  <2>2. OffsetOf(e, n) \in Nat /\ FrameSize(e, n) \in Nat \ {0}
        /\ OffsetOf(e, n + 1) = OffsetOf(e, n) + FrameSize(e, n)
    BY <2>1, OffsetIsSum
  <2>3. OffsetOf(e, n) >= n
    BY <2>1, <1>7
  <2> QED BY <2>2, <2>3
<1> HIDE DEF T
<1>8. \A n \in Nat : n \in T
  BY <1>6, <1>7, InductionOnNat
<1>9. OffsetOf(e, q) >= q
  BY <1>8 DEF T
<1> QED BY <1>a, <1>b, <1>5, <1>9

LEMMA Extents ==
  ASSUME NEW e, WellFormed(e)
  PROVE  Extent(e) \in Nat /\ Extent(e) <= e.units /\ (e.kind = "variable" => Extent(e) = e.units)
BY DEF Extent, EssenceLength, WellFormed

\* The number of whole frames: the last offset that's in the essence.
LEMMA FramesAre ==
  ASSUME NEW e \in Essences, WellFormed(e)
  PROVE  /\ FramesIn[e] \in Nat /\ FramesIn[e] \in Positions(e)
         /\ OffsetOf(e, FramesIn[e]) <= Extent(e)
         /\ \A p \in Nat : p \in Positions(e) /\ OffsetOf(e, p) <= Extent(e) => p <= FramesIn[e]
<1> DEFINE bound == IF e.kind = "sized" THEN EssenceLength(e) ELSE Len(e.sizes)
           T == {n \in 0 .. bound : OffsetOf(e, n) <= Extent(e)}
<1>1. Len(e.sizes) \in Nat
  BY LenProperties DEF WellFormed
<1>2. bound \in Nat
  BY <1>1, Extents DEF Extent
<1>3. FramesIn[e] = Max(T)
  BY DEF FramesIn, Extent
<1>4. 0 \in T
  <2>1. 0 \in Positions(e)
    BY <1>1 DEF Positions
  <2> QED BY <2>1, <1>2, OffsetIsSum, Extents
<1> HIDE DEF bound
<1>5. T \in SUBSET Nat /\ T # {} /\ \A y \in T : y <= bound
  BY <1>2, <1>4
<1> HIDE DEF T
<1>6. Max(T) \in T /\ \A y \in T : y <= Max(T)
  BY <1>2, <1>5, MaxIsGreatest
<1>7. \A n \in 0 .. bound : n \in Nat /\ n \in Positions(e)
  BY <1>1, <1>2 DEF bound, Positions
<1>8. ASSUME NEW p \in Nat, p \in Positions(e), OffsetOf(e, p) <= Extent(e) PROVE p \in T
  <2>1. p <= bound
    <3>1. CASE e.kind = "sized"
      <4>1. OffsetOf(e, p) >= p /\ OffsetOf(e, p) \in Nat
        BY <1>8, OffsetsGrow
      <4>2. Extent(e) = bound
        BY <3>1 DEF Extent, bound
      <4> QED BY <4>1, <4>2, <1>8, <1>2
    <3>2. CASE e.kind # "sized"
      BY <3>2, <1>8, <1>1 DEF Positions, bound
    <3> QED BY <3>1, <3>2
  <2> QED BY <2>1, <1>8, <1>2 DEF T
<1>9. FramesIn[e] \in Nat /\ FramesIn[e] \in Positions(e) /\ OffsetOf(e, FramesIn[e]) <= Extent(e)
  BY <1>3, <1>6, <1>7 DEF T
<1>10. \A p \in Nat : p \in Positions(e) /\ OffsetOf(e, p) <= Extent(e) => p <= FramesIn[e]
  BY <1>3, <1>6, <1>8
<1> QED BY <1>9, <1>10


Splits(a, n, q, r) ==
  /\ n \in Nat \ {0} /\ q \in Nat /\ r \in 0 .. n - 1 /\ a \in Nat
  /\ a = n * q + r

LEMMA DivisionOf ==
  ASSUME NEW a, NEW n, NEW q, NEW r, Splits(a, n, q, r)
  PROVE  a \div n = q /\ a % n = r
BY Division DEF Splits

\* The sizes repeat: what SizedSeek computes is where the frame is.
LEMMA SizedOffsets ==
  ASSUME NEW e, WellFormed(e), e.kind = "sized", NEW p \in Nat
  PROVE  /\ e.sizes \in Seq(Nat \ {0})
         /\ Len(e.sizes) \in Nat \ {0}
         /\ SumOf(e.sizes) \in Nat \ {0}
         /\ OffsetOf(e, p) = (p \div Len(e.sizes)) * SumOf(e.sizes)
                               + SumOfFirst(e.sizes, p % Len(e.sizes))
<1> DEFINE n == Len(e.sizes)
           sum == SumOf(e.sizes)
           first(i) == SumOfFirst(e.sizes, i)
           S == {a \in Nat : OffsetOf(e, a) = (a \div n) * sum + first(a % n)}
<1>1. e.sizes \in Seq(Nat \ {0}) /\ n \in Nat \ {0}
  <2>1. e.sizes \in Seq(Nat \ {0}) /\ e.sizes # <<>>
    BY DEF WellFormed
  <2> QED BY <2>1, LenProperties, EmptySeq
<1>2. /\ first(0) = 0 /\ sum = first(n)
      /\ \A i \in 0 .. n : first(i) \in Nat
      /\ \A i \in 1 .. n : first(i) = first(i - 1) + e.sizes[i]
  BY <1>1, SumsOfFirst DEF SumOf
<1>3. \A a \in Nat : a \in Positions(e)
  BY DEF Positions
<1>4. \A a \in Nat : FrameSize(e, a) = e.sizes[(a % n) + 1]
  BY DEF FrameSize
<1>5. \A i \in 1 .. n : e.sizes[i] \in Nat \ {0}
  BY <1>1, ElementOfSeq
<1> HIDE DEF n, sum, first
<1>6. 0 \in S
  <2>1. 0 \div n = 0 /\ 0 % n = 0
    BY <1>1, Division
  <2>2. OffsetOf(e, 0) = 0
    BY <1>3, OffsetIsSum
  <2>3. n \in 0 .. n /\ sum \in Nat
    BY <1>1, <1>2
  <2> QED BY <2>1, <2>2, <2>3, <1>2
<1>7. ASSUME NEW a \in Nat, a \in S PROVE a + 1 \in S
  <2>1. PICK q \in Nat, r \in 0 .. n - 1 : q = a \div n /\ r = a % n /\ a = n * q + r
    BY <1>1, DivisionIs
  <2>2. OffsetOf(e, a) = q * sum + first(r)
    BY <2>1, <1>7
  <2>3. OffsetOf(e, a + 1) = OffsetOf(e, a) + e.sizes[r + 1]
    BY <2>1, <1>3, <1>4, OffsetIsSum
  <2>4. first(r + 1) = first(r) + e.sizes[r + 1] /\ first(r) \in Nat /\ e.sizes[r + 1] \in Nat
    <3>1. r + 1 \in 1 .. n /\ (r + 1) - 1 = r /\ r \in 0 .. n
      BY <1>1
    <3> QED BY <3>1, <1>2, <1>5
  <2>5. q * sum \in Nat /\ sum \in Nat
    <3>1. n \in 0 .. n
      BY <1>1
    <3>2. sum \in Nat
      BY <3>1, <1>2
    <3> QED BY <3>2
  <2>6. OffsetOf(e, a + 1) = q * sum + first(r + 1)
    <3>1. \A x, y, z \in Nat : (x + y) + z = x + (y + z)
      OBVIOUS
    <3> QED BY <3>1, <2>2, <2>3, <2>4, <2>5
  <2>7. CASE r + 1 < n
    <3>1. r + 1 \in 0 .. n - 1 /\ a + 1 = n * q + (r + 1) /\ a + 1 \in Nat
      BY <2>1, <2>7, <1>1
    <3>2. Splits(a + 1, n, q, r + 1)
      BY <3>1, <1>1 DEF Splits
    <3>3. (a + 1) \div n = q /\ (a + 1) % n = r + 1
      BY <3>2, DivisionOf
    <3> QED BY <3>1, <3>3, <2>6
  <2>8. CASE r + 1 = n
    <3>1. 0 \in 0 .. n - 1 /\ a + 1 = n * (q + 1) + 0 /\ a + 1 \in Nat /\ q + 1 \in Nat
      BY <2>1, <2>8, <1>1
    <3>a. Splits(a + 1, n, q + 1, 0)
      BY <3>1, <1>1 DEF Splits
    <3>2. (a + 1) \div n = q + 1 /\ (a + 1) % n = 0
      BY <3>a, DivisionOf
    <3>3. q * sum + sum = (q + 1) * sum
      BY <2>5
    <3>4. OffsetOf(e, a + 1) = (q + 1) * sum
      BY <2>6, <2>8, <1>2, <3>3
    <3>5. (q + 1) * sum + 0 = (q + 1) * sum
      BY <2>5
    <3> QED BY <3>1, <3>2, <3>4, <3>5, <1>2
  <2> QED BY <2>7, <2>8, <1>1
<1> HIDE DEF S
<1>8. \A a \in Nat : a \in S
  BY <1>6, <1>7, InductionOnNat
<1>9. sum \in Nat \ {0}
  <2>1. n \in 0 .. n /\ 0 \in 0 .. n - 1 /\ n = n * 1 + 0 /\ n \in Nat
    BY <1>1
  <2>2. n \div n = 1 /\ n % n = 0
    BY <2>1, <1>1, Division
  <2>3. sum \in Nat
    BY <2>1, <1>2
  <2>4. OffsetOf(e, n) = 1 * sum + 0
    BY <2>1, <2>2, <1>2, <1>8 DEF S
  <2>5. OffsetOf(e, n) >= n
    BY <2>1, <1>3, OffsetsGrow
  <2> QED BY <2>3, <2>4, <2>5, <1>1
<1> QED BY <1>1, <1>8, <1>9 DEF S, n, sum, first

\* SizedDuration counts the whole frames.
LEMMA SizedDurations ==
  ASSUME NEW e \in Essences, WellFormed(e), e.kind = "sized"
  PROVE  SizedDuration(e) = FramesIn[e]
<1> DEFINE n == Len(e.sizes)
           sum == SumOf(e.sizes)
           first(i) == SumOfFirst(e.sizes, i)
           length == EssenceLength(e)
           quotient == length \div sum
           remainder == length % sum
           rest == length - (((n * quotient) * sum) \div n)
           T == {i \in 0 .. n : first(i) <= rest}
           D == n * quotient + Max(T)
<1>1. /\ e.sizes \in Seq(Nat \ {0}) /\ n \in Nat \ {0} /\ sum \in Nat \ {0}
      /\ \A p \in Nat : OffsetOf(e, p) = (p \div n) * sum + first(p % n)
  <2>1. 0 \in Nat
    OBVIOUS
  <2> QED BY <2>1, SizedOffsets
<1>2. /\ first(0) = 0 /\ sum = first(n)
      /\ \A i \in 0 .. n : first(i) \in Nat
      /\ \A i \in 1 .. n : first(i) = first(i - 1) + e.sizes[i]
  BY <1>1, SumsOfFirst DEF SumOf
<1>3. length \in Nat /\ length = Extent(e)
  BY Extents DEF Extent
<1>4. SizedDuration(e) = D
  BY DEF SizedDuration
<1>5. \A p \in Nat : p \in Positions(e)
  BY DEF Positions
<1>6. \A p \in Nat : FrameSize(e, p) = e.sizes[(p % n) + 1]
  BY DEF FrameSize
<1> HIDE DEF n, sum, first, length
<1>7. quotient \in Nat /\ remainder \in 0 .. sum - 1 /\ length = sum * quotient + remainder
  BY <1>1, <1>3, DivisionIs
<1> HIDE DEF quotient, remainder
<1>8. rest = remainder
  <2>1. (n * quotient) * sum = n * (quotient * sum) + 0 /\ quotient * sum \in Nat
        /\ (n * quotient) * sum \in Nat /\ 0 \in 0 .. n - 1
    BY <1>1, <1>7
  <2>a. Splits((n * quotient) * sum, n, quotient * sum, 0)
    BY <2>1, <1>1 DEF Splits
  <2>2. ((n * quotient) * sum) \div n = quotient * sum
    BY <2>a, DivisionOf
  <2>3. length - quotient * sum = remainder
    BY <1>1, <1>7, <1>3
  <2> QED BY <2>2, <2>3
<1> HIDE DEF rest
<1>9. Max(T) \in T /\ \A i \in T : i <= Max(T)
  <2>1. 0 \in T
    BY <1>1, <1>2, <1>7, <1>8
  <2>2. T \in SUBSET Nat /\ \A y \in T : y <= n
    BY <1>1
  <2> HIDE DEF T
  <2>3. n \in Nat
    BY <1>1
  <2> QED BY <2>1, <2>2, <2>3, MaxIsGreatest
<1> DEFINE I == Max(T)
<1>10. I \in 0 .. n /\ first(I) <= rest /\ \A i \in 0 .. n : first(i) <= rest => i <= I
  BY <1>9
<1> HIDE DEF I
<1>11. I \in 0 .. n - 1
  <2>1. I # n
    <3>1. sum \in Nat /\ remainder \in Nat /\ remainder < sum
      BY <1>7, <1>1
    <3>2. ~(sum <= remainder)
      BY <3>1
    <3> QED BY <3>2, <1>10, <1>8, <1>2
  <2> QED BY <2>1, <1>10, <1>1
<1>12. D = n * quotient + I /\ D \in Nat
  <2>1. \A x, y \in Nat : \A z \in 0 .. x - 1 : x * y + z \in Nat
    OBVIOUS
  <2>2. D = n * quotient + I
    BY DEF I
  <2> HIDE DEF D
  <2> QED BY <2>1, <2>2, <1>11, <1>7, <1>1
<1> HIDE DEF D
<1>13. D \div n = quotient /\ D % n = I
  <2>1. Splits(D, n, quotient, I)
    BY <1>11, <1>12, <1>7, <1>1 DEF Splits
  <2> QED BY <2>1, DivisionOf
<1>14. quotient * sum \in Nat /\ quotient * sum + remainder = length
  BY <1>7, <1>1
<1>15. OffsetOf(e, D) = quotient * sum + first(I) /\ first(I) \in Nat
  BY <1>12, <1>13, <1>1, <1>10, <1>2
<1>16. first(I + 1) = first(I) + e.sizes[I + 1] /\ first(I + 1) \in Nat /\ first(I + 1) > rest
  <2>1. I + 1 \in 1 .. n /\ I + 1 \in 0 .. n /\ (I + 1) - 1 = I /\ ~(I + 1 <= I)
    BY <1>11, <1>1
  <2>2. first(I + 1) \in Nat /\ ~(first(I + 1) <= rest)
    BY <2>1, <1>10, <1>2
  <2>3. rest \in Nat
    BY <1>8, <1>7
  <2> QED BY <2>1, <2>2, <2>3, <1>2
<1>17. OffsetOf(e, D + 1) = OffsetOf(e, D) + e.sizes[I + 1] /\ e.sizes[I + 1] \in Nat
  <2>1. I + 1 \in 1 .. n
    BY <1>11, <1>1
  <2>2. e.sizes[I + 1] \in Nat
    BY <2>1, <1>1, ElementOfSeq DEF n
  <2>3. D + 1 \in Nat
    BY <1>12
  <2> QED BY <2>2, <2>3, <1>12, <1>13, <1>5, <1>6, OffsetIsSum
<1>18. OffsetOf(e, D) <= length
  BY <1>15, <1>14, <1>10, <1>8, <1>7
<1>19. OffsetOf(e, D + 1) > length
  BY <1>17, <1>16, <1>15, <1>14, <1>8, <1>7
<1>20. D <= FramesIn[e]
  BY <1>18, <1>12, <1>5, <1>3, FramesAre
<1>21. ~(D + 1 <= FramesIn[e])
  <2> SUFFICES ASSUME D + 1 <= FramesIn[e] PROVE FALSE
    OBVIOUS
  <2>1. FramesIn[e] \in Nat /\ OffsetOf(e, FramesIn[e]) <= length /\ D + 1 \in Nat
    BY FramesAre, <1>3, <1>12
  <2>2. OffsetOf(e, D + 1) \in Nat /\ OffsetOf(e, FramesIn[e]) \in Nat
        /\ (D + 1 < FramesIn[e] => OffsetOf(e, D + 1) < OffsetOf(e, FramesIn[e]))
    BY <2>1, <1>5, OffsetsGrow
  <2> QED BY <2>1, <2>2, <1>19, <1>3
<1> QED BY <1>4, <1>12, <1>20, <1>21, FramesAre


-----------------------------------------------------------------------------
(* Tracks *)

Tracks ==
  [essence : Essences, filePos : Nat, position : Nat, duration : Nat \cup {-1},
   essenceOffset : Nat, offsets : Seq(Nat) \ {<<>>}, complete : BOOLEAN,
   bufferFrom : Nat, buffered : 0 .. Chunk]

\* An index has the true offsets of frames that are all in the file, and is
\* complete when the duration is known.
Indexed(t) ==
  /\ t.offsets = [k \in 1 .. Len(t.offsets) |-> OffsetOf(t.essence, k - 1)]
  /\ LastIndexed(t) \in 0 .. Len(t.essence.sizes)
  /\ OffsetOf(t.essence, LastIndexed(t)) <= t.essence.units
  /\ t.complete <=> t.duration >= 0
  /\ t.duration <= LastIndexed(t)

\* What no call disturbs, not even one that fails half way.
Kept(t) ==
  /\ t \in Tracks
  /\ WellFormed(t.essence)
  /\ t.essence.kind = "sized" =>
       t.duration >= 0 /\ t.duration <= FramesIn[t.essence] /\ t.buffered = 0
  /\ t.essence.kind = "variable" => Indexed(t)

\* How far a track can be sought without looking into its file.
Reach(t) == IF t.duration >= 0 THEN t.duration ELSE LastIndexed(t)

AtFrame(t) ==
  /\ ParsePos(t) = t.essence.start + OffsetOf(t.essence, t.position)
  /\ t.essenceOffset = OffsetOf(t.essence, t.position)

\* A track between two calls of the clip.
Placed(t) ==
  /\ t.position <= Reach(t)
  /\ t.essence.kind = "variable" => t.filePos <= End(t.essence)
  /\ t.buffered > 0 => t.bufferFrom + t.buffered = t.filePos
  /\ ~IsEOF(t) => AtFrame(t)

TrackOK(t) == Kept(t) /\ Placed(t)

\* A track that a seek takes back to position p, or that is there already.
CanReturn(t, p) ==
  /\ Kept(t)
  /\ p \in 0 .. Reach(t)
  /\ p = t.duration => TrackOK(t) /\ t.position = p

\* Two tracks with the same frames.
SameFrames(t, u) ==
  /\ u.essence = t.essence
  /\ u.duration = t.duration
  /\ u.offsets = t.offsets
  /\ u.complete = t.complete

LEMMA KindOf ==
  ASSUME NEW t, Kept(t)
  PROVE  t.essence.kind = "sized" \/ t.essence.kind = "variable"
BY DEF Kept, WellFormed

LEMMA TrackFields ==
  ASSUME NEW t \in Tracks
  PROVE  /\ t.essence \in Essences /\ t.filePos \in Nat /\ t.position \in Nat
         /\ t.duration \in Nat \cup {-1} /\ t.essenceOffset \in Nat
         /\ t.offsets \in Seq(Nat) /\ t.offsets # <<>>
         /\ t.complete \in BOOLEAN /\ t.bufferFrom \in Nat /\ t.buffered \in 0 .. Chunk
         /\ Len(t.offsets) \in Nat /\ LastIndexed(t) \in Int /\ Reach(t) \in Int
<1>1. t.offsets \in Seq(Nat) /\ t.duration \in Nat \cup {-1}
  BY DEF Tracks
<1>2. Len(t.offsets) \in Nat
  BY <1>1, LenProperties
<1> QED BY <1>1, <1>2 DEF Tracks, LastIndexed, Reach

LEMMA IndexFacts ==
  ASSUME NEW t, Kept(t), t.essence.kind = "variable"
  PROVE  /\ LastIndexed(t) \in Nat /\ LastIndexed(t) \in Positions(t.essence)
         /\ \A p \in 0 .. LastIndexed(t) :
              /\ p \in Nat /\ p \in Positions(t.essence)
              /\ GetFrameOffset(t, p) = OffsetOf(t.essence, p)
              /\ OffsetOf(t.essence, p) \in Nat
              /\ OffsetOf(t.essence, p) <= t.essence.units
              /\ p <= FramesIn[t.essence]
         /\ Last(t.offsets) = OffsetOf(t.essence, LastIndexed(t))
         /\ \A p \in Nat : HaveFrameOffset(t, p) <=> p <= LastIndexed(t)
         /\ Reach(t) \in Nat /\ Reach(t) <= LastIndexed(t)
<1> DEFINE e == t.essence
<1>1. t \in Tracks /\ WellFormed(e) /\ Indexed(t) /\ e \in Essences /\ t.duration \in Nat \cup {-1}
  BY TrackFields DEF Kept
<1>2. e.sizes \in Seq(Nat \ {0}) /\ Len(e.sizes) \in Nat /\ e.units \in Nat
  BY <1>1, LenProperties DEF WellFormed
<1>3. LastIndexed(t) \in 0 .. Len(e.sizes) /\ Len(t.offsets) \in Nat
      /\ LastIndexed(t) = Len(t.offsets) - 1
  BY <1>1, TrackFields DEF Indexed, LastIndexed
<1>4. LastIndexed(t) \in Nat /\ LastIndexed(t) \in Positions(e)
  BY <1>2, <1>3 DEF Positions
<1>5. ASSUME NEW p \in 0 .. LastIndexed(t)
      PROVE  /\ p \in Nat /\ p \in Positions(e)
             /\ GetFrameOffset(t, p) = OffsetOf(e, p)
             /\ OffsetOf(e, p) \in Nat
             /\ OffsetOf(e, p) <= e.units
             /\ p <= FramesIn[e]
  <2>1. p \in Nat /\ p <= LastIndexed(t)
    BY <1>4
  <2>2. /\ p \in Positions(e)
        /\ OffsetOf(e, p) \in Nat /\ OffsetOf(e, LastIndexed(t)) \in Nat
        /\ p < LastIndexed(t) => OffsetOf(e, p) < OffsetOf(e, LastIndexed(t))
    BY <1>1, <1>4, <2>1, OffsetsGrow
  <2>3. OffsetOf(e, LastIndexed(t)) <= e.units
    BY <1>1 DEF Indexed
  <2>4. OffsetOf(e, p) <= e.units
    BY <2>1, <2>2, <2>3, <1>2, <1>4
  <2>5. p + 1 \in 1 .. Len(t.offsets) /\ (p + 1) - 1 = p
    BY <2>1, <1>3
  <2>6. GetFrameOffset(t, p) = OffsetOf(e, p)
    BY <2>5, <1>1 DEF GetFrameOffset, Indexed
  <2>7. Extent(e) = e.units
    BY <1>1, Extents
  <2> QED BY <2>1, <2>2, <2>4, <2>6, <2>7, <1>1, FramesAre
<1>6. Last(t.offsets) = OffsetOf(e, LastIndexed(t))
  <2>1. LastIndexed(t) \in 0 .. LastIndexed(t) /\ LastIndexed(t) + 1 = Len(t.offsets)
    BY <1>3, <1>4
  <2>2. GetFrameOffset(t, LastIndexed(t)) = OffsetOf(e, LastIndexed(t))
    BY <2>1, <1>5
  <2> QED BY <2>1, <2>2 DEF GetFrameOffset, Last
<1>7. \A p \in Nat : HaveFrameOffset(t, p) <=> p <= LastIndexed(t)
  BY <1>3 DEF HaveFrameOffset
<1>8. Reach(t) \in Nat /\ Reach(t) <= LastIndexed(t)
  BY <1>1, <1>4 DEF Reach, Indexed
<1> QED BY <1>4, <1>5, <1>6, <1>7, <1>8

LEMMA SeekIndexedIs ==
  ASSUME NEW t, Kept(t), t.essence.kind = "variable", NEW p \in 0 .. Reach(t)
  PROVE  LET u == SeekIndexed(t, p)
         IN TrackOK(u) /\ AtFrame(u) /\ SameFrames(t, u) /\ u.position = p /\ u.buffered = 0
            /\ ParsePos(u) = u.filePos
<1> DEFINE e == t.essence
           u == SeekIndexed(t, p)
<1>1. t \in Tracks /\ WellFormed(e) /\ Indexed(t) /\ e \in Essences
  BY TrackFields DEF Kept
<1>2. p \in Nat /\ p \in 0 .. LastIndexed(t) /\ Reach(t) \in Nat
  BY IndexFacts
<1>3. /\ GetFrameOffset(t, p) = OffsetOf(e, p)
      /\ OffsetOf(e, p) \in Nat /\ OffsetOf(e, p) <= e.units
      /\ e.start \in Nat /\ e.units \in Nat
  BY <1>1, <1>2, IndexFacts DEF WellFormed
<1>4. u = [t EXCEPT !.filePos = e.start + OffsetOf(e, p), !.essenceOffset = OffsetOf(e, p),
                    !.position = p, !.buffered = 0]
  BY <1>3 DEF SeekIndexed
<1>5. e.start + OffsetOf(e, p) \in Nat /\ 0 \in 0 .. Chunk
  BY <1>3, ParserAssumption
<1> HIDE DEF u, e
<1>6. u \in Tracks
  BY <1>1, <1>2, <1>3, <1>4, <1>5 DEF Tracks
<1>7. /\ u.essence = e /\ u.duration = t.duration /\ u.offsets = t.offsets
      /\ u.complete = t.complete /\ u.position = p /\ u.buffered = 0
      /\ u.filePos = e.start + OffsetOf(e, p) /\ u.essenceOffset = OffsetOf(e, p)
  BY <1>1, <1>4 DEF Tracks, e
<1>8. Kept(u)
  BY <1>6, <1>7, <1>1 DEF Kept, Indexed, LastIndexed, e
<1>9. ParsePos(u) = u.filePos
  BY <1>7 DEF ParsePos
<1>10. AtFrame(u)
  BY <1>7, <1>9 DEF AtFrame
<1>11. u.filePos <= End(u.essence)
  BY <1>7, <1>3 DEF End
<1>12. u.position <= Reach(u)
  BY <1>7, <1>2 DEF Reach, LastIndexed
<1>13. TrackOK(u)
  BY <1>7, <1>8, <1>10, <1>11, <1>12 DEF TrackOK, Placed
<1> QED BY <1>7, <1>9, <1>10, <1>13 DEF SameFrames, u, e

LEMMA SizedSeekIs ==
  ASSUME NEW t, Kept(t), t.essence.kind = "sized", NEW p \in Nat
  PROVE  LET r == SizedSeek(t, p)
         IN /\ r.ok <=> p < t.duration
            /\ r.ok => TrackOK(r.track) /\ SameFrames(t, r.track) /\ r.track.position = p
            /\ ~r.ok => r.track = t
<1> DEFINE e == t.essence
           offset == (p \div Len(e.sizes)) * SumOf(e.sizes)
                       + SumOfFirst(e.sizes, p % Len(e.sizes))
           u == [t EXCEPT !.filePos = e.start + offset, !.essenceOffset = offset, !.position = p]
<1>1. t \in Tracks /\ WellFormed(e) /\ e \in Essences /\ t.duration \in Nat
      /\ t.buffered = 0 /\ t.duration <= FramesIn[e]
  BY TrackFields DEF Kept
<1>2. offset = OffsetOf(e, p)
  BY <1>1, SizedOffsets
<1>3. SizedSeek(t, p) = IF p >= t.duration THEN Result(FALSE, t) ELSE Result(TRUE, u)
  BY DEF SizedSeek
<1>4. offset \in Nat /\ e.start \in Nat
  <2>1. p \in Positions(e)
    BY DEF Positions
  <2>2. e.start \in Nat
    BY <1>1 DEF WellFormed
  <2> HIDE DEF offset, e
  <2> QED BY <2>1, <2>2, <1>1, <1>2, OffsetIsSum
<1> HIDE DEF offset, e
<1>5. e.start + offset \in Nat
  BY <1>4
<1>6. u \in Tracks
  BY <1>1, <1>4, <1>5 DEF Tracks
<1>7. /\ u.essence = e /\ u.duration = t.duration /\ u.offsets = t.offsets
      /\ u.complete = t.complete /\ u.position = p /\ u.buffered = 0
      /\ u.filePos = e.start + offset /\ u.essenceOffset = offset
  BY <1>1 DEF Tracks, e
<1> HIDE DEF u
<1>8. Kept(u)
  BY <1>6, <1>7, <1>1 DEF Kept, e
<1>9. AtFrame(u)
  BY <1>7, <1>2 DEF AtFrame, ParsePos
<1>10. ASSUME p < t.duration PROVE TrackOK(u)
  <2>1. u.position <= Reach(u)
    BY <1>7, <1>10, <1>1 DEF Reach
  <2> QED BY <2>1, <1>7, <1>8, <1>9 DEF TrackOK, Placed, e
<1>11. SameFrames(t, u)
  BY <1>7 DEF SameFrames, e
<1>12. CASE p < t.duration
  <2>1. ~(p >= t.duration)
    BY <1>12, <1>1
  <2> QED BY <2>1, <1>3, <1>7, <1>10, <1>11, <1>12 DEF Result
<1>13. CASE ~(p < t.duration)
  <2>1. p >= t.duration
    BY <1>13, <1>1
  <2> QED BY <2>1, <1>3, <1>13 DEF Result
<1> QED BY <1>12, <1>13

\* Putting a track back always works, or need not be done.
LEMMA Return ==
  ASSUME NEW t, NEW p, CanReturn(t, p), NEW limit
  PROVE  LET u == TrackSeek(t, p, limit).track
         IN /\ TrackOK(u) /\ SameFrames(t, u) /\ u.position = p
            /\ (IsEOF(t) /\ t.position = p) => IsEOF(u)
<1> DEFINE u == TrackSeek(t, p, limit).track
<1>1. Kept(t) /\ p \in 0 .. Reach(t) /\ Reach(t) \in Int
      /\ (p = t.duration => TrackOK(t) /\ t.position = p)
      /\ t.duration \in Nat \cup {-1}
  BY TrackFields DEF CanReturn, Kept
<1>2. SameFrames(t, t)
  BY DEF SameFrames
<1>3. CASE p = t.duration
  <2>1. t.duration >= 0 /\ p >= t.duration /\ p \in Nat
    BY <1>1, <1>3
  <2>2. u = t
    <3>1. CASE t.essence.kind = "sized"
      <4>1. ~(p < t.duration)
        BY <2>1, <1>3
      <4>2. SizedSeek(t, p).track = t
        BY <1>1, <2>1, <3>1, <4>1, SizedSeekIs
      <4> QED BY <4>2, <3>1 DEF TrackSeek
    <3>2. CASE t.essence.kind # "sized"
      BY <3>2, <2>1 DEF TrackSeek, VariableSeek, Result
    <3> QED BY <3>1, <3>2
  <2> QED BY <2>2, <1>1, <1>2, <1>3
<1>4. CASE p # t.duration
  <2>1. p \in Nat /\ (t.duration >= 0 => p < t.duration)
    BY <1>1, <1>4 DEF Reach
  <2>2. /\ TrackOK(u) /\ SameFrames(t, u) /\ u.position = p
    <3>1. CASE t.essence.kind = "sized"
      <4>1. p < t.duration
        BY <2>1, <3>1, <1>1 DEF Kept
      <4>2. TrackOK(SizedSeek(t, p).track) /\ SameFrames(t, SizedSeek(t, p).track)
            /\ SizedSeek(t, p).track.position = p
        BY <1>1, <2>1, <3>1, <4>1, SizedSeekIs
      <4> QED BY <4>2, <3>1 DEF TrackSeek
    <3>2. CASE t.essence.kind = "variable"
      <4>1. HaveFrameOffset(t, p)
        BY <1>1, <2>1, <3>2, IndexFacts
      <4>2. ~(t.duration >= 0 /\ p >= t.duration)
        BY <2>1, <1>1
      <4>3. u = SeekIndexed(t, p)
        BY <3>2, <4>1, <4>2 DEF TrackSeek, VariableSeek, Result
      <4> QED BY <4>3, <3>2, <1>1, SeekIndexedIs
    <3> QED BY <3>1, <3>2, <1>1, KindOf
  <2>3. (IsEOF(t) /\ t.position = p) => FALSE
    BY <2>1, <1>1 DEF IsEOF
  <2> HIDE DEF u
  <2> QED BY <2>2, <2>3 DEF u
<1> QED BY <1>3, <1>4


-----------------------------------------------------------------------------
(* Reading *)

LEMMA MinOfTwo ==
  ASSUME NEW a \in Int, NEW b \in Int
  PROVE  Min({a, b}) \in {a, b} /\ Min({a, b}) <= a /\ Min({a, b}) <= b
<1>1. \E x \in {a, b} : \A y \in {a, b} : x <= y
  <2>1. CASE a <= b
    BY <2>1
  <2>2. CASE b <= a
    BY <2>2
  <2> QED BY <2>1, <2>2
<1> QED BY <1>1 DEF Min

LEMMA MaxOfTwo ==
  ASSUME NEW a \in Int, NEW b \in Int
  PROVE  Max({a, b}) \in {a, b} /\ Max({a, b}) >= a /\ Max({a, b}) >= b
<1>1. \E x \in {a, b} : \A y \in {a, b} : x >= y
  <2>1. CASE a <= b
    BY <2>1
  <2>2. CASE b <= a
    BY <2>2
  <2> QED BY <2>1, <2>2
<1> QED BY <1>1 DEF Max

\* All of a read arrives, unless the file ends before.
LEMMA CountIs ==
  ASSUME NEW t, t.filePos \in Nat, NEW size \in Nat, NEW limit \in Nat
  PROVE  /\ Count(t, size, limit) \in 0 .. size
         /\ t.filePos + size <= limit => Count(t, size, limit) = size
         /\ Count(t, size, limit) > 0 => t.filePos + Count(t, size, limit) <= limit
<1> DEFINE m == Min({size, limit - t.filePos})
<1>1. m \in {size, limit - t.filePos} /\ m <= size /\ m <= limit - t.filePos /\ m \in Int
  <2>1. PICK d \in Int : d = limit - t.filePos
    OBVIOUS
  <2>2. size \in Int /\ m = Min({size, d})
    BY <2>1
  <2> HIDE DEF m
  <2>3. m \in {size, d} /\ m <= size /\ m <= d
    BY <2>2, MinOfTwo
  <2> QED BY <2>1, <2>2, <2>3
<1> HIDE DEF m
<1>a. 0 \in Int
  OBVIOUS
<1>2. Max({0, m}) \in {0, m} /\ Max({0, m}) >= 0 /\ Max({0, m}) >= m
  BY <1>1, <1>a, MaxOfTwo
<1>3. Count(t, size, limit) = Max({0, m})
  BY DEF Count, m
<1> QED BY <1>1, <1>2, <1>3

\* The units from a and those from b are those from c.
Joins(a, m, b, n, c) ==
  /\ a \in Int /\ b \in Int /\ c \in Int /\ m \in Nat /\ n \in Nat
  /\ m > 0 => a = c
  /\ n > 0 => b = c + m

LEMMA UnitsJoin ==
  ASSUME NEW a, NEW m, NEW b, NEW n, NEW c, Joins(a, m, b, n, c)
  PROVE  Units(a, m) \o Units(b, n) = Units(c, m + n)
<1>0. /\ a \in Int /\ b \in Int /\ c \in Int /\ m \in Nat /\ n \in Nat
      /\ m > 0 => a = c
      /\ n > 0 => b = c + m
  BY DEF Joins
<1>1. Units(a, m) \in Seq(Int) /\ Units(b, n) \in Seq(Int)
      /\ Len(Units(a, m)) = m /\ Len(Units(b, n)) = n
  <2>1. \A k \in 1 .. m : a + k - 1 \in Int
    BY <1>0
  <2>2. \A k \in 1 .. n : b + k - 1 \in Int
    BY <1>0
  <2> QED BY <1>0, <2>1, <2>2, IsASeq DEF Units
<1>2. \A k \in 1 .. m : Units(a, m)[k] = c + k - 1
  BY <1>0 DEF Units
<1>3. \A k \in m + 1 .. m + n : Units(b, n)[k - m] = c + k - 1
  <2>1. ASSUME NEW k \in m + 1 .. m + n PROVE Units(b, n)[k - m] = c + k - 1
    <3>1. k - m \in 1 .. n /\ b + (k - m) - 1 = c + k - 1
      BY <1>0
    <3> QED BY <3>1 DEF Units
  <2> QED BY <2>1
<1> DEFINE s == Units(a, m) \o Units(b, n)
<1>4. /\ s \in Seq(Int) /\ Len(s) = m + n
      /\ \A k \in 1 .. m + n :
           s[k] = IF k <= m THEN Units(a, m)[k] ELSE Units(b, n)[k - m]
  <2>1. /\ s \in Seq(Int) /\ Len(s) = Len(Units(a, m)) + Len(Units(b, n))
        /\ \A k \in 1 .. Len(Units(a, m)) + Len(Units(b, n)) :
             s[k] = IF k <= Len(Units(a, m)) THEN Units(a, m)[k]
                    ELSE Units(b, n)[k - Len(Units(a, m))]
    BY <1>1, ConcatProperties
  <2> QED BY <2>1, <1>1
<1>5. \A k \in 1 .. m + n : s[k] = c + k - 1
  BY <1>0, <1>2, <1>3, <1>4
<1>6. s = [k \in 1 .. m + n |-> s[k]]
  BY <1>4, LenProperties
<1> HIDE DEF s
<1>7. s = Units(c, m + n)
  BY <1>5, <1>6 DEF Units
<1> QED BY <1>7 DEF s

\* A limit that a call may meet.
Limit(e, limit) == limit \in Nat /\ e.start <= limit /\ limit <= End(e)

\* What a read of a track gives.
ReadGives(t, limit, r) ==
  /\ r.track.essence = t.essence
  /\ CanReturn(r.track, t.position)
  /\ r.ok =>
       /\ TrackOK(r.track)
       /\ r.track.position = t.position + 1
       /\ r.track.duration = t.duration
       /\ Reach(r.track) >= Reach(t)
       /\ t.position < Reach(r.track)
       /\ t.essenceOffset = OffsetOf(t.essence, t.position)
       /\ r.data = Frame(t.essence, t.position)
  /\ ~r.ok =>
       /\ r.data \in {NoData, <<>>}
       /\ r.data = NoData => r.track = t /\ IsEOF(t)
       /\ LengthOf(r.track) \in t.position .. LengthOf(t)
       /\ limit = End(t.essence) =>
            /\ IsEOF(r.track)
            /\ r.track.position = t.position
            /\ LengthOf(r.track) = LengthOf(t)

LEMMA LengthIs ==
  ASSUME NEW t, Kept(t)
  PROVE  /\ LengthOf(t) \in Nat /\ Reach(t) \in Nat /\ Reach(t) <= LengthOf(t)
         /\ LengthOf(t) <= FramesIn[t.essence] /\ FramesIn[t.essence] \in Nat
<1>1. t \in Tracks /\ WellFormed(t.essence) /\ t.essence \in Essences
      /\ t.duration \in Nat \cup {-1}
  BY TrackFields DEF Kept
<1>2. FramesIn[t.essence] \in Nat
  BY <1>1, FramesAre
<1>3. CASE t.essence.kind = "sized"
  BY <1>1, <1>2, <1>3 DEF Kept, LengthOf, Reach
<1>4. CASE t.essence.kind = "variable"
  <2>1. /\ LastIndexed(t) \in Nat /\ Reach(t) \in Nat /\ Reach(t) <= LastIndexed(t)
        /\ \A p \in 0 .. LastIndexed(t) : p <= FramesIn[t.essence]
    BY <1>4, IndexFacts
  <2>2. LastIndexed(t) \in 0 .. LastIndexed(t)
    BY <2>1
  <2>3. LastIndexed(t) <= FramesIn[t.essence]
    BY <2>1, <2>2
  <2>4. t.duration <= LastIndexed(t)
    BY <1>4 DEF Kept, Indexed
  <2> QED BY <2>1, <2>3, <2>4, <1>1, <1>2 DEF Reach, LengthOf
<1> QED BY <1>3, <1>4, KindOf

LEMMA CanStay ==
  ASSUME NEW t, TrackOK(t)
  PROVE  CanReturn(t, t.position)
<1>1. Reach(t) \in Nat /\ t.position \in Nat /\ t.position <= Reach(t)
  BY LengthIs, TrackFields DEF TrackOK, Kept, Placed
<1> QED BY <1>1 DEF TrackOK, CanReturn

LEMMA NoDataIsData == NoData # <<>>
BY DEF NoData

\* A read at the end.
LEMMA EndGives ==
  ASSUME NEW t, TrackOK(t), IsEOF(t), NEW limit
  PROVE  ReadGives(t, limit, ReadResult(FALSE, t, NoData))
<1>1. Kept(t) /\ t.position \in Nat /\ t.duration \in Nat \cup {-1}
  BY TrackFields DEF TrackOK, Kept
<1>2. t.position = t.duration /\ LengthOf(t) = t.position
  BY <1>1 DEF TrackOK, Placed, Reach, IsEOF, LengthOf
<1>3. LengthOf(t) \in t.position .. LengthOf(t)
  BY <1>1, <1>2
<1> QED BY <1>3, CanStay DEF ReadGives, ReadResult

LEMMA SizedReadGives ==
  ASSUME NEW t, TrackOK(t), t.essence.kind = "sized", NEW limit, Limit(t.essence, limit)
  PROVE  ReadGives(t, limit, SizedRead(t, limit))
<1> DEFINE e == t.essence
           p == t.position
           size == FrameSize(e, p)
           count == Count(t, size, limit)
           short == [t EXCEPT !.filePos = @ + count + ((Wrap - count) % Wrap), !.duration = p]
           next == [t EXCEPT !.filePos = @ + size, !.essenceOffset = @ + size, !.position = @ + 1]
<1>1. CASE IsEOF(t)
  BY <1>1, EndGives DEF SizedRead
<1>2. CASE ~IsEOF(t)
  <2>1. /\ t \in Tracks /\ WellFormed(e) /\ e \in Essences /\ t.duration \in Nat /\ p \in Nat
        /\ t.filePos \in Nat /\ t.essenceOffset \in Nat /\ Kept(t)
        /\ t.buffered = 0 /\ t.duration <= FramesIn[e] /\ p < t.duration
    BY <1>2, TrackFields DEF TrackOK, Kept, IsEOF
  <2>2. /\ t.filePos = e.start + OffsetOf(e, p) /\ t.essenceOffset = OffsetOf(e, p)
    BY <2>1, <1>2 DEF TrackOK, Placed, AtFrame, ParsePos
  <2>3. /\ OffsetOf(e, p) \in Nat /\ OffsetOf(e, p + 1) \in Nat /\ size \in Nat
        /\ OffsetOf(e, p + 1) = OffsetOf(e, p) + size
        /\ p + 1 \in Positions(e) /\ p + 1 \in Nat
    <3>1. p \in Positions(e) /\ p + 1 \in Positions(e) /\ p + 1 \in Nat
      BY <2>1 DEF Positions
    <3> QED BY <3>1, <2>1, OffsetIsSum
  <2>4. e.start \in Nat /\ e.units \in Nat /\ limit \in Nat
    BY <2>1 DEF WellFormed, Limit
  <2> HIDE DEF e, p, size
  <2>5. count \in 0 .. size /\ (t.filePos + size <= limit => count = size)
    BY <2>1, <2>3, <2>4, CountIs
  <2>6. LengthOf(t) = t.duration
    BY <2>1 DEF LengthOf
  <2>7. CASE count # size
    <3>1. SizedRead(t, limit) = ReadResult(FALSE, short, <<>>)
      BY <1>2, <2>7 DEF SizedRead, e, p, size
    <3>2. limit # End(e)
      <4>1. OffsetOf(e, p + 1) <= e.units
        <5>1. p + 1 <= FramesIn[e] /\ FramesIn[e] \in Nat /\ OffsetOf(e, FramesIn[e]) <= Extent(e)
              /\ FramesIn[e] \in Positions(e) /\ Extent(e) \in Nat /\ Extent(e) <= e.units
          BY <2>1, FramesAre, Extents
        <5>2. OffsetOf(e, FramesIn[e]) \in Nat
              /\ (p + 1 < FramesIn[e] => OffsetOf(e, p + 1) < OffsetOf(e, FramesIn[e]))
          BY <5>1, <2>1, <2>3, OffsetsGrow
        <5> QED BY <5>1, <5>2, <2>3, <2>4
      <4> QED BY <4>1, <2>2, <2>3, <2>4, <2>5, <2>7 DEF End
    <3>3. t.filePos + count + ((Wrap - count) % Wrap) \in Nat
      <4>1. \A w \in Nat \ {0}, c \in Nat : (w - c) % w \in Nat
        OBVIOUS
      <4>2. (Wrap - count) % Wrap \in Nat /\ count \in Nat
        BY <4>1, <2>3, <2>5, ParserAssumption
      <4> HIDE DEF count
      <4> QED BY <4>2, <2>1
    <3> HIDE DEF count
    <3>4. short \in Tracks
      BY <3>3, <2>1 DEF Tracks
    <3>5. /\ short.essence = e /\ short.duration = p /\ short.position = p /\ short.buffered = 0
      BY <2>1 DEF Tracks, e, p
    <3> HIDE DEF short
    <3>6. Kept(short)
      <4>1. p >= 0 /\ p <= FramesIn[e]
        BY <2>1, FramesAre
      <4> QED BY <4>1, <3>4, <3>5, <2>1 DEF Kept, e
    <3>7. IsEOF(short)
      BY <3>5, <2>1 DEF IsEOF
    <3>8. TrackOK(short)
      <4>1. short.position <= Reach(short)
        BY <3>5, <2>1 DEF Reach
      <4> QED BY <4>1, <3>5, <3>6, <3>7 DEF TrackOK, Placed, e
    <3>9. CanReturn(short, p)
      BY <3>5, <3>8, CanStay
    <3>10. LengthOf(short) \in p .. LengthOf(t)
      BY <3>5, <2>1, <2>6 DEF LengthOf
    <3> QED BY <3>1, <3>2, <3>5, <3>9, <3>10, NoDataIsData DEF ReadGives, ReadResult, e, p
  <2>8. CASE count = size
    <3>1. SizedRead(t, limit) = ReadResult(TRUE, next, Units(t.filePos, size))
      BY <1>2, <2>8 DEF SizedRead, e, p, size
    <3>2. t.filePos + size \in Nat /\ t.essenceOffset + size \in Nat
      BY <2>1, <2>3
    <3>3. next \in Tracks
      BY <3>2, <2>1, <2>3 DEF Tracks, p
    <3>4. /\ next.essence = e /\ next.duration = t.duration /\ next.position = p + 1
          /\ next.buffered = 0 /\ next.filePos = t.filePos + size
          /\ next.essenceOffset = t.essenceOffset + size
      BY <2>1 DEF Tracks, e, p
    <3> HIDE DEF next, count
    <3>5. Kept(next)
      BY <3>3, <3>4, <2>1 DEF Kept, e
    <3>6. AtFrame(next)
      <4>1. ParsePos(next) = next.filePos
        BY <3>4 DEF ParsePos
      <4>2. t.filePos + size = e.start + OffsetOf(e, p + 1)
        BY <2>2, <2>3, <2>4
      <4> QED BY <4>1, <4>2, <3>4, <2>2, <2>3 DEF AtFrame
    <3>7. Reach(next) = t.duration /\ Reach(t) = t.duration
      BY <3>4, <2>1 DEF Reach
    <3>8. TrackOK(next)
      <4>1. next.position <= Reach(next)
        BY <3>4, <3>7, <2>1
      <4> QED BY <4>1, <3>4, <3>5, <3>6, <2>1 DEF TrackOK, Placed, e
    <3>9. CanReturn(next, p)
      <4>1. p \in 0 .. Reach(next) /\ p # next.duration
        BY <3>4, <3>7, <2>1
      <4> QED BY <4>1, <3>5 DEF CanReturn
    <3>10. Units(t.filePos, size) = Frame(e, p)
      BY <2>2 DEF Frame, size
    <3>11. Reach(next) >= Reach(t) /\ p < Reach(next)
      BY <3>7, <2>1
    <3>12. t.essenceOffset = OffsetOf(e, p)
      BY <2>2
    <3> QED BY <3>1, <3>4, <3>8, <3>9, <3>10, <3>11, <3>12 DEF ReadGives, ReadResult, e, p
  <2> QED BY <2>7, <2>8
<1> QED BY <1>1, <1>2


\* Where the frame at the position of a parser is.
LEMMA NextFrame ==
  ASSUME NEW t, TrackOK(t), t.essence.kind = "variable", ~IsEOF(t),
         HaveFrameOffset(t, t.position + 1)
  PROVE  LET e == t.essence
             p == t.position
             size == GetFrameOffset(t, p + 1) - GetFrameOffset(t, p)
         IN /\ p \in Nat /\ p + 1 \in 0 .. LastIndexed(t)
            /\ t.duration >= 0 => p < t.duration
            /\ p + 1 \in Positions(e)
            /\ size \in Nat /\ size = FrameSize(e, p)
            /\ OffsetOf(e, p) \in Nat /\ e.start \in Nat /\ e.units \in Nat
            /\ OffsetOf(e, p + 1) = OffsetOf(e, p) + size
            /\ OffsetOf(e, p + 1) <= e.units
            /\ ParsePos(t) = e.start + OffsetOf(e, p)
            /\ t.essenceOffset = OffsetOf(e, p)
<1> DEFINE e == t.essence
           p == t.position
           size == GetFrameOffset(t, p + 1) - GetFrameOffset(t, p)
<1>1. /\ Kept(t) /\ WellFormed(e) /\ p \in Nat /\ t.duration \in Nat \cup {-1}
      /\ p + 1 \in Nat
  BY TrackFields DEF TrackOK, Kept
<1>2. /\ LastIndexed(t) \in Nat /\ p + 1 <= LastIndexed(t)
  BY <1>1, IndexFacts
<1>3. p + 1 \in 0 .. LastIndexed(t) /\ p \in 0 .. LastIndexed(t)
  BY <1>1, <1>2
<1>4. /\ GetFrameOffset(t, p + 1) = OffsetOf(e, p + 1) /\ GetFrameOffset(t, p) = OffsetOf(e, p)
      /\ OffsetOf(e, p) \in Nat /\ OffsetOf(e, p + 1) <= e.units
      /\ p \in Positions(e) /\ p + 1 \in Positions(e)
  BY <1>1, <1>3, IndexFacts
<1>5. FrameSize(e, p) \in Nat /\ OffsetOf(e, p + 1) = OffsetOf(e, p) + FrameSize(e, p)
  BY <1>1, <1>4, OffsetIsSum
<1>6. size = FrameSize(e, p)
  BY <1>4, <1>5
<1>7. e.start \in Nat /\ e.units \in Nat
  BY <1>1 DEF WellFormed
<1>8. AtFrame(t)
  BY DEF TrackOK, Placed
<1>9. t.duration >= 0 => p < t.duration
  BY <1>1 DEF IsEOF
<1> HIDE DEF size
<1> QED BY <1>1, <1>3, <1>4, <1>5, <1>6, <1>7, <1>8, <1>9 DEF AtFrame, size

LEMMA ReadIndexedGives ==
  ASSUME NEW t, TrackOK(t), t.essence.kind = "variable", ~IsEOF(t),
         HaveFrameOffset(t, t.position + 1), NEW limit, Limit(t.essence, limit)
  PROVE  ReadGives(t, limit, ReadIndexed(t, limit))
<1> DEFINE e == t.essence
           p == t.position
           size == GetFrameOffset(t, p + 1) - GetFrameOffset(t, p)
           available == Min({t.buffered, size})
           rest == size - available
           count == Count(t, rest, limit)
           back == SeekIndexed(t, p)
           next == [t EXCEPT !.filePos = @ + count, !.bufferFrom = @ + available,
                             !.buffered = @ - available, !.essenceOffset = @ + size,
                             !.position = @ + 1]
           data == Units(t.bufferFrom, available) \o Units(t.filePos, count)
           offset == OffsetOf(e, p)
<1>1. ReadIndexed(t, limit) =
        IF count # rest THEN ReadResult(FALSE, back, <<>>) ELSE ReadResult(TRUE, next, data)
  BY DEF ReadIndexed
<1>2. /\ p \in Nat /\ p + 1 \in 0 .. LastIndexed(t)
      /\ t.duration >= 0 => p < t.duration
      /\ p + 1 \in Positions(e)
      /\ size \in Nat /\ size = FrameSize(e, p)
      /\ offset \in Nat /\ e.start \in Nat /\ e.units \in Nat
      /\ OffsetOf(e, p + 1) = offset + size
      /\ offset + size <= e.units
      /\ ParsePos(t) = e.start + offset
      /\ t.essenceOffset = offset
  BY NextFrame
<1>3. /\ t \in Tracks /\ WellFormed(e) /\ Kept(t) /\ t.filePos \in Nat /\ t.bufferFrom \in Nat
      /\ t.buffered \in 0 .. Chunk /\ t.duration \in Nat \cup {-1} /\ Chunk \in Nat
      /\ t.essenceOffset \in Nat /\ LastIndexed(t) \in Nat /\ Reach(t) \in Nat
      /\ t.buffered > 0 => t.bufferFrom + t.buffered = t.filePos
      /\ t.filePos <= End(e)
  BY TrackFields, IndexFacts, ParserAssumption DEF TrackOK, Kept, Placed
<1>4. limit \in Nat /\ limit <= End(e) /\ End(e) = e.start + e.units
  BY <1>2 DEF Limit, End
<1> HIDE DEF size, e, p, offset
<1>5. available \in {t.buffered, size} /\ available <= t.buffered /\ available <= size
      /\ available \in Nat
  <2>1. t.buffered \in Int /\ size \in Int
    BY <1>2, <1>3
  <2> QED BY <2>1, <1>2, <1>3, MinOfTwo
<1> HIDE DEF available
<1>6. rest \in Nat /\ size = available + rest
  BY <1>2, <1>5
<1>7. t.buffered > 0 => t.bufferFrom = e.start + offset
  BY <1>2 DEF ParsePos
<1>8. t.buffered = 0 => t.filePos = e.start + offset
  BY <1>2, <1>3 DEF ParsePos
<1>9. rest > 0 => available = t.buffered /\ t.filePos = e.start + offset + available
  BY <1>2, <1>3, <1>5, <1>6, <1>7, <1>8
<1> HIDE DEF rest
<1>10. /\ count \in 0 .. rest
       /\ t.filePos + rest <= limit => count = rest
       /\ count > 0 => t.filePos + count <= limit
  BY <1>3, <1>4, <1>6, CountIs
<1> HIDE DEF count
<1>11. Reach(t) > p
  BY <1>2, <1>3 DEF Reach
<1>12. CASE count # rest
  <2>1. ReadIndexed(t, limit) = ReadResult(FALSE, back, <<>>)
    BY <1>1, <1>12
  <2>2. limit # End(e)
    BY <1>12, <1>10, <1>9, <1>6, <1>4, <1>2, <1>3
  <2>3. p \in 0 .. Reach(t)
    BY <1>11, <1>2, <1>3
  <2>4. TrackOK(back) /\ SameFrames(t, back) /\ back.position = p
    <3> HIDE DEF back
    <3> QED BY <1>3, <2>3, SeekIndexedIs DEF back
  <2> HIDE DEF back
  <2>5. CanReturn(back, p)
    BY <2>4, CanStay
  <2>6. LengthOf(back) = LengthOf(t)
    BY <2>4 DEF SameFrames, LengthOf
  <2>7. LengthOf(back) \in p .. LengthOf(t)
    <3>1. LengthOf(t) \in Nat /\ Reach(t) <= LengthOf(t)
      BY <1>3, LengthIs
    <3> QED BY <3>1, <2>6, <1>2, <1>11, <1>3
  <2> QED BY <2>1, <2>2, <2>4, <2>5, <2>7, NoDataIsData DEF ReadGives, ReadResult, SameFrames, e, p
<1>13. CASE count = rest
  <2>1. ReadIndexed(t, limit) = ReadResult(TRUE, next, data)
    BY <1>1, <1>13
  <2>2. /\ t.filePos + count \in Nat /\ t.bufferFrom + available \in Nat
        /\ t.buffered - available \in 0 .. Chunk /\ t.essenceOffset + size \in Nat
        /\ p + 1 \in Nat
    BY <1>2, <1>3, <1>5, <1>6, <1>13
  <2>3. next \in Tracks
    BY <2>2, <1>3 DEF Tracks, p
  <2>4. /\ next.essence = e /\ next.duration = t.duration /\ next.offsets = t.offsets
        /\ next.complete = t.complete /\ next.position = p + 1
        /\ next.filePos = t.filePos + count /\ next.bufferFrom = t.bufferFrom + available
        /\ next.buffered = t.buffered - available
        /\ next.essenceOffset = t.essenceOffset + size
    BY <1>3 DEF Tracks, e, p
  <2> HIDE DEF next
  <2>5. Kept(next)
    BY <2>3, <2>4, <1>3 DEF Kept, Indexed, LastIndexed, e
  <2>8. /\ ParsePos(next) = e.start + (offset + size)
        /\ next.buffered > 0 => next.bufferFrom + next.buffered = next.filePos
        /\ next.filePos <= End(e)
    <3>1. CASE next.buffered > 0
      <4>1. available = size /\ rest = 0 /\ t.buffered > 0 /\ size < t.buffered
        BY <3>1, <2>4, <1>5, <1>6, <1>3
      <4>2. next.bufferFrom = e.start + (offset + size)
        BY <4>1, <2>4, <1>7, <1>2
      <4>3. next.bufferFrom + next.buffered = next.filePos
        BY <4>1, <2>4, <1>2, <1>3, <1>13
      <4>4. next.filePos = t.filePos
        BY <4>1, <2>4, <1>13, <1>3
      <4> QED BY <3>1, <4>2, <4>3, <4>4, <1>3 DEF ParsePos
    <3>2. CASE ~(next.buffered > 0)
      <4>1. available = t.buffered
        BY <3>2, <2>4, <1>5, <1>3
      <4>2. t.filePos = e.start + offset + available
        <5>1. CASE t.buffered = 0
          BY <5>1, <4>1, <1>8, <1>2
        <5>2. CASE t.buffered > 0
          BY <5>2, <4>1, <1>7, <1>3, <1>2
        <5> QED BY <5>1, <5>2, <1>3
      <4>3. next.filePos = e.start + (offset + size)
        BY <4>2, <2>4, <1>13, <1>6, <1>2, <1>5
      <4>4. next.filePos <= End(e)
        BY <4>3, <1>2, <1>4
      <4> QED BY <3>2, <4>3, <4>4 DEF ParsePos
    <3> QED BY <3>1, <3>2
  <2>9. AtFrame(next)
    BY <2>8, <2>4, <1>2 DEF AtFrame
  <2>10. Reach(next) = Reach(t)
    BY <2>4 DEF Reach, LastIndexed
  <2>11. TrackOK(next)
    <3>1. next.position <= Reach(next)
      BY <2>4, <2>10, <1>11, <1>2, <1>3
    <3> QED BY <3>1, <2>4, <2>5, <2>8, <2>9 DEF TrackOK, Placed
  <2>12. CanReturn(next, p)
    <3>1. p \in 0 .. Reach(next) /\ p # next.duration
      BY <2>4, <2>10, <1>11, <1>2, <1>3
    <3> QED BY <3>1, <2>5 DEF CanReturn
  <2>13. data = Frame(e, p)
    <3>1. available > 0 => t.bufferFrom = e.start + offset
      BY <1>7, <1>5, <1>3
    <3>2. count > 0 => t.filePos = (e.start + offset) + available
      BY <1>9, <1>13
    <3>3. e.start + offset \in Int /\ t.bufferFrom \in Int /\ t.filePos \in Int
          /\ available \in Nat /\ count \in Nat
      BY <1>2, <1>3, <1>5, <1>6, <1>13
    <3>4. data = Units(e.start + offset, available + count)
      <4> DEFINE c == e.start + offset
      <4>1. Joins(t.bufferFrom, available, t.filePos, count, c)
        BY <3>1, <3>2, <3>3 DEF Joins
      <4> HIDE DEF c
      <4>2. data = Units(c, available + count)
        BY <4>1, UnitsJoin
      <4> QED BY <4>2 DEF c
    <3>5. Frame(e, p) = Units(e.start + offset, size)
      BY <1>2 DEF Frame, offset
    <3> QED BY <3>4, <3>5, <1>13, <1>6
  <2> HIDE DEF data
  <2>14. Reach(next) >= Reach(t) /\ p < Reach(next)
    BY <2>10, <1>11, <1>2, <1>3
  <2>15. t.essenceOffset = OffsetOf(e, p)
    BY <1>2 DEF offset
  <2> QED BY <2>1, <2>4, <2>11, <2>12, <2>13, <2>14, <2>15 DEF ReadGives, ReadResult, e, p
<1> QED BY <1>12, <1>13


-----------------------------------------------------------------------------
(* The parser's buffer *)

LEMMA ChunksAre ==
  ASSUME NEW d \in Nat \ {0}
  PROVE  /\ ((d + Chunk - 1) \div Chunk) * Chunk \in Nat
         /\ ((d + Chunk - 1) \div Chunk) * Chunk >= d
         /\ ((d + Chunk - 1) \div Chunk) * Chunk < d + Chunk
<1>1. Chunk \in Nat \ {0}
  BY ParserAssumption
<1>2. PICK a \in Nat : a = d + Chunk - 1
  BY <1>1
<1>3. PICK q \in Nat, r \in 0 .. Chunk - 1 : q = a \div Chunk /\ a = Chunk * q + r
  BY <1>1, DivisionIs
<1>4. PICK x \in Nat : x = Chunk * q /\ q * Chunk = x
  BY <1>1
<1>5. a = x + r
  BY <1>3, <1>4
<1>6. x >= d /\ x < d + Chunk
  BY <1>1, <1>2, <1>5
<1> QED BY <1>2, <1>3, <1>4, <1>6

\* A parser that took data from its file, but no frame.
Parsed(t, u, limit) ==
  /\ u \in Tracks
  /\ SameFrames(t, u)
  /\ u.position = t.position
  /\ u.essenceOffset = t.essenceOffset
  /\ u.buffered > 0 => u.bufferFrom + u.buffered = u.filePos
  /\ u.filePos >= t.filePos
  /\ u.filePos > t.filePos => u.filePos <= limit

LEMMA UsedIs ==
  ASSUME NEW t \in Tracks, NEW end \in Nat, NEW limit \in Nat,
         t.filePos - end <= Chunk, end > t.filePos => end <= limit
  PROVE  LET u == Used(t, end, limit)
         IN Parsed(t, u, limit) /\ ParsePos(u) = end
            /\ (end <= t.filePos => u.filePos = t.filePos)
            /\ (end > t.filePos => u.filePos >= end /\ u.filePos < end + Chunk)
<1> DEFINE chunks == (end - t.filePos + Chunk - 1) \div Chunk
           bound == Max({limit, t.filePos})
           far == t.filePos + chunks * Chunk
           filePos == IF end <= t.filePos THEN t.filePos ELSE Min({far, bound})
           buffered == Max({0, filePos - end})
           u == Used(t, end, limit)
<1>1. u = [t EXCEPT !.filePos = filePos, !.bufferFrom = end, !.buffered = buffered]
  BY DEF Used
<1>2. t.filePos \in Nat /\ Chunk \in Nat
  BY TrackFields, ParserAssumption
<1> HIDE DEF u
<1>3. /\ filePos \in Nat /\ filePos >= t.filePos
      /\ filePos > t.filePos => filePos <= limit
      /\ end <= t.filePos => filePos = t.filePos
      /\ end > t.filePos => filePos >= end /\ filePos < end + Chunk
  <2>1. CASE end <= t.filePos
    BY <2>1, <1>2
  <2>2. CASE end > t.filePos
    <3>1. PICK d \in Nat \ {0} : d = end - t.filePos
      BY <2>2, <1>2
    <3>2. PICK x \in Nat : x = chunks * Chunk /\ x >= d /\ x < d + Chunk
      BY <3>1, ChunksAre
    <3> HIDE DEF chunks
    <3>3. far \in Nat /\ far >= end /\ far < end + Chunk
      BY <3>1, <3>2, <1>2
    <3> HIDE DEF far
    <3>4. limit \in Int /\ t.filePos \in Int
      BY <1>2
    <3>5. bound \in {limit, t.filePos} /\ bound >= limit /\ bound >= t.filePos
      BY <3>4, MaxOfTwo
    <3> HIDE DEF bound
    <3>6. end <= limit
      BY <2>2
    <3>7. bound = limit /\ far \in Int /\ bound \in Int
      BY <3>5, <3>6, <2>2, <1>2, <3>3
    <3>8. Min({far, bound}) \in {far, bound} /\ Min({far, bound}) <= far /\ Min({far, bound}) <= bound
      BY <3>7, MinOfTwo
    <3>9. filePos = Min({far, bound})
      BY <2>2, <1>2
    <3> HIDE DEF filePos
    <3> QED BY <3>3, <3>6, <3>7, <3>8, <3>9, <2>2, <1>2
  <2> QED BY <2>1, <2>2, <1>2
<1> HIDE DEF filePos
<1>4. /\ buffered \in 0 .. Chunk
      /\ buffered > 0 => buffered = filePos - end
      /\ buffered = 0 => filePos <= end
  <2>1. PICK d \in Int : d = filePos - end
    BY <1>3
  <2>2. 0 \in Int /\ buffered = Max({0, d})
    BY <2>1
  <2>3. buffered \in {0, d} /\ buffered >= 0 /\ buffered >= d
    <3> HIDE DEF buffered
    <3> QED BY <2>2, MaxOfTwo
  <2> HIDE DEF buffered
  <2>4. d <= Chunk
    BY <2>1, <1>2, <1>3
  <2> QED BY <2>1, <2>3, <2>4, <1>2, <1>3
<1> HIDE DEF buffered
<1>5. /\ u \in Tracks /\ SameFrames(t, u)
      /\ u.position = t.position /\ u.essenceOffset = t.essenceOffset
      /\ u.filePos = filePos /\ u.bufferFrom = end /\ u.buffered = buffered
  <2>1. filePos \in Nat /\ end \in Nat /\ buffered \in 0 .. Chunk
    BY <1>3, <1>4
  <2> HIDE DEF chunks, bound, far
  <2> QED BY <1>1, <2>1 DEF Tracks, SameFrames
<1>6. u.buffered > 0 => u.bufferFrom + u.buffered = u.filePos
  BY <1>5, <1>4, <1>3
<1>7. ParsePos(u) = end
  <2>1. CASE buffered > 0
    BY <2>1, <1>5 DEF ParsePos
  <2>2. CASE ~(buffered > 0)
    <3>1. buffered = 0 /\ filePos <= end
      BY <2>2, <1>4, <1>2
    <3>2. filePos = end
      BY <3>1, <1>3, <1>2
    <3> QED BY <2>2, <3>2, <1>5 DEF ParsePos
  <2> QED BY <2>1, <2>2
<1> QED BY <1>3, <1>5, <1>6, <1>7 DEF Parsed, u

LEMMA ParsePosIs ==
  ASSUME NEW t \in Tracks, t.buffered > 0 => t.bufferFrom + t.buffered = t.filePos
  PROVE  /\ ParsePos(t) \in Nat /\ ParsePos(t) <= t.filePos
         /\ t.filePos - ParsePos(t) <= Chunk
         /\ t.buffered = 0 => ParsePos(t) = t.filePos
<1>1. t.filePos \in Nat /\ t.bufferFrom \in Nat /\ t.buffered \in 0 .. Chunk /\ Chunk \in Nat
  BY TrackFields, ParserAssumption
<1>2. CASE t.buffered > 0
  BY <1>1, <1>2 DEF ParsePos
<1>3. CASE ~(t.buffered > 0)
  BY <1>1, <1>3 DEF ParsePos
<1> QED BY <1>2, <1>3

LEMMA ParseFailedIs ==
  ASSUME NEW t \in Tracks, NEW limit \in Nat,
         t.buffered > 0 => t.bufferFrom + t.buffered = t.filePos
  PROVE  Parsed(t, ParseFailed(t, limit), limit)
<1> DEFINE pos == ParsePos(t)
           end == Max({limit, t.filePos})
           next == Min({pos + 1, end})
           u == Used(t, next, limit)
           kept == [u EXCEPT !.bufferFrom = pos, !.buffered = u.filePos - pos]
<1>1. ParseFailed(t, limit) =
        IF ImagesAt(t.essence, pos) # {} \/ pos >= end THEN Used(t, end, limit) ELSE kept
  BY DEF ParseFailed
<1>2. t.filePos \in Nat /\ Chunk \in Nat \ {0}
  BY TrackFields, ParserAssumption
<1>3. end \in {limit, t.filePos} /\ end >= limit /\ end >= t.filePos
  <2>1. limit \in Int /\ t.filePos \in Int
    BY <1>2
  <2> QED BY <2>1, MaxOfTwo
<1>4. pos \in Nat /\ pos <= t.filePos /\ t.filePos - pos <= Chunk
  BY ParsePosIs
<1> HIDE DEF end, pos
<1>5. Parsed(t, Used(t, end, limit), limit)
  <2>1. end \in Nat /\ t.filePos - end <= Chunk /\ (end > t.filePos => end <= limit)
    BY <1>2, <1>3
  <2> QED BY <2>1, UsedIs
<1>6. ASSUME ~(pos >= end) PROVE Parsed(t, kept, limit)
  <2>1. next = pos + 1 /\ end \in Nat
    <3>1. pos + 1 \in Int /\ end \in Int /\ pos + 1 <= end /\ end \in Nat
      BY <1>2, <1>3, <1>4, <1>6
    <3>2. next \in {pos + 1, end} /\ next <= pos + 1 /\ next <= end
      BY <3>1, MinOfTwo
    <3> HIDE DEF next
    <3> QED BY <3>1, <3>2
  <2> HIDE DEF next
  <2>2. next \in Nat /\ t.filePos - next <= Chunk /\ (next > t.filePos => next <= limit)
    BY <2>1, <1>2, <1>3, <1>4, <1>6
  <2>3. /\ Parsed(t, u, limit)
        /\ next <= t.filePos => u.filePos = t.filePos
        /\ next > t.filePos => u.filePos >= next /\ u.filePos < next + Chunk
    BY <2>2, UsedIs
  <2> HIDE DEF u
  <2>4. u \in Tracks /\ u.filePos \in Nat
    BY <2>3, TrackFields DEF Parsed
  <2>5. u.filePos - pos \in 0 .. Chunk /\ pos + (u.filePos - pos) = u.filePos
    BY <2>1, <2>3, <2>4, <1>2, <1>4
  <2>6. /\ kept \in Tracks /\ SameFrames(u, kept) /\ kept.position = u.position
        /\ kept.essenceOffset = u.essenceOffset /\ kept.filePos = u.filePos
        /\ kept.bufferFrom = pos /\ kept.buffered = u.filePos - pos
    BY <2>4, <2>5, <1>4 DEF Tracks, SameFrames
  <2> HIDE DEF kept
  <2>7. SameFrames(t, kept)
    BY <2>3, <2>6 DEF Parsed, SameFrames
  <2> QED BY <2>3, <2>5, <2>6, <2>7 DEF Parsed
<1> HIDE DEF kept
<1>7. CASE ImagesAt(t.essence, pos) # {} \/ pos >= end
  BY <1>1, <1>5, <1>7
<1>8. CASE ~(ImagesAt(t.essence, pos) # {} \/ pos >= end)
  <2>1. ParseFailed(t, limit) = kept
    BY <1>1, <1>8
  <2> QED BY <2>1, <1>6, <1>8
<1> QED BY <1>7, <1>8


-----------------------------------------------------------------------------
(* Extending the index *)

\* A parser that's at the end of its index.
AtIndexEnd(t) ==
  /\ t.position = LastIndexed(t)
  /\ AtFrame(t)
  /\ t.buffered > 0 => t.bufferFrom + t.buffered = t.filePos
  /\ t.filePos <= End(t.essence)

LEMMA AtLastIndexedIs ==
  ASSUME NEW t, TrackOK(t), t.essence.kind = "variable", t.duration < 0
  PROVE  LET u == AtLastIndexed(t)
         IN TrackOK(u) /\ AtIndexEnd(u) /\ SameFrames(t, u) /\ LastIndexed(u) = LastIndexed(t)
<1> DEFINE u == AtLastIndexed(t)
<1>1. Kept(t) /\ t \in Tracks /\ t.duration \in Nat \cup {-1} /\ LastIndexed(t) \in Nat
  BY TrackFields, IndexFacts DEF TrackOK, Kept
<1>2. /\ TrackOK(u) /\ SameFrames(t, u) /\ u.position = LastIndexed(t)
  <2>1. CASE t.position = LastIndexed(t)
    BY <2>1 DEF AtLastIndexed, SameFrames
  <2>2. CASE t.position # LastIndexed(t)
    <3>1. LastIndexed(t) \in 0 .. Reach(t)
      BY <1>1 DEF Reach
    <3>2. u = SeekIndexed(t, LastIndexed(t))
      BY <2>2 DEF AtLastIndexed
    <3> HIDE DEF u
    <3> QED BY <3>1, <3>2, <1>1, SeekIndexedIs
  <2> QED BY <2>1, <2>2
<1> HIDE DEF u
<1>3. LastIndexed(u) = LastIndexed(t) /\ u.duration = t.duration /\ u.essence = t.essence
  BY <1>2 DEF SameFrames, LastIndexed
<1>4. ~IsEOF(u)
  <2>1. ~(u.duration >= 0)
    BY <1>1, <1>3
  <2> QED BY <2>1 DEF IsEOF
<1>5. AtIndexEnd(u)
  BY <1>2, <1>3, <1>4 DEF AtIndexEnd, TrackOK, Placed
<1> QED BY <1>2, <1>3, <1>5 DEF u

\* The images found are the next c ones.
IsFound(t, n, limit, c) ==
  LET e == t.essence
      m == LastIndexed(t)
  IN /\ c \in 0 .. n
     /\ ImagesFound(t, n, limit) = m .. m + c - 1
     /\ m + c <= Len(e.sizes)
     /\ c > 0 => e.start + OffsetOf(e, m + c) <= Max({limit, t.filePos})
     /\ c < n => \/ m + c = Len(e.sizes)
                 \/ e.start + OffsetOf(e, m + c + 1) > Max({limit, t.filePos})

LEMMA FoundAre ==
  ASSUME NEW t, Kept(t), AtIndexEnd(t), t.essence.kind = "variable",
         NEW n \in Nat, NEW limit \in Nat
  PROVE  \E c \in Nat : IsFound(t, n, limit, c)
<1> DEFINE e == t.essence
           m == LastIndexed(t)
           bound == Max({limit, t.filePos})
           Within(f) == e.start + OffsetOf(e, f) <= bound
           T == {k \in 0 .. n : m + k <= Len(e.sizes) /\ (k > 0 => Within(m + k))}
           c == Max(T)
<1>1. /\ t \in Tracks /\ WellFormed(e) /\ e.kind = "variable" /\ t.filePos \in Nat
      /\ m \in Nat /\ m \in Positions(e)
      /\ e.start \in Nat /\ Len(e.sizes) \in Nat
  BY TrackFields, IndexFacts, LenProperties DEF Kept, WellFormed
<1>2. bound \in Nat
  <2>1. limit \in Int /\ t.filePos \in Int
    BY <1>1
  <2> QED BY <2>1, <1>1, MaxOfTwo
<1>3. \A f : f \in Positions(e) <=> f \in Nat /\ f <= Len(e.sizes)
  BY <1>1 DEF Positions
<1>4. ParsePos(t) = e.start + OffsetOf(e, m)
  BY DEF AtIndexEnd, AtFrame
<1> HIDE DEF e, m, bound
<1>5. \A f \in Nat : f <= Len(e.sizes) => OffsetOf(e, f) \in Nat
  BY <1>1, <1>3, OffsetIsSum
\* a frame is where one starts only
<1>6. ASSUME NEW f \in Nat, f <= Len(e.sizes), e.start + OffsetOf(e, f) = e.start + OffsetOf(e, m)
      PROVE  f = m
  <2>1. OffsetOf(e, f) \in Nat /\ OffsetOf(e, m) \in Nat /\ f \in Positions(e)
    BY <1>1, <1>3, <1>5, <1>6
  <2>2. OffsetOf(e, f) = OffsetOf(e, m)
    BY <2>1, <1>1, <1>6
  <2>3. f < m => OffsetOf(e, f) < OffsetOf(e, m)
    BY <1>1, OffsetsGrow
  <2>4. m < f => OffsetOf(e, m) < OffsetOf(e, f)
    BY <1>1, <2>1, OffsetsGrow
  <2> QED BY <2>1, <2>2, <2>3, <2>4, <1>1
<1>7. ImagesFound(t, n, limit) =
        {f \in 0 .. Len(e.sizes) - 1 : f \in m .. m + n - 1 /\ Within(f + 1)}
  <2>1. \A first : first \in ImagesAt(e, ParsePos(t)) <=>
                   first \in 0 .. Len(e.sizes) - 1 /\ first = m
    <3>1. \A f \in 0 .. Len(e.sizes) - 1 :
            e.start + OffsetOf(e, f) = e.start + OffsetOf(e, m) <=> f = m
      <4>1. \A f \in 0 .. Len(e.sizes) - 1 : f \in Nat /\ f <= Len(e.sizes)
        BY <1>1
      <4> QED BY <4>1, <1>6
    <3> QED BY <3>1, <1>4 DEF ImagesAt
  <2>2. ASSUME NEW f \in 0 .. Len(e.sizes) - 1
        PROVE  (\E first \in ImagesAt(e, ParsePos(t)) :
                  f \in first .. first + n - 1 /\ Within(f + 1))
               <=> f \in m .. m + n - 1 /\ Within(f + 1)
    <3>1. f \in m .. m + n - 1 => m \in 0 .. Len(e.sizes) - 1
      BY <1>1
    <3> HIDE DEF Within
    <3> QED BY <3>1, <2>1
  <2>3. ImagesFound(t, n, limit) =
          {f \in 0 .. Len(e.sizes) - 1 :
             \E first \in ImagesAt(e, ParsePos(t)) :
               f \in first .. first + n - 1 /\ Within(f + 1)}
    BY DEF ImagesFound, e, bound
  <2> HIDE DEF Within
  <2> QED BY <2>2, <2>3
\* what's before a frame that's within the bound is too
<1>8. ASSUME NEW f \in Nat, NEW g \in Nat, f <= g, g <= Len(e.sizes), Within(g) PROVE Within(f)
  <2>1. OffsetOf(e, f) \in Nat /\ OffsetOf(e, g) \in Nat
        /\ (f < g => OffsetOf(e, f) < OffsetOf(e, g))
    BY <1>1, <1>3, <1>8, OffsetsGrow
  <2> QED BY <2>1, <1>1, <1>2, <1>8
<1> HIDE DEF Within
<1>9. c \in T /\ \A k \in T : k <= c
  <2>1. 0 \in T
    BY <1>1, <1>3
  <2>2. T \in SUBSET Nat /\ \A k \in T : k <= n
    OBVIOUS
  <2> HIDE DEF T
  <2> QED BY <2>1, <2>2, MaxIsGreatest
<1>10. /\ c \in 0 .. n /\ m + c <= Len(e.sizes) /\ (c > 0 => Within(m + c))
  BY <1>9
<1>11. ASSUME c < n, m + c # Len(e.sizes) PROVE ~Within(m + c + 1)
  <2> SUFFICES ASSUME Within(m + c + 1) PROVE FALSE
    OBVIOUS
  <2> HIDE DEF c
  <2>1. c + 1 \in 0 .. n /\ m + (c + 1) <= Len(e.sizes) /\ m + (c + 1) = m + c + 1
    BY <1>1, <1>10, <1>11
  <2>2. c + 1 \in T
    BY <2>1
  <2>3. c + 1 <= c
    BY <2>2, <1>9
  <2> QED BY <2>3, <1>10
<1> HIDE DEF T, c
<1>12. ImagesFound(t, n, limit) = m .. m + c - 1
  <2>1. ASSUME NEW f \in m .. m + c - 1
        PROVE  f \in 0 .. Len(e.sizes) - 1 /\ f \in m .. m + n - 1 /\ Within(f + 1)
    <3>1. f \in 0 .. Len(e.sizes) - 1 /\ f \in m .. m + n - 1 /\ c > 0
          /\ f + 1 \in Nat /\ m + c \in Nat /\ f + 1 <= m + c
      BY <1>1, <1>10
    <3> QED BY <3>1, <1>8, <1>10
  <2>2. ASSUME NEW f \in 0 .. Len(e.sizes) - 1, f \in m .. m + n - 1, Within(f + 1)
        PROVE  f \in m .. m + c - 1
    <3> SUFFICES ASSUME ~(f < m + c) PROVE FALSE
      BY <1>1, <1>10, <2>2
    <3>1. c < n /\ m + c # Len(e.sizes) /\ m + c + 1 \in Nat /\ f + 1 \in Nat
          /\ m + c + 1 <= f + 1 /\ f + 1 <= Len(e.sizes)
      BY <1>1, <1>10, <2>2
    <3>2. Within(m + c + 1)
      BY <3>1, <2>2, <1>8
    <3> QED BY <3>1, <3>2, <1>11
  <2> QED BY <2>1, <2>2, <1>7
<1>13. c < n /\ m + c # Len(e.sizes) => e.start + OffsetOf(e, m + c + 1) > bound
  <2> SUFFICES ASSUME c < n, m + c # Len(e.sizes) PROVE e.start + OffsetOf(e, m + c + 1) > bound
    OBVIOUS
  <2>1. ~(e.start + OffsetOf(e, m + c + 1) <= bound)
    BY <1>11 DEF Within
  <2>2. m + c + 1 \in Nat /\ m + c + 1 <= Len(e.sizes)
    BY <1>1, <1>10
  <2>3. OffsetOf(e, m + c + 1) \in Nat
    BY <2>2, <1>5
  <2> QED BY <2>1, <2>3, <1>1, <1>2
<1>14. c > 0 => e.start + OffsetOf(e, m + c) <= bound
  BY <1>10 DEF Within
<1>15. c \in Nat
  BY SMTT(60), <1>10
<1> QED BY <1>10, <1>12, <1>13, <1>14, <1>15 DEF IsFound, e, m, bound


\* The parser of UpdateIndexTable after it parsed up to n images.
Extended(t, n, limit) ==
  LET t0 == AtLastIndexed(t)
      found == ImagesFound(t0, n, limit)
      offset == Last(t.offsets)
      first == Min(found)
      more == [k \in 1 .. Cardinality(found) |->
                 offset + OffsetOf(t.essence, first + k) - OffsetOf(t.essence, first)]
  IN [IF found = {} THEN t0
      ELSE Used(t0, t.essence.start + OffsetOf(t.essence, Max(found) + 1), limit)
       EXCEPT !.offsets = @ \o more]

LEMMA UpdateIs ==
  ASSUME NEW t, NEW position, NEW limit
  PROVE  UpdateIndexTable(t, position, limit) =
           LET t1 == Extended(t, position - LastIndexed(t), limit)
               atEOF == EndFound(t1, limit)
           IN IF t.complete THEN Result(FALSE, t)
              ELSE IF LastIndexed(t1) = position
              THEN Result(TRUE, [t1 EXCEPT !.position = position, !.essenceOffset = Last(t1.offsets)])
              ELSE IF atEOF.position = atEOF.duration THEN Result(FALSE, atEOF)
              ELSE Result(FALSE, [atEOF EXCEPT !.filePos = atEOF.essenceOffset + Last(atEOF.offsets)])
BY DEF UpdateIndexTable, Extended

\* The parser after c more images were put in its index.
Extends(t, u, c) ==
  LET e == t.essence
      m == LastIndexed(t)
  IN /\ Kept(u)
     /\ u.essence = e /\ u.duration = t.duration /\ u.complete = t.complete
     /\ LastIndexed(u) = m + c
     /\ u.position = m
     /\ u.essenceOffset = OffsetOf(e, m)
     /\ ParsePos(u) = e.start + OffsetOf(e, m + c)
     /\ u.buffered > 0 => u.bufferFrom + u.buffered = u.filePos
     /\ u.filePos <= End(e)

LEMMA IntervalEnds ==
  ASSUME NEW m \in Nat, NEW c \in Nat \ {0}
  PROVE  Min(m .. m + c - 1) = m /\ Max(m .. m + c - 1) = m + c - 1 /\ m .. m + c - 1 # {}
<1> DEFINE T == m .. m + c - 1
<1>1. T \in SUBSET Nat /\ m \in T /\ m + c - 1 \in T
      /\ (\A y \in T : y >= m) /\ (\A y \in T : y <= m + c - 1) /\ m + c - 1 \in Nat
  OBVIOUS
<1> HIDE DEF T
<1>2. Min(T) \in T /\ \A y \in T : Min(T) <= y
  BY <1>1, MinIsLeast
<1>3. Max(T) \in T /\ \A y \in T : y <= Max(T)
  BY <1>1, MaxIsGreatest
<1>4. Min(T) = m
  <2>1. Min(T) \in Nat /\ Min(T) <= m /\ Min(T) >= m
    BY <1>1, <1>2
  <2> QED BY <2>1
<1>5. Max(T) = m + c - 1
  <2>1. Max(T) \in Nat /\ Max(T) <= m + c - 1 /\ m + c - 1 <= Max(T)
    BY <1>1, <1>3
  <2> QED BY <2>1
<1> QED BY <1>1, <1>4, <1>5 DEF T

LEMMA ExtendedIs ==
  ASSUME NEW t, TrackOK(t), t.essence.kind = "variable", t.duration < 0,
         NEW n \in Nat, NEW limit, Limit(t.essence, limit),
         NEW c \in Nat, IsFound(AtLastIndexed(t), n, limit, c)
  PROVE  Extends(t, Extended(t, n, limit), c)
         /\ Extended(t, n, limit).filePos <= Max({limit, AtLastIndexed(t).filePos})
<1> DEFINE t0 == AtLastIndexed(t)
           e == t.essence
           m == LastIndexed(t)
           found == ImagesFound(t0, n, limit)
           offset == Last(t.offsets)
           first == Min(found)
           more == [k \in 1 .. Cardinality(found) |->
                      offset + OffsetOf(e, first + k) - OffsetOf(e, first)]
           used == IF found = {} THEN t0
                   ELSE Used(t0, e.start + OffsetOf(e, Max(found) + 1), limit)
           u == [used EXCEPT !.offsets = @ \o more]
           bound == Max({limit, t0.filePos})
<1>1. Extended(t, n, limit) = u
  BY DEF Extended
<1>2. /\ TrackOK(t0) /\ AtIndexEnd(t0) /\ SameFrames(t, t0) /\ LastIndexed(t0) = m
  BY AtLastIndexedIs
<1>3. /\ t0.essence = e /\ t0.duration = t.duration /\ t0.offsets = t.offsets
      /\ t0.complete = t.complete
  BY <1>2 DEF SameFrames
<1>4. /\ c \in 0 .. n /\ found = m .. m + c - 1 /\ m + c <= Len(e.sizes)
      /\ c > 0 => e.start + OffsetOf(e, m + c) <= bound
  BY <1>2, <1>3 DEF IsFound
<1>5. /\ t0 \in Tracks /\ t \in Tracks /\ WellFormed(e) /\ Kept(t) /\ Kept(t0)
      /\ t0.filePos \in Nat /\ t0.filePos <= End(e) /\ t.offsets \in Seq(Nat)
      /\ t.duration = -1
  BY <1>2, <1>3, TrackFields DEF TrackOK, Kept, AtIndexEnd
<1>6. /\ m \in Nat /\ m \in Positions(e) /\ offset = OffsetOf(e, m)
      /\ e.start \in Nat /\ e.units \in Nat /\ Len(e.sizes) \in Nat
  BY <1>5, IndexFacts, LenProperties DEF WellFormed
<1>7. limit \in Nat /\ limit <= End(e) /\ End(e) = e.start + e.units
  BY <1>6 DEF Limit, End
<1>8. bound \in {limit, t0.filePos} /\ bound \in Nat /\ bound <= End(e)
      /\ bound >= limit /\ bound >= t0.filePos
  <2>1. limit \in Int /\ t0.filePos \in Int
    BY <1>5, <1>7
  <2>2. bound \in {limit, t0.filePos} /\ bound >= limit /\ bound >= t0.filePos
    BY <2>1, MaxOfTwo
  <2> HIDE DEF bound
  <2> QED BY <2>2, <1>5, <1>7
<1> HIDE DEF bound, t0, e, m, offset
<1>9. \A f \in Nat : f <= m + c => f \in Positions(e) /\ OffsetOf(e, f) \in Nat
  <2>1. \A f \in Nat : f <= m + c => f \in Positions(e)
    BY <1>4, <1>6 DEF Positions
  <2> QED BY <2>1, <1>5, OffsetIsSum
<1> HIDE DEF found
<1>10. Cardinality(found) = c
  <2>1. m + c - 1 \in Int
    BY <1>6
  <2>2. Cardinality(m .. m + c - 1) = IF m > m + c - 1 THEN 0 ELSE (m + c - 1) - m + 1
    BY <2>1, <1>6, FS_Interval
  <2> QED BY <2>2, <1>4, <1>6
<1>11. /\ used \in Tracks /\ SameFrames(t0, used)
       /\ used.position = t0.position /\ used.essenceOffset = t0.essenceOffset
       /\ used.buffered > 0 => used.bufferFrom + used.buffered = used.filePos
       /\ used.filePos <= bound
       /\ ParsePos(used) = e.start + OffsetOf(e, m + c)
       /\ more = [k \in 1 .. c |-> OffsetOf(e, m + k)]
  <2>1. CASE c = 0
    <3>1. found = {}
      BY <2>1, <1>4, <1>6
    <3>2. used = t0
      BY <3>1
    <3>3. 1 .. c = {}
      BY <2>1
    <3>4. more = [k \in 1 .. c |-> OffsetOf(e, m + k)]
      BY <3>3, <1>10
    <3>5. m + c = m
      BY <2>1, <1>6
    <3> HIDE DEF used, more
    <3> QED BY <3>2, <3>4, <3>5, <1>2, <1>3, <1>5, <1>8 DEF AtIndexEnd, AtFrame, SameFrames
  <2>2. CASE c > 0
    <3>1. found # {} /\ first = m /\ Max(found) = m + c - 1
      <4>1. c \in Nat \ {0}
        BY <2>2
      <4> QED BY <4>1, <1>4, <1>6, IntervalEnds
    <3> HIDE DEF first
    <3>2. more = [k \in 1 .. c |-> OffsetOf(e, m + k)]
      <4>1. ASSUME NEW k \in 1 .. c PROVE offset + OffsetOf(e, first + k) - OffsetOf(e, first) = OffsetOf(e, m + k)
        <5>1. OffsetOf(e, m + k) \in Nat /\ OffsetOf(e, m) \in Nat
          <6>1. m + k \in Nat /\ m + k <= m + c /\ m <= m + c
            BY <1>6
          <6> QED BY <6>1, <1>6, <1>9
        <5> QED BY <5>1, <3>1, <1>6
      <4> QED BY <4>1, <1>10
    <3> DEFINE end == e.start + OffsetOf(e, m + c)
    <3>3. used = Used(t0, end, limit)
      <4>1. Max(found) + 1 = m + c
        BY <3>1, <1>6
      <4> QED BY <3>1, <4>1
    <3>4. end \in Nat /\ end <= bound /\ ParsePos(t0) = e.start + OffsetOf(e, m)
          /\ ParsePos(t0) < end
      <4>1. m + c \in Nat /\ m + c \in Positions(e) /\ m < m + c /\ m <= m + c
        BY <2>2, <1>6, <1>9
      <4>2. OffsetOf(e, m + c) \in Nat /\ OffsetOf(e, m) \in Nat
            /\ OffsetOf(e, m) < OffsetOf(e, m + c)
        BY <4>1, <1>5, <1>6, OffsetsGrow
      <4>3. ParsePos(t0) = e.start + OffsetOf(e, m)
        BY <1>2, <1>3 DEF AtIndexEnd, AtFrame
      <4> QED BY <4>2, <4>3, <2>2, <1>4, <1>6
    <3> HIDE DEF used, end, more
    <3>5. t0.buffered > 0 => t0.bufferFrom + t0.buffered = t0.filePos
      BY <1>2 DEF AtIndexEnd
    <3>6. ParsePos(t0) \in Nat /\ ParsePos(t0) <= t0.filePos /\ t0.filePos - ParsePos(t0) <= Chunk
      BY <3>5, <1>5, ParsePosIs
    <3>7. t0.filePos - end <= Chunk /\ (end > t0.filePos => end <= limit)
      BY SMTT(60), <3>4, <3>6, <1>5, <1>7, <1>8, ParserAssumption
    <3>8. Parsed(t0, used, limit) /\ ParsePos(used) = end
      BY <3>3, <3>4, <3>7, <1>5, <1>7, UsedIs
    <3>9. used.filePos <= bound
      <4>1. used.filePos \in Nat
        BY <3>8, TrackFields DEF Parsed
      <4>2. used.filePos >= t0.filePos /\ (used.filePos > t0.filePos => used.filePos <= limit)
        BY <3>8 DEF Parsed
      <4> QED BY <4>1, <4>2, <1>5, <1>7, <1>8
    <3> QED BY <3>2, <3>8, <3>9 DEF Parsed, end, more
  <2> QED BY <2>1, <2>2
<1> HIDE DEF used, more
<1>12. more \in Seq(Nat) /\ Len(more) = c
  <2>1. \A k \in 1 .. c : OffsetOf(e, m + k) \in Nat
    <3>1. \A k \in 1 .. c : m + k \in Nat /\ m + k <= m + c
      BY <1>6
    <3> QED BY <3>1, <1>9
  <2> QED BY <2>1, <1>11, IsASeq
<1>13. /\ u.essence = e /\ u.duration = t.duration /\ u.complete = t.complete
       /\ u.position = m /\ u.essenceOffset = OffsetOf(e, m)
       /\ u.filePos = used.filePos /\ u.bufferFrom = used.bufferFrom /\ u.buffered = used.buffered
       /\ u.offsets = t.offsets \o more
  <2>1. t0.position = m /\ t0.essenceOffset = OffsetOf(e, m)
    BY <1>2, <1>3 DEF AtIndexEnd, AtFrame
  <2> QED BY <2>1, <1>3, <1>11 DEF Tracks, SameFrames
<1>14. /\ u.offsets \in Seq(Nat) /\ Len(u.offsets) = m + 1 + c
       /\ \A k \in 1 .. m + 1 + c :
            u.offsets[k] = IF k <= m + 1 THEN t.offsets[k] ELSE more[k - (m + 1)]
  <2>1. Len(t.offsets) = m + 1
    <3>1. Len(t.offsets) \in Nat /\ m = Len(t.offsets) - 1
      BY <1>5, LenProperties DEF LastIndexed, m
    <3> QED BY <3>1
  <2>2. /\ t.offsets \o more \in Seq(Nat) /\ Len(t.offsets \o more) = Len(t.offsets) + Len(more)
        /\ \A k \in 1 .. Len(t.offsets) + Len(more) :
             (t.offsets \o more)[k] = IF k <= Len(t.offsets) THEN t.offsets[k]
                                      ELSE more[k - Len(t.offsets)]
    BY ZenonT(60), <1>5, <1>12, ConcatProperties
  <2> QED BY <2>1, <2>2, <1>12, <1>13
<1>15. u.offsets = [k \in 1 .. Len(u.offsets) |-> OffsetOf(e, k - 1)]
  <2>1. ASSUME NEW k \in 1 .. m + 1 + c PROVE u.offsets[k] = OffsetOf(e, k - 1)
    <3>1. CASE k <= m + 1
      <4>1. k - 1 \in 0 .. m /\ (k - 1) + 1 = k
        BY <3>1, <1>6
      <4>2. GetFrameOffset(t, k - 1) = OffsetOf(e, k - 1)
        BY <4>1, <1>5, IndexFacts DEF m, e
      <4> QED BY <4>1, <4>2, <3>1, <1>14 DEF GetFrameOffset
    <3>2. CASE ~(k <= m + 1)
      <4>1. k - (m + 1) \in 1 .. c /\ m + (k - (m + 1)) = k - 1
        BY <3>2, <1>6
      <4>2. more[k - (m + 1)] = OffsetOf(e, k - 1)
        BY <4>1, <1>11
      <4> QED BY <4>2, <3>2, <1>14
    <3> QED BY <3>1, <3>2
  <2>2. u.offsets = [k \in 1 .. Len(u.offsets) |-> u.offsets[k]]
    BY <1>14, LenProperties
  <2> HIDE DEF u
  <2> QED BY <2>1, <2>2, <1>14
<1>16. u \in Tracks
  <2>1. t.offsets \o more \in Seq(Nat) \ {<<>>}
    <3>1. u.offsets \in Seq(Nat) /\ Len(u.offsets) # 0
      BY <1>14, <1>6
    <3>2. Len(<<>>) = 0
      BY EmptySeq
    <3> HIDE DEF u
    <3>3. u.offsets \in Seq(Nat) \ {<<>>}
      BY <3>1, <3>2
    <3> QED BY <3>3, <1>13
  <2>2. used.offsets = t.offsets
    BY <1>11, <1>3 DEF SameFrames
  <2> QED BY <2>1, <2>2, <1>11 DEF Tracks
<1> HIDE DEF u
<1>17. LastIndexed(u) = m + c
  BY <1>14, <1>6 DEF LastIndexed
<1>18. OffsetOf(e, m + c) <= e.units
  <2>1. CASE c = 0
    <3>1. m + c = m /\ m \in 0 .. m
      BY <2>1, <1>6
    <3> QED BY <3>1, <1>5, IndexFacts DEF m, e
  <2>2. CASE c > 0
    <3>1. OffsetOf(e, m + c) \in Nat
      <4>1. m + c \in Nat /\ m + c <= m + c
        BY <1>6
      <4> QED BY <4>1, <1>9
    <3> QED BY <3>1, <2>2, <1>4, <1>6, <1>7, <1>8
  <2> QED BY <2>1, <2>2
<1>19. Indexed(u)
  <2>1. LastIndexed(u) \in 0 .. Len(e.sizes)
    BY <1>17, <1>4, <1>6
  <2>2. ~(u.duration >= 0) /\ u.duration <= LastIndexed(u)
    BY <1>13, <1>5, <1>17, <1>6
  <2>3. u.complete <=> u.duration >= 0
    BY <2>2, <1>13, <1>5 DEF Kept, Indexed, e
  <2> QED BY <2>1, <2>2, <2>3, <1>13, <1>15, <1>17, <1>18 DEF Indexed
<1>20. Kept(u)
  BY <1>16, <1>19, <1>13, <1>5 DEF Kept, e
<1>21. ParsePos(u) = ParsePos(used)
  BY <1>13 DEF ParsePos
<1>22. u.filePos \in Nat /\ u.filePos <= bound /\ u.filePos <= End(e)
  <2>1. u.filePos \in Nat
    BY <1>16, TrackFields
  <2> QED BY <2>1, <1>13, <1>11, <1>8, <1>7, <1>6
<1>23. u.buffered > 0 => u.bufferFrom + u.buffered = u.filePos
  BY <1>13, <1>11
<1>24. Extends(t, u, c)
  BY <1>13, <1>17, <1>20, <1>21, <1>11, <1>22, <1>23 DEF Extends, e, m
<1> QED BY <1>1, <1>24, <1>22 DEF bound, t0


\* What UpdateIndexTable gives.  When it fails it may leave the file anywhere, but
\* the parser can go back to every frame that was in the index.
UpdateGives(t, position, limit, r) ==
  /\ r.track.essence = t.essence
  /\ r.ok =>
       /\ TrackOK(r.track)
       /\ r.track.position = position
       /\ r.track.duration = t.duration
       /\ LastIndexed(r.track) = position
  /\ ~r.ok =>
       /\ Kept(r.track)
       /\ r.track.duration \in LastIndexed(t) .. position - 1
       /\ \A q \in 0 .. LastIndexed(t) : CanReturn(r.track, q)
       /\ limit = End(t.essence) => r.track.duration = FramesIn[t.essence]

LEMMA UpdateIndexTableGives ==
  ASSUME NEW t, TrackOK(t), t.essence.kind = "variable", t.duration < 0,
         NEW position \in Nat, position > LastIndexed(t), NEW limit, Limit(t.essence, limit)
  PROVE  UpdateGives(t, position, limit, UpdateIndexTable(t, position, limit))
<1> DEFINE e == t.essence
           m == LastIndexed(t)
           t0 == AtLastIndexed(t)
           n == position - m
           t1 == Extended(t, n, limit)
           atEOF == EndFound(t1, limit)
           bound == Max({limit, t0.filePos})
           next == [t1 EXCEPT !.position = position, !.essenceOffset = Last(t1.offsets)]
           away == [atEOF EXCEPT !.filePos = atEOF.essenceOffset + Last(atEOF.offsets)]
           r == UpdateIndexTable(t, position, limit)
<1>1. /\ TrackOK(t0) /\ AtIndexEnd(t0) /\ SameFrames(t, t0) /\ LastIndexed(t0) = m
  BY AtLastIndexedIs
<1>2. /\ t0.essence = e /\ Kept(t) /\ Kept(t0) /\ t \in Tracks /\ WellFormed(e) /\ e \in Essences
      /\ m \in Nat /\ t.duration = -1 /\ t0.filePos \in Nat
  BY <1>1, TrackFields, IndexFacts DEF TrackOK, Kept, SameFrames
<1>3. n \in Nat /\ n > 0 /\ m + n = position
  BY <1>2
<1>4. limit \in Nat /\ limit <= End(e) /\ End(e) = e.start + e.units /\ e.start \in Nat
      /\ e.units \in Nat /\ Len(e.sizes) \in Nat
  BY <1>2, LenProperties DEF Limit, End, WellFormed
<1> HIDE DEF n
<1>5. PICK c \in Nat : IsFound(t0, n, limit, c)
  BY <1>1, <1>2, <1>3, <1>4, FoundAre
<1>6. Extends(t, t1, c)
  BY <1>3, <1>5, ExtendedIs
<1>7. /\ c \in 0 .. n /\ m + c <= Len(e.sizes)
      /\ c < n => \/ m + c = Len(e.sizes)
                  \/ e.start + OffsetOf(e, m + c + 1) > bound
  BY <1>1, <1>2, <1>5 DEF IsFound
<1>8. bound \in Nat /\ bound >= limit
  <2>1. limit \in Int /\ t0.filePos \in Int
    BY <1>2, <1>4
  <2>2. bound \in {limit, t0.filePos} /\ bound >= limit /\ bound >= t0.filePos
    BY <2>1, MaxOfTwo
  <2> HIDE DEF bound
  <2> QED BY <2>2, <1>2, <1>4
<1>9. ~t.complete
  BY <1>2 DEF Kept, Indexed
<1>10. r = IF m + c = position THEN Result(TRUE, next)
           ELSE IF atEOF.position = atEOF.duration THEN Result(FALSE, atEOF)
           ELSE Result(FALSE, away)
  <2>1. LastIndexed(t1) = m + c
    BY <1>6 DEF Extends, m
  <2>2. r = IF t.complete THEN Result(FALSE, t)
            ELSE IF LastIndexed(t1) = position THEN Result(TRUE, next)
            ELSE IF atEOF.position = atEOF.duration THEN Result(FALSE, atEOF)
            ELSE Result(FALSE, away)
    BY UpdateIs DEF n
  <2> HIDE DEF next, away, atEOF, r, t1, m
  <2> QED BY <2>1, <2>2, <1>9
<1> HIDE DEF t1, t0, r, e, m, bound
<1>11. /\ Kept(t1) /\ t1.essence = e /\ t1.duration = -1
       /\ LastIndexed(t1) = m + c /\ t1.position = m /\ t1.essenceOffset = OffsetOf(e, m)
       /\ ParsePos(t1) = e.start + OffsetOf(e, m + c)
       /\ t1.buffered > 0 => t1.bufferFrom + t1.buffered = t1.filePos
       /\ t1.filePos <= End(e)
  BY <1>2, <1>6 DEF Extends, e, m
<1>12. /\ t1 \in Tracks /\ Indexed(t1) /\ e.kind = "variable" /\ t1.offsets \in Seq(Nat)
       /\ t1.filePos \in Nat /\ Last(t1.offsets) = OffsetOf(e, m + c) /\ OffsetOf(e, m + c) \in Nat
       /\ m + c \in Nat /\ m + c <= FramesIn[e]
  <2>1. t1 \in Tracks /\ Indexed(t1) /\ e.kind = "variable"
    BY <1>11 DEF Kept, e
  <2>2. m + c \in Nat /\ m + c \in 0 .. m + c
    BY <1>2
  <2>3. /\ Last(t1.offsets) = OffsetOf(e, m + c)
        /\ \A p \in 0 .. m + c : OffsetOf(e, p) \in Nat /\ p <= FramesIn[e]
    BY <2>1, <1>11, IndexFacts
  <2> QED BY <2>1, <2>2, <2>3, TrackFields
<1>13. CASE m + c = position
  <2>1. r = Result(TRUE, next)
    BY <1>10, <1>13
  <2>2. next \in Tracks
    BY <1>12 DEF Tracks
  <2>3. /\ next.essence = e /\ next.duration = -1 /\ next.offsets = t1.offsets
        /\ next.complete = t1.complete /\ next.position = position
        /\ next.essenceOffset = OffsetOf(e, position) /\ next.filePos = t1.filePos
        /\ next.bufferFrom = t1.bufferFrom /\ next.buffered = t1.buffered
    BY <1>11, <1>12, <1>13 DEF Tracks
  <2> HIDE DEF next
  <2>4. LastIndexed(next) = position /\ Reach(next) = position
    BY <2>3, <1>11, <1>13 DEF LastIndexed, Reach
  <2>5. Kept(next)
    BY <2>2, <2>3, <1>11, <1>12 DEF Kept, Indexed, LastIndexed
  <2>6. ParsePos(next) = ParsePos(t1)
    BY <2>3 DEF ParsePos
  <2>7. AtFrame(next)
    BY <2>3, <2>6, <1>11, <1>13 DEF AtFrame
  <2>8. TrackOK(next)
    BY <2>3, <2>4, <2>5, <2>7, <1>11 DEF TrackOK, Placed
  <2>9. r.ok = TRUE /\ r.track = next
    BY <2>1 DEF Result
  <2> QED BY <2>3, <2>4, <2>8, <2>9, <1>2 DEF UpdateGives, e, r
<1>14. CASE m + c # position
  <2>1. c < n /\ m + c < position
    BY <1>2, <1>3, <1>7, <1>14
  <2> DEFINE failed == ParseFailed(t1, limit)
  <2>2. Parsed(t1, failed, limit)
    BY <1>11, <1>12, <1>4, ParseFailedIs
  <2>3. atEOF = [failed EXCEPT !.complete = TRUE, !.duration = m + c]
    BY <1>11 DEF EndFound
  <2> HIDE DEF failed, atEOF
  <2>4. /\ atEOF \in Tracks /\ atEOF.essence = e /\ atEOF.duration = m + c
        /\ atEOF.offsets = t1.offsets /\ atEOF.complete = TRUE /\ atEOF.position = m
        /\ atEOF.essenceOffset = OffsetOf(e, m)
        /\ atEOF.filePos = failed.filePos /\ atEOF.bufferFrom = failed.bufferFrom
        /\ atEOF.buffered = failed.buffered
    BY <2>2, <2>3, <1>11, <1>12 DEF Parsed, SameFrames, Tracks
  <2>5. LastIndexed(atEOF) = m + c
    BY <2>4, <1>11 DEF LastIndexed
  <2>6. Kept(atEOF)
    <3>1. Indexed(atEOF)
      BY <2>4, <2>5, <1>11, <1>12 DEF Indexed, LastIndexed
    <3> QED BY <3>1, <2>4, <1>2, <1>12 DEF Kept
  <2>7. limit = End(e) => m + c = FramesIn[e]
    <3> SUFFICES ASSUME limit = End(e), ~(m + c = FramesIn[e]) PROVE FALSE
      OBVIOUS
    <3> DEFINE F == FramesIn[e]
    <3>1. /\ F \in Nat /\ F \in Positions(e) /\ OffsetOf(e, F) <= e.units
      BY <1>2, <1>12, FramesAre, Extents
    <3>2. m + c < F /\ m + c + 1 \in Nat /\ m + c + 1 <= F
      BY <3>1, <1>12
    <3>3. F <= Len(e.sizes)
      BY <3>1, <1>12, <1>4 DEF Positions
    <3> HIDE DEF F
    <3>4. e.start + OffsetOf(e, m + c + 1) > bound
      BY <3>1, <3>2, <3>3, <2>1, <1>4, <1>7, <1>12
    <3>5. /\ OffsetOf(e, m + c + 1) \in Nat /\ OffsetOf(e, F) \in Nat
          /\ m + c + 1 < F => OffsetOf(e, m + c + 1) < OffsetOf(e, F)
      BY <3>1, <3>2, <1>2, OffsetsGrow
    <3>6. OffsetOf(e, m + c + 1) <= e.units
      BY <3>1, <3>2, <3>5, <1>4
    <3> QED BY <3>4, <3>5, <3>6, <1>4, <1>8
  <2>8. m + c \in m .. position - 1
    BY <2>1, <1>2, <1>12
  <2>9. CASE atEOF.position = atEOF.duration
    <3>1. r = Result(FALSE, atEOF)
      BY <1>10, <1>14, <2>9
    <3>2. m + c = m
      BY <2>4, <2>9
    <3>3. TrackOK(atEOF)
      <4>1. IsEOF(atEOF)
        BY <2>4, <3>2, <1>2 DEF IsEOF
      <4>2. atEOF.position <= Reach(atEOF)
        BY <2>4, <3>2, <1>2 DEF Reach
      <4>3. atEOF.filePos <= End(e)
        <5>1. failed.filePos \in Nat
          BY <2>2, TrackFields DEF Parsed
        <5>2. failed.filePos >= t1.filePos /\ (failed.filePos > t1.filePos => failed.filePos <= limit)
          BY <2>2 DEF Parsed
        <5> QED BY SMTT(60), <5>1, <5>2, <2>4, <1>4, <1>11, <1>12
      <4>4. atEOF.buffered > 0 => atEOF.bufferFrom + atEOF.buffered = atEOF.filePos
        BY <2>2, <2>4 DEF Parsed
      <4> QED BY <4>1, <4>2, <4>3, <4>4, <2>4, <2>6 DEF TrackOK, Placed
    <3>4. ASSUME NEW q \in 0 .. m PROVE CanReturn(atEOF, q)
      <4>1. q \in 0 .. Reach(atEOF)
        BY <2>4, <3>2, <1>2 DEF Reach
      <4>2. q = atEOF.duration => atEOF.position = q
        BY <2>9
      <4> QED BY <4>1, <4>2, <2>6, <3>3 DEF CanReturn
    <3>5. r.ok = FALSE /\ r.track = atEOF
      BY <3>1 DEF Result
    <3> QED BY <3>4, <3>5, <2>4, <2>6, <2>7, <2>8 DEF UpdateGives, e, m, r
  <2>10. CASE atEOF.position # atEOF.duration
    <3>1. r = Result(FALSE, away)
      BY <1>10, <1>14, <2>10
    <3>2. c > 0 /\ m < m + c
      BY <2>4, <2>10, <1>2, <1>7
    <3>3. atEOF.essenceOffset + Last(atEOF.offsets) \in Nat
      <4>1. atEOF.essenceOffset \in Nat
        BY <2>4, TrackFields
      <4> QED BY <4>1, <2>4, <1>12
    <3>4. away \in Tracks
      BY <3>3, <2>4 DEF Tracks
    <3>5. /\ away.essence = e /\ away.duration = m + c /\ away.offsets = t1.offsets
          /\ away.complete = TRUE
      BY <2>4 DEF Tracks
    <3> HIDE DEF away
    <3>6. LastIndexed(away) = m + c /\ Reach(away) = m + c
      BY <3>5, <1>11, <1>12 DEF LastIndexed, Reach
    <3>7. Kept(away)
      <4>1. Indexed(away)
        BY <3>5, <3>6, <1>11, <1>12 DEF Indexed, LastIndexed
      <4> QED BY <4>1, <3>4, <3>5, <1>2, <1>12 DEF Kept
    <3>8. ASSUME NEW q \in 0 .. m PROVE CanReturn(away, q)
      <4>1. q \in 0 .. Reach(away) /\ q # away.duration
        BY <3>2, <3>5, <3>6, <1>2, <1>12
      <4> QED BY <4>1, <3>7 DEF CanReturn
    <3>9. r.ok = FALSE /\ r.track = away
      BY <3>1 DEF Result
    <3> QED BY <3>5, <3>7, <3>8, <3>9, <2>7, <2>8 DEF UpdateGives, e, m, r
  <2> QED BY <2>9, <2>10
<1> QED BY <1>13, <1>14 DEF r


-----------------------------------------------------------------------------
(* What the calls of a track give *)

LEMMA ReadNextGives ==
  ASSUME NEW t, TrackOK(t), t.essence.kind = "variable", ~IsEOF(t),
         ~HaveFrameOffset(t, t.position + 1), NEW limit, Limit(t.essence, limit)
  PROVE  ReadGives(t, limit, ReadNext(t, limit))
<1> DEFINE e == t.essence
           p == t.position
           t0 == AtLastIndexed(t)
           updated == UpdateIndexTable(t, p + 1, limit)
           size == Last(updated.track.offsets) - Last(t.offsets)
           r == ReadNext(t, limit)
<1>1. /\ Kept(t) /\ t \in Tracks /\ WellFormed(e) /\ e \in Essences /\ p \in Nat
      /\ t.duration \in Nat \cup {-1} /\ LastIndexed(t) \in Nat /\ p <= Reach(t)
      /\ Reach(t) <= LastIndexed(t) /\ Reach(t) \in Nat
  BY TrackFields, IndexFacts DEF TrackOK, Kept, Placed
<1>2. p = LastIndexed(t) /\ t.duration = -1
  <2>1. p + 1 \in Nat
    BY <1>1
  <2>2. ~(p + 1 <= LastIndexed(t))
    BY <1>1, <2>1, IndexFacts
  <2>3. t.duration >= 0 => p < t.duration /\ t.duration = Reach(t)
    BY <1>1 DEF IsEOF, Reach
  <2> QED BY <2>2, <2>3, <1>1
<1>3. UpdateGives(t, p + 1, limit, updated)
  BY <1>1, <1>2, UpdateIndexTableGives
<1>4. /\ r.ok = updated.ok /\ r.track = updated.track
      /\ r.data = IF updated.ok THEN Units(ParsePos(t0), size) ELSE <<>>
  BY DEF ReadNext, ReadResult
<1>5. Reach(t) = p /\ LengthOf(t) = FramesIn[e] /\ FramesIn[e] \in Nat /\ p <= FramesIn[e]
  <2>1. Reach(t) = p /\ LengthOf(t) = FramesIn[e]
    BY <1>1, <1>2 DEF Reach, LengthOf
  <2> QED BY <2>1, <1>1, LengthIs
<1> HIDE DEF updated, r, size, t0, e
<1>6. CASE updated.ok
  <2>1. /\ TrackOK(r.track) /\ r.track.position = p + 1 /\ r.track.duration = -1
        /\ LastIndexed(r.track) = p + 1 /\ r.track.essence = e
    BY <1>2, <1>3, <1>4, <1>6 DEF UpdateGives, e
  <2>2. Reach(r.track) = p + 1
    BY <2>1, <1>1 DEF Reach
  <2>3. CanReturn(r.track, p)
    <3>1. p \in 0 .. Reach(r.track) /\ p # r.track.duration
      BY <2>1, <2>2, <1>1
    <3> QED BY <3>1, <2>1 DEF CanReturn, TrackOK
  <2>4. AtFrame(t)
    BY DEF TrackOK, Placed
  <2>5. t0 = t
    BY <1>2 DEF AtLastIndexed, t0
  <2>6. Last(r.track.offsets) = OffsetOf(e, p + 1) /\ Last(t.offsets) = OffsetOf(e, p)
    <3>1. Kept(r.track) /\ r.track.essence.kind = "variable"
      BY <2>1 DEF TrackOK, e
    <3> QED BY <3>1, <2>1, <1>1, <1>2, IndexFacts DEF e
  <2>7. p + 1 \in Positions(e) /\ p \in Positions(e)
    <3>1. Kept(r.track) /\ r.track.essence.kind = "variable" /\ p \in 0 .. p + 1 /\ p + 1 \in 0 .. p + 1
      BY <2>1, <1>1 DEF TrackOK, e
    <3> QED BY <3>1, <2>1, IndexFacts
  <2>8. size = FrameSize(e, p)
    <3>1. OffsetOf(e, p) \in Nat /\ FrameSize(e, p) \in Nat
          /\ OffsetOf(e, p + 1) = OffsetOf(e, p) + FrameSize(e, p)
      BY <2>7, <1>1, OffsetIsSum
    <3>2. size = OffsetOf(e, p + 1) - OffsetOf(e, p)
      BY <2>6, <1>4 DEF size
    <3> QED BY <3>1, <3>2
  <2>9. r.data = Frame(e, p)
    BY <2>4, <2>5, <2>8, <1>4, <1>6 DEF AtFrame, Frame, e
  <2>10. t.essenceOffset = OffsetOf(e, p)
    BY <2>4 DEF AtFrame, e
  <2>11. Reach(r.track) >= Reach(t) /\ p < Reach(r.track)
    BY <2>2, <1>5, <1>1
  <2> QED BY <2>1, <2>3, <2>9, <2>10, <2>11, <1>2, <1>4, <1>6 DEF ReadGives, e, r
<1>7. CASE ~updated.ok
  <2>0. /\ Kept(r.track) /\ r.track.duration \in LastIndexed(t) .. (p + 1) - 1
        /\ r.track.essence = e
        /\ \A q \in 0 .. LastIndexed(t) : CanReturn(r.track, q)
        /\ limit = End(e) => r.track.duration = FramesIn[e]
    BY <1>3, <1>4, <1>7 DEF UpdateGives, e
  <2>1. /\ Kept(r.track) /\ r.track.duration \in p .. (p + 1) - 1 /\ r.track.essence = e
        /\ \A q \in 0 .. p : CanReturn(r.track, q)
        /\ limit = End(e) => r.track.duration = FramesIn[e]
    BY <2>0, <1>2
  <2>2. r.track.duration = p /\ p \in 0 .. p /\ p >= 0
    BY <2>1, <1>1
  <2>3. CanReturn(r.track, p)
    BY <2>1, <2>2
  <2>4. r.track.position = p
    BY <2>2, <2>3 DEF CanReturn
  <2>5. IsEOF(r.track)
    BY <2>2, <2>4, <1>1 DEF IsEOF
  <2>6. LengthOf(r.track) = p
    BY <2>2, <1>1 DEF LengthOf
  <2>7. LengthOf(r.track) \in p .. LengthOf(t)
    BY <2>6, <1>5, <1>1
  <2>8. limit = End(e) => LengthOf(r.track) = LengthOf(t)
    BY <2>1, <2>2, <2>6, <1>5
  <2> QED BY <2>1, <2>3, <2>4, <2>5, <2>7, <2>8, <1>4, <1>7, NoDataIsData DEF ReadGives, e, r
<1> QED BY <1>6, <1>7

LEMMA TrackReadGives ==
  ASSUME NEW t, TrackOK(t), NEW limit, Limit(t.essence, limit)
  PROVE  ReadGives(t, limit, TrackRead(t, limit))
<1>1. CASE t.essence.kind = "sized"
  BY <1>1, SizedReadGives DEF TrackRead
<1>2. CASE t.essence.kind = "variable"
  <2>1. TrackRead(t, limit) = VariableRead(t, limit)
    BY <1>2 DEF TrackRead
  <2>2. CASE IsEOF(t)
    BY <2>1, <2>2, EndGives DEF VariableRead
  <2>3. CASE ~IsEOF(t) /\ HaveFrameOffset(t, t.position + 1)
    BY <1>2, <2>1, <2>3, ReadIndexedGives DEF VariableRead
  <2>4. CASE ~IsEOF(t) /\ ~HaveFrameOffset(t, t.position + 1)
    BY <1>2, <2>1, <2>4, ReadNextGives DEF VariableRead
  <2> QED BY <2>2, <2>3, <2>4
<1> QED BY <1>1, <1>2, KindOf DEF TrackOK

\* What a seek of a track gives.
SeekGives(t, p, limit, r) ==
  /\ r.track.essence = t.essence
  /\ Reach(r.track) >= Reach(t)
  /\ t.position <= p => CanReturn(r.track, t.position)
  /\ r.ok =>
       /\ TrackOK(r.track)
       /\ r.track.position = p
       /\ r.track.duration = t.duration
       /\ p <= LengthOf(t)
  /\ ~r.ok =>
       /\ t.position <= p
       /\ LengthOf(r.track) \in t.position .. LengthOf(t)
       /\ limit = End(t.essence) => p >= LengthOf(t) /\ LengthOf(r.track) = LengthOf(t)

\* A seek within what is known of the track.
LEMMA NearSeekGives ==
  ASSUME NEW t, TrackOK(t), NEW p \in 0 .. Reach(t), t.duration >= 0 => p < t.duration,
         NEW r, r.ok = TRUE, TrackOK(r.track), SameFrames(t, r.track), r.track.position = p,
         NEW limit
  PROVE  SeekGives(t, p, limit, r)
<1> DEFINE u == r.track
<1>1. Kept(t) /\ t.position \in Nat /\ t.duration \in Nat \cup {-1} /\ Reach(t) \in Nat
      /\ LengthOf(t) \in Nat /\ Reach(t) <= LengthOf(t) /\ t.position <= Reach(t)
  BY TrackFields, LengthIs DEF TrackOK, Kept, Placed
<1>2. Reach(u) = Reach(t) /\ u.essence = t.essence /\ u.duration = t.duration
  BY DEF SameFrames, Reach, LastIndexed
<1>3. ASSUME t.position <= p PROVE CanReturn(u, t.position)
  <2>1. t.position \in 0 .. Reach(u) /\ t.position # u.duration
    BY <1>1, <1>2, <1>3
  <2> QED BY <2>1 DEF CanReturn, TrackOK
<1>4. p <= LengthOf(t) /\ Reach(u) >= Reach(t)
  BY <1>1, <1>2
<1> QED BY <1>2, <1>3, <1>4 DEF SeekGives

\* A seek to the end of a track that's known.
LEMMA FarSeekGives ==
  ASSUME NEW t, TrackOK(t), NEW p \in Nat, t.duration >= 0, p >= t.duration, NEW limit
  PROVE  SeekGives(t, p, limit, Result(FALSE, t))
<1>1. Kept(t) /\ t.position \in Nat /\ t.duration \in Nat \cup {-1} /\ Reach(t) \in Nat
      /\ LengthOf(t) \in Nat /\ Reach(t) <= LengthOf(t) /\ t.position <= Reach(t)
  BY TrackFields, LengthIs DEF TrackOK, Kept, Placed
<1>2. Reach(t) = t.duration /\ LengthOf(t) = t.duration
  BY <1>1 DEF Reach, LengthOf
<1>3. t.position <= p /\ LengthOf(t) \in t.position .. LengthOf(t) /\ p >= LengthOf(t)
      /\ Reach(t) >= Reach(t)
  BY <1>1, <1>2
<1> QED BY <1>3, CanStay DEF SeekGives, Result

LEMMA TrackSeekGives ==
  ASSUME NEW t, TrackOK(t), NEW p \in Nat, NEW limit, Limit(t.essence, limit)
  PROVE  SeekGives(t, p, limit, TrackSeek(t, p, limit))
<1> DEFINE e == t.essence
           r == TrackSeek(t, p, limit)
<1>1. /\ Kept(t) /\ t \in Tracks /\ t.position \in Nat /\ t.duration \in Nat \cup {-1}
      /\ Reach(t) \in Nat /\ LengthOf(t) \in Nat /\ Reach(t) <= LengthOf(t)
      /\ t.position <= Reach(t)
  BY TrackFields, LengthIs DEF TrackOK, Kept, Placed
<1>2. CASE e.kind = "sized"
  <2>1. r = SizedSeek(t, p)
    BY <1>2 DEF TrackSeek
  <2>2. t.duration \in Nat
    BY <1>1, <1>2 DEF Kept
  <2>3. CASE p < t.duration
    <3>1. r.ok /\ TrackOK(r.track) /\ SameFrames(t, r.track) /\ r.track.position = p
      BY <1>1, <1>2, <2>1, <2>3, SizedSeekIs
    <3>2. r.ok = TRUE
      <4>1. ~(p >= t.duration)
        BY <2>2, <2>3
      <4> QED BY <2>1, <4>1 DEF SizedSeek, Result
    <3>3. p \in 0 .. Reach(t)
      BY <2>2, <2>3 DEF Reach
    <3> HIDE DEF r
    <3>4. SeekGives(t, p, limit, r)
      BY <3>1, <3>2, <3>3, <2>3, NearSeekGives
    <3> QED BY <3>4 DEF r
  <2>4. CASE ~(p < t.duration)
    <3>1. p >= t.duration /\ t.duration >= 0
      BY <2>2, <2>4
    <3>2. r = Result(FALSE, t)
      BY <2>1, <3>1 DEF SizedSeek
    <3> QED BY <3>1, <3>2, FarSeekGives
  <2> QED BY <2>3, <2>4
<1>3. CASE e.kind = "variable"
  <2>1. r = VariableSeek(t, p, limit)
    BY <1>3 DEF TrackSeek
  <2>2. CASE t.duration >= 0 /\ p >= t.duration
    <3>1. r = Result(FALSE, t)
      BY <2>1, <2>2 DEF VariableSeek
    <3> QED BY <2>2, <3>1, FarSeekGives
  <2>3. /\ LastIndexed(t) \in Nat /\ Reach(t) <= LastIndexed(t)
        /\ HaveFrameOffset(t, p) <=> p <= LastIndexed(t)
    BY <1>1, <1>3, IndexFacts
  <2>4. CASE ~(t.duration >= 0 /\ p >= t.duration) /\ HaveFrameOffset(t, p)
    <3>1. r = Result(TRUE, SeekIndexed(t, p))
      BY <2>1, <2>4 DEF VariableSeek
    <3>2. p \in 0 .. Reach(t) /\ (t.duration >= 0 => p < t.duration)
      BY <2>3, <2>4, <1>1 DEF Reach
    <3> DEFINE u == SeekIndexed(t, p)
    <3>3. TrackOK(u) /\ SameFrames(t, u) /\ u.position = p
      BY <3>2, <1>1, <1>3, SeekIndexedIs
    <3> HIDE DEF u
    <3>4. r.ok = TRUE /\ r.track = u
      BY <3>1 DEF Result, u
    <3> HIDE DEF r
    <3>5. SeekGives(t, p, limit, r)
      BY <3>2, <3>3, <3>4, NearSeekGives
    <3> QED BY <3>5 DEF r
  <2>5. CASE ~(t.duration >= 0 /\ p >= t.duration) /\ ~HaveFrameOffset(t, p)
    <3>1. r = UpdateIndexTable(t, p, limit)
      BY <2>1, <2>5 DEF VariableSeek
    <3>2. p > LastIndexed(t) /\ t.duration = -1
      <4>1. p > LastIndexed(t)
        BY <2>3, <2>5
      <4>2. t.duration >= 0 => t.duration = Reach(t)
        BY DEF Reach
      <4> QED BY <4>1, <4>2, <2>3, <2>5, <1>1
    <3>3. UpdateGives(t, p, limit, r)
      BY <3>1, <3>2, <1>3, UpdateIndexTableGives
    <3>4. /\ Reach(t) = LastIndexed(t) /\ LengthOf(t) = FramesIn[e] /\ t.position <= p
          /\ t.position \in 0 .. LastIndexed(t) /\ FramesIn[e] \in Nat
      <4>1. Reach(t) = LastIndexed(t) /\ LengthOf(t) = FramesIn[e]
        BY <3>2 DEF Reach, LengthOf
      <4> QED BY <4>1, <3>2, <2>3, <1>1
    <3> HIDE DEF r, e
    <3>5. CASE r.ok
      <4>1. /\ TrackOK(r.track) /\ r.track.position = p /\ r.track.duration = -1
            /\ LastIndexed(r.track) = p /\ r.track.essence = e
        BY <3>2, <3>3, <3>5 DEF UpdateGives, e
      <4>2. Reach(r.track) = p
        BY <4>1 DEF Reach
      <4>3. Kept(r.track) /\ p <= FramesIn[e]
        <5>1. Kept(r.track)
          BY <4>1 DEF TrackOK
        <5>2. Reach(r.track) <= LengthOf(r.track) /\ LengthOf(r.track) <= FramesIn[e]
              /\ LengthOf(r.track) \in Nat
          BY <5>1, <4>1, LengthIs
        <5> QED BY <5>1, <5>2, <4>2, <3>4
      <4>4. CanReturn(r.track, t.position)
        <5>1. t.position \in 0 .. Reach(r.track) /\ t.position # r.track.duration
          BY <4>1, <4>2, <3>4, <1>1
        <5> QED BY <5>1, <4>3 DEF CanReturn
      <4>5. Reach(r.track) >= Reach(t)
        BY <4>2, <3>2, <3>4, <2>3
      <4> QED BY <4>1, <4>3, <4>4, <4>5, <3>2, <3>4, <3>5 DEF SeekGives, e, r
    <3>6. CASE ~r.ok
      <4>1. /\ Kept(r.track) /\ r.track.duration \in LastIndexed(t) .. p - 1 /\ r.track.essence = e
            /\ \A q \in 0 .. LastIndexed(t) : CanReturn(r.track, q)
            /\ limit = End(e) => r.track.duration = FramesIn[e]
        BY <3>3, <3>6 DEF UpdateGives, e
      <4>2. CanReturn(r.track, t.position)
        BY <4>1, <3>4
      <4>3. r.track.duration \in Nat /\ r.track.duration >= LastIndexed(t) /\ r.track.duration < p
        BY <4>1, <2>3
      <4>4. Reach(r.track) = r.track.duration /\ LengthOf(r.track) = r.track.duration
        BY <4>3 DEF Reach, LengthOf
      <4>5. LengthOf(r.track) <= FramesIn[e]
        BY <4>1, LengthIs
      <4>6. LengthOf(r.track) \in t.position .. LengthOf(t) /\ Reach(r.track) >= Reach(t)
        BY <4>3, <4>4, <4>5, <3>4, <2>3
      <4>7. limit = End(e) => p >= LengthOf(t) /\ LengthOf(r.track) = LengthOf(t)
        BY <4>1, <4>3, <4>4, <3>4
      <4> QED BY <4>1, <4>2, <4>6, <4>7, <3>4, <3>6 DEF SeekGives, e, r
    <3> QED BY <3>5, <3>6
  <2> QED BY <2>2, <2>4, <2>5
<1> QED BY <1>1, <1>2, <1>3, KindOf


-----------------------------------------------------------------------------
(* Determining the duration *)

\* A track whose index was extended, for t to go on with.
Completed(t, limit, u) ==
  /\ u.essence = t.essence
  /\ CanReturn(u, t.position)
  /\ Reach(u) >= Reach(t)
  /\ LengthOf(u) \in t.position .. LengthOf(t)
  /\ limit = End(t.essence) => u.duration >= 0 /\ LengthOf(u) = LengthOf(t)

\* A failed extension of t's index, or of that of a track which has t's frames
\* and more.
LEMMA FailureCompletes ==
  ASSUME NEW t, TrackOK(t), t.essence.kind = "variable", t.duration < 0,
         NEW limit, NEW u, Kept(u), u.essence = t.essence,
         NEW n \in Nat, n >= LastIndexed(t), NEW last \in Nat,
         u.duration \in n .. last, \A q \in 0 .. n : CanReturn(u, q),
         limit = End(t.essence) => u.duration = FramesIn[t.essence]
  PROVE  Completed(t, limit, u)
<1>1. /\ Kept(t) /\ t.duration = -1 /\ LastIndexed(t) \in Nat /\ t.position \in Nat
      /\ Reach(t) = LastIndexed(t) /\ t.position <= LastIndexed(t)
      /\ LengthOf(t) = FramesIn[t.essence] /\ FramesIn[t.essence] \in Nat
  <2>1. Kept(t) /\ t.duration = -1 /\ LastIndexed(t) \in Nat /\ t.position \in Nat
    BY SMTT(60), TrackFields, IndexFacts DEF TrackOK, Kept
  <2> QED BY <2>1, LengthIs DEF TrackOK, Placed, Reach, LengthOf
<1>2. u.duration \in Nat /\ u.duration >= n
  OBVIOUS
<1>3. Reach(u) = u.duration /\ LengthOf(u) = u.duration
  BY <1>2 DEF Reach, LengthOf
<1>4. LengthOf(u) <= FramesIn[t.essence]
  BY LengthIs
<1>5. t.position \in 0 .. n
  BY <1>1
<1>6. LengthOf(u) \in t.position .. LengthOf(t) /\ Reach(u) >= Reach(t)
  BY <1>1, <1>2, <1>3, <1>4
<1> QED BY <1>1, <1>2, <1>3, <1>5, <1>6 DEF Completed

\* A track with t's frames and more whose duration is not known.
LEMMA ExtensionCompletes ==
  ASSUME NEW t, TrackOK(t), t.essence.kind = "variable", t.duration < 0,
         NEW limit, limit # End(t.essence), NEW u, Kept(u), u.essence = t.essence,
         u.duration = -1, LastIndexed(u) >= LastIndexed(t)
  PROVE  Completed(t, limit, u)
<1>1. /\ Kept(t) /\ t.duration = -1 /\ LastIndexed(t) \in Nat /\ t.position \in Nat
      /\ Reach(t) = LastIndexed(t) /\ t.position <= LastIndexed(t)
      /\ LengthOf(t) = FramesIn[t.essence] /\ FramesIn[t.essence] \in Nat
      /\ Reach(t) <= LengthOf(t)
  <2>1. Kept(t) /\ t.duration = -1 /\ LastIndexed(t) \in Nat /\ t.position \in Nat
    BY TrackFields, IndexFacts DEF TrackOK, Kept
  <2> QED BY <2>1, LengthIs DEF TrackOK, Placed, Reach, LengthOf
<1>2. Reach(u) = LastIndexed(u) /\ LengthOf(u) = FramesIn[t.essence] /\ LastIndexed(u) \in Nat
  BY IndexFacts DEF Reach, LengthOf
<1>3. t.position \in 0 .. Reach(u) /\ t.position # u.duration
  BY <1>1, <1>2
<1>4. LengthOf(u) \in t.position .. LengthOf(t) /\ Reach(u) >= Reach(t)
  BY <1>1, <1>2
<1> QED BY <1>3, <1>4 DEF Completed, CanReturn

\* What DetermineDuration gives.
DetermineGives(t, limit, u) ==
  /\ u.essence = t.essence
  /\ TrackOK(u)
  /\ u.position = t.position
  /\ Reach(u) >= Reach(t)
  /\ LengthOf(u) \in t.position .. LengthOf(t)
  /\ limit = End(t.essence) => u.duration >= 0 /\ LengthOf(u) = LengthOf(t)

LEMMA VariableDetermineGives ==
  ASSUME NEW t, TrackOK(t), t.essence.kind = "variable", t.duration < 0,
         NEW limit, Limit(t.essence, limit)
  PROVE  DetermineGives(t, limit, VariableDetermine(t, limit))
<1> DEFINE e == t.essence
           m == LastIndexed(t)
           t0 == AtLastIndexed(t)
           n == Cardinality(ImagesFound(t0, Len(e.sizes), limit))
           extended == IF n = 0 THEN t ELSE UpdateIndexTable(t, m + n, limit).track
           r == UpdateIndexTable(extended, m + n + 1, limit)
           u == VariableSeek(r.track, t.position, limit).track
<1>1. /\ Kept(t) /\ t.duration = -1 /\ m \in Nat /\ WellFormed(e) /\ e \in Essences
      /\ t.position \in Nat /\ e.kind = "variable"
  BY TrackFields, IndexFacts DEF TrackOK, Kept
<1>2. TrackOK(t0) /\ AtIndexEnd(t0) /\ SameFrames(t, t0) /\ LastIndexed(t0) = m
  BY AtLastIndexedIs
<1>3. limit \in Nat /\ limit <= End(e) /\ End(e) = e.start + e.units /\ e.start \in Nat
      /\ e.units \in Nat /\ Len(e.sizes) \in Nat
  BY <1>1, LenProperties DEF Limit, End, WellFormed
<1>4. t0.essence = e /\ Kept(t0) /\ t0.filePos \in Nat
  BY <1>2, TrackFields DEF SameFrames, TrackOK, Kept
<1>5. PICK c \in Nat : IsFound(t0, Len(e.sizes), limit, c)
  BY <1>1, <1>2, <1>3, <1>4, FoundAre
<1>6. /\ c \in 0 .. Len(e.sizes) /\ ImagesFound(t0, Len(e.sizes), limit) = m .. m + c - 1
      /\ m + c <= Len(e.sizes)
      /\ c < Len(e.sizes) => \/ m + c = Len(e.sizes)
                             \/ e.start + OffsetOf(e, m + c + 1) > Max({limit, t0.filePos})
  BY <1>2, <1>4, <1>5 DEF IsFound
<1>7. n = c
  <2>1. m \in Int /\ m + c - 1 \in Int
    BY <1>1
  <2>2. Cardinality(m .. m + c - 1) = IF m > m + c - 1 THEN 0 ELSE (m + c - 1) - m + 1
    BY <2>1, FS_Interval
  <2> HIDE DEF m, t0, e
  <2>3. n = Cardinality(m .. m + c - 1)
    BY <1>6
  <2> HIDE DEF n
  <2> QED BY <2>2, <2>3, <1>1
<1>8. VariableDetermine(t, limit) = u
  BY <1>1 DEF VariableDetermine
<1>9. Max({limit, t0.filePos}) \in Nat /\ Max({limit, t0.filePos}) >= limit
  <2>1. limit \in Int /\ t0.filePos \in Int
    BY <1>3, <1>4
  <2>2. Max({limit, t0.filePos}) \in {limit, t0.filePos} /\ Max({limit, t0.filePos}) >= limit
    BY <2>1, MaxOfTwo
  <2> QED BY <2>2, <1>3, <1>4
<1> HIDE DEF n, e, m, t0
<1>10. ASSUME limit = End(e), NEW v, Kept(v), v.essence = e, LastIndexed(v) = m + c + 1
       PROVE  FALSE
  <2>1. /\ LastIndexed(v) \in 0 .. Len(e.sizes)
        /\ OffsetOf(e, LastIndexed(v)) <= e.units
    BY <1>1, <1>10 DEF Kept, Indexed
  <2>2. m + c + 1 \in Nat /\ m + c + 1 \in Positions(e)
    BY <2>1, <1>1, <1>10 DEF Positions
  <2>3. OffsetOf(e, m + c + 1) \in Nat
    BY <2>2, <1>1, OffsetIsSum
  <2>4. c < Len(e.sizes) /\ m + c # Len(e.sizes)
    BY <2>1, <1>1, <1>3, <1>6, <1>10
  <2>5. e.start + OffsetOf(e, m + c + 1) > Max({limit, t0.filePos})
    BY <2>4, <1>6
  <2>6. OffsetOf(e, m + c + 1) <= e.units
    BY <2>1, <1>10
  <2> QED BY <2>3, <2>5, <2>6, <1>3, <1>9, <1>10
<1>11. Completed(t, limit, r.track)
  <2>1. CASE n # 0 /\ ~UpdateIndexTable(t, m + n, limit).ok
    <3> DEFINE s == UpdateIndexTable(t, m + n, limit)
    <3>1. extended = s.track
      BY <2>1
    <3>2. UpdateGives(t, m + n, limit, s)
      BY <2>1, <1>1, <1>7, UpdateIndexTableGives DEF m, e
    <3>a. ~s.ok
      BY <2>1
    <3> HIDE DEF s, extended, r
    <3>3. /\ s.track.essence = e /\ Kept(s.track) /\ s.track.duration \in m .. (m + n) - 1
          /\ \A q \in 0 .. m : CanReturn(s.track, q)
          /\ limit = End(e) => s.track.duration = FramesIn[e]
      BY <3>a, <3>2 DEF UpdateGives, e, m
    <3>4. s.track.complete
      <4>1. s.track.duration >= 0
        BY <3>3, <1>1
      <4> QED BY SMTT(60), <4>1, <3>3, <1>1 DEF Kept, Indexed
    <3>5. r.track = s.track
      BY <3>1, <3>4 DEF UpdateIndexTable, Result, r
    <3>6. (m + n) - 1 \in Nat
      BY <2>1, <1>1, <1>7
    <3>7. Completed(t, limit, s.track)
      BY <3>3, <3>6, <1>1, FailureCompletes DEF m, e
    <3> QED BY <3>5, <3>7
  <2>2. CASE ~(n # 0 /\ ~UpdateIndexTable(t, m + n, limit).ok)
    <3>1. /\ TrackOK(extended) /\ extended.essence = e /\ extended.duration = -1
          /\ LastIndexed(extended) = m + n
      <4>1. CASE n = 0
        <5>1. extended = t /\ m + n = m
          BY <4>1, <1>1
        <5> QED BY <5>1, <1>1 DEF m, e
      <4>2. CASE n # 0
        <5> DEFINE s == UpdateIndexTable(t, m + n, limit)
        <5>1. extended = s.track
          BY <4>2
        <5>2. m + n \in Nat /\ m + n > m
          BY <4>2, <1>1, <1>7
        <5>3. UpdateGives(t, m + n, limit, s)
          BY <5>2, <1>1, UpdateIndexTableGives DEF m, e
        <5>4. s.ok
          BY <4>2, <2>2
        <5> HIDE DEF s, extended
        <5> QED BY <5>1, <5>3, <5>4, <1>1 DEF UpdateGives, e
      <4> QED BY <4>1, <4>2
    <3> HIDE DEF extended
    <3>2. m + n + 1 \in Nat /\ m + n + 1 > LastIndexed(extended) /\ extended.duration < 0
          /\ m + n \in Nat /\ m + n >= m
      BY <3>1, <1>1, <1>7
    <3>3. UpdateGives(extended, m + n + 1, limit, r)
      BY <3>1, <3>2, <1>1, UpdateIndexTableGives DEF e
    <3> HIDE DEF r
    <3>4. CASE r.ok
      <4>1. /\ r.track.essence = e /\ TrackOK(r.track) /\ r.track.duration = -1
            /\ LastIndexed(r.track) = m + n + 1
        BY <3>1, <3>3, <3>4 DEF UpdateGives
      <4>2. Kept(r.track)
        BY <4>1 DEF TrackOK
      <4>3. limit # End(e)
        BY <4>1, <4>2, <1>7, <1>10
      <4>4. LastIndexed(r.track) >= m
        BY <4>1, <3>2, <1>1
      <4> QED BY <4>1, <4>2, <4>3, <4>4, <1>1, ExtensionCompletes DEF m, e
    <3>5. CASE ~r.ok
      <4>1. /\ r.track.essence = e /\ Kept(r.track)
            /\ r.track.duration \in m + n .. (m + n + 1) - 1
            /\ \A q \in 0 .. m + n : CanReturn(r.track, q)
            /\ limit = End(e) => r.track.duration = FramesIn[e]
        BY <3>1, <3>3, <3>5 DEF UpdateGives
      <4>2. (m + n + 1) - 1 \in Nat
        BY <3>2
      <4> QED BY <4>1, <4>2, <3>2, <1>1, FailureCompletes DEF m, e
    <3> QED BY <3>4, <3>5
  <2> QED BY <2>1, <2>2
<1> HIDE DEF r
<1>12. u = TrackSeek(r.track, t.position, limit).track
  BY <1>1, <1>11 DEF Completed, TrackSeek, e
<1>13. CanReturn(r.track, t.position)
  BY <1>11 DEF Completed
<1> DEFINE back == TrackSeek(r.track, t.position, limit).track
<1>a. TrackOK(back) /\ SameFrames(r.track, back) /\ back.position = t.position
  BY <1>13, Return
<1>b. u = back
  BY <1>12
<1> HIDE DEF u, back
<1>14. TrackOK(u) /\ SameFrames(r.track, u) /\ u.position = t.position
  BY <1>a, <1>b
<1>15. Reach(u) = Reach(r.track) /\ LengthOf(u) = LengthOf(r.track) /\ u.duration = r.track.duration
       /\ u.essence = r.track.essence
  BY <1>14 DEF SameFrames, Reach, LengthOf, LastIndexed
<1>16. DetermineGives(t, limit, u)
  BY <1>11, <1>14, <1>15 DEF Completed, DetermineGives
<1> QED BY <1>8, <1>16

LEMMA TrackDetermineGives ==
  ASSUME NEW t, TrackOK(t), NEW limit, Limit(t.essence, limit)
  PROVE  DetermineGives(t, limit, TrackDetermine(t, limit))
<1>1. Kept(t) /\ t.position \in Nat /\ Reach(t) \in Nat /\ t.position <= Reach(t)
      /\ LengthOf(t) \in Nat /\ Reach(t) <= LengthOf(t)
  BY TrackFields, LengthIs DEF TrackOK, Kept, Placed
<1>2. ASSUME t.duration >= 0 PROVE DetermineGives(t, limit, t)
  <2>1. LengthOf(t) \in t.position .. LengthOf(t) /\ Reach(t) >= Reach(t)
    BY <1>1
  <2> QED BY <2>1, <1>2 DEF DetermineGives
<1>3. CASE t.essence.kind = "sized"
  <2>1. TrackDetermine(t, limit) = t /\ t.duration >= 0
    BY <1>1, <1>3 DEF TrackDetermine, Kept
  <2> QED BY <2>1, <1>2
<1>4. CASE t.essence.kind = "variable"
  <2>1. TrackDetermine(t, limit) = VariableDetermine(t, limit)
    BY <1>4 DEF TrackDetermine
  <2>2. CASE t.duration >= 0
    <3>1. VariableDetermine(t, limit) = t
      BY <2>2 DEF VariableDetermine
    <3> QED BY <3>1, <2>1, <2>2, <1>2
  <2>3. CASE ~(t.duration >= 0)
    <3>1. t.duration < 0
      BY <2>3, <1>1, TrackFields DEF Kept
    <3> QED BY <3>1, <2>1, <1>4, VariableDetermineGives
  <2> QED BY <2>2, <2>3
<1> QED BY <1>1, <1>3, <1>4, KindOf


-----------------------------------------------------------------------------
(* Opening *)

LEMMA OpenGives ==
  ASSUME NEW e \in Essences, WellFormed(e)
  PROVE  /\ TrackOK(Open(e))
         /\ Open(e).essence = e
         /\ Open(e).position = 0
<1>1. /\ e.start \in Nat /\ e.units \in Nat /\ Len(e.sizes) \in Nat /\ 0 \in Positions(e)
      /\ OffsetOf(e, 0) = 0 /\ e.kind \in {"sized", "variable"}
  <2>1. e.start \in Nat /\ e.units \in Nat /\ Len(e.sizes) \in Nat /\ e.kind \in {"sized", "variable"}
    BY LenProperties DEF WellFormed
  <2>2. 0 \in Positions(e)
    BY <2>1 DEF Positions
  <2> QED BY <2>1, <2>2, OffsetIsSum
<1>2. 0 \in 0 .. Chunk
  BY ParserAssumption
<1> DEFINE Opened(offsets, complete, duration) ==
             [essence |-> e, filePos |-> e.start, position |-> 0, duration |-> duration,
              essenceOffset |-> 0, offsets |-> offsets, complete |-> complete,
              bufferFrom |-> 0, buffered |-> 0]
           Fits(offsets, complete, duration) ==
             /\ offsets \in Seq(Nat) \ {<<>>}
             /\ complete \in BOOLEAN /\ duration \in Nat \cup {-1}
             /\ e.kind = "sized" => duration = FramesIn[e]
             /\ e.kind = "variable" =>
                  /\ offsets = [k \in 1 .. Len(offsets) |-> OffsetOf(e, k - 1)]
                  /\ Len(offsets) - 1 \in 0 .. Len(e.sizes)
                  /\ OffsetOf(e, Len(offsets) - 1) <= e.units
                  /\ complete <=> duration >= 0
                  /\ duration <= Len(offsets) - 1
<1>3. ASSUME NEW offsets, NEW complete, NEW duration, Fits(offsets, complete, duration)
      PROVE  /\ TrackOK(Opened(offsets, complete, duration))
             /\ Opened(offsets, complete, duration).essence = e
             /\ Opened(offsets, complete, duration).position = 0
  <2> DEFINE t == Opened(offsets, complete, duration)
  <2>0. /\ offsets \in Seq(Nat) \ {<<>>} /\ complete \in BOOLEAN /\ duration \in Nat \cup {-1}
        /\ e.start \in Nat
    BY <1>1, <1>3
  <2>1. t \in Tracks
    <3> HIDE DEF Fits
    <3> QED BY <2>0, <1>2 DEF Tracks
  <2>2. /\ t.essence = e /\ t.filePos = e.start /\ t.position = 0 /\ t.duration = duration
        /\ t.essenceOffset = 0 /\ t.offsets = offsets /\ t.complete = complete
        /\ t.buffered = 0
    OBVIOUS
  <2> HIDE DEF t
  <2>3. e.kind = "variable" => Indexed(t)
    BY <1>3, <2>2 DEF Indexed, LastIndexed
  <2>4. FramesIn[e] \in Nat
    BY FramesAre
  <2>5. Kept(t)
    <3>1. e.kind = "sized" => t.duration >= 0 /\ t.duration <= FramesIn[e] /\ t.buffered = 0
      BY <1>3, <2>2, <2>4
    <3> QED BY <3>1, <2>1, <2>2, <2>3 DEF Kept
  <2>6. AtFrame(t)
    BY <1>1, <2>2 DEF AtFrame, ParsePos
  <2>7. t.position <= Reach(t) /\ (e.kind = "variable" => t.filePos <= End(e)) /\ ~(t.buffered > 0)
    BY <1>1, <2>2, <2>5, LengthIs DEF End
  <2>8. TrackOK(t)
    BY <2>2, <2>5, <2>6, <2>7 DEF TrackOK, Placed
  <2> QED BY <2>2, <2>8 DEF t
<1> HIDE DEF Opened
<1>4. CASE e.kind = "sized"
  <2> DEFINE duration == FramesIn[e]
  <2>1. Open(e) = Opened(<<0>>, FALSE, duration)
    BY <1>4, SizedDurations DEF Open, OpenSized, NewParser, Opened
  <2>2. <<0>> \in Seq(Nat) /\ FramesIn[e] \in Nat
    BY FramesAre
  <2>3. Fits(<<0>>, FALSE, duration)
    BY <2>2, <1>4
  <2> HIDE DEF Fits, duration
  <2> DEFINE t == Opened(<<0>>, FALSE, duration)
  <2>10. TrackOK(t) /\ t.essence = e /\ t.position = 0
    BY <2>3, <1>3
  <2> HIDE DEF t
  <2>11. Open(e) = t
    BY <2>1 DEF t
  <2> QED BY <2>10, <2>11
<1>5. CASE e.kind = "variable" /\ e.index = <<>>
  <2>1. Open(e) = Opened(<<0>>, FALSE, -1)
    BY <1>5 DEF Open, OpenVariable, NewParser, Opened
  <2>2. /\ <<0>> \in Seq(Nat) /\ Len(<<0>>) = 1 /\ Len(<<0>>) - 1 = 0
        /\ <<0>> = [k \in 1 .. 1 |-> OffsetOf(e, k - 1)]
    <3>1. \A k \in 1 .. 1 : k - 1 = 0
      OBVIOUS
    <3>2. [k \in 1 .. 1 |-> OffsetOf(e, k - 1)] = [k \in 1 .. 1 |-> 0]
      BY <3>1, <1>1
    <3>3. <<0>> = [k \in 1 .. 1 |-> 0]
      OBVIOUS
    <3> QED BY <3>2, <3>3
  <2>3. /\ 0 \in 0 .. Len(e.sizes) /\ OffsetOf(e, 0) <= e.units /\ ~(-1 >= 0) /\ -1 <= 0
        /\ e.kind # "sized"
    BY <1>1, <1>5
  <2>4. Fits(<<0>>, FALSE, -1)
    BY <2>2, <2>3
  <2> HIDE DEF Fits
  <2> QED BY <2>1, <2>4, <1>3
<1>6. CASE e.kind = "variable" /\ e.index # <<>>
  <2> DEFINE duration == IF e.indexDuration >= 0 THEN e.indexDuration ELSE Len(e.index) - 1
  <2>1. Open(e) = Opened(e.index, TRUE, duration)
    BY <1>6 DEF Open, OpenVariable, NewParser, Opened
  <2>2. /\ e.index = [k \in 1 .. Len(e.index) |-> OffsetOf(e, k - 1)]
        /\ Len(e.index) \in 0 .. Len(e.sizes) + 1
        /\ Last(e.index) <= e.units /\ e.indexDuration < Len(e.index)
        /\ e.indexDuration \in Int
    BY <1>6 DEF WellFormed
  <2>3. \A k \in 1 .. Len(e.index) : OffsetOf(e, k - 1) \in Nat
    <3>1. \A k \in 1 .. Len(e.index) : k - 1 \in Nat /\ k - 1 \in Positions(e)
      BY <2>2, <1>1, <1>6 DEF Positions
    <3> QED BY <3>1, OffsetIsSum
  <2>4. e.index \in Seq(Nat)
    <3>1. Len(e.index) \in Nat
      BY <2>2, <1>1
    <3>2. [k \in 1 .. Len(e.index) |-> OffsetOf(e, k - 1)] \in Seq(Nat)
      BY <3>1, <2>3, IsASeq
    <3> QED BY <3>2, <2>2
  <2>5. Len(e.index) \in Nat /\ Len(e.index) > 0
    BY <2>4, <1>6, LenProperties, EmptySeq
  <2>6. Last(e.index) = OffsetOf(e, Len(e.index) - 1)
    <3>1. Last(e.index) = e.index[Len(e.index)]
      BY DEF Last
    <3>2. Len(e.index) \in 1 .. Len(e.index)
      BY <2>5
    <3> QED BY <3>1, <3>2, <2>2
  <2>7. duration \in Nat /\ duration <= Len(e.index) - 1 /\ duration >= 0
    BY <2>2, <2>5
  <2>8. Len(e.index) - 1 \in 0 .. Len(e.sizes) /\ e.kind # "sized"
    BY <2>2, <2>5, <1>1, <1>6
  <2> HIDE DEF duration
  <2>9. Fits(e.index, TRUE, duration)
    BY <2>2, <2>4, <2>6, <2>7, <2>8
  <2> HIDE DEF Fits
  <2> DEFINE t == Opened(e.index, TRUE, duration)
  <2>10. TrackOK(t) /\ t.essence = e /\ t.position = 0
    BY <2>9, <1>3
  <2> HIDE DEF t
  <2>11. Open(e) = t
    BY <2>1 DEF t
  <2> QED BY <2>10, <2>11
<1> QED BY <1>1, <1>4, <1>5, <1>6

-----------------------------------------------------------------------------
(* Edit units *)

LEMMA ElementsAre ==
  ASSUME NEW e \in Essences, WellFormed(e), NEW p \in 0 .. FramesIn[e] - 1
  PROVE  /\ p \in DOMAIN Elements[e]
         /\ Elements[e][p].essenceOffset = OffsetOf(e, p)
         /\ Elements[e][p] = Element(OffsetOf(e, p), Frame(e, p))
         /\ Elements[e][p].data # <<>>
         /\ Frame(e, p) # NoData
         /\ \A q \in 0 .. FramesIn[e] - 1 : Elements[e][q] = Elements[e][p] => q = p
<1>1. /\ FramesIn[e] \in Nat /\ FramesIn[e] \in Positions(e) /\ e.start \in Nat
  BY FramesAre DEF WellFormed
<1>2. ASSUME NEW q \in 0 .. FramesIn[e] - 1
      PROVE  /\ q \in DOMAIN Elements[e]
             /\ Elements[e][q] = Element(OffsetOf(e, q), Frame(e, q))
             /\ Elements[e][q].essenceOffset = OffsetOf(e, q)
             /\ Elements[e][q].data = Frame(e, q)
  BY DEF Elements, Element
<1>3. ASSUME NEW q \in 0 .. FramesIn[e] - 1
      PROVE  /\ q \in Nat /\ q + 1 \in Nat /\ q \in Positions(e) /\ q + 1 \in Positions(e)
             /\ OffsetOf(e, q) \in Nat
  <2>1. q \in Nat /\ q + 1 \in Nat /\ q <= FramesIn[e] /\ q + 1 <= FramesIn[e]
    BY <1>1
  <2> QED BY <2>1, <1>1, OffsetsGrow
<1>4. ASSUME NEW a \in 0 .. FramesIn[e] - 1, NEW b \in 0 .. FramesIn[e] - 1,
             OffsetOf(e, a) = OffsetOf(e, b), a < b
      PROVE  FALSE
  <2>1. OffsetOf(e, a) < OffsetOf(e, b)
    BY <1>3, <1>4, OffsetsGrow
  <2> QED BY <2>1, <1>3, <1>4
<1>5. ASSUME NEW q \in 0 .. FramesIn[e] - 1, Elements[e][q] = Elements[e][p]
      PROVE  q = p
  <2>1. OffsetOf(e, q) = OffsetOf(e, p)
    BY <1>2, <1>5
  <2>2. ~(q < p) /\ ~(p < q)
    BY <2>1, <1>4
  <2> QED BY <2>2, <1>1
<1>6. /\ Frame(e, p) # <<>>
      /\ Frame(e, p) # NoData
  <2> DEFINE from == e.start + OffsetOf(e, p)
             size == FrameSize(e, p)
  <2>1. from \in Nat /\ size \in Nat \ {0}
    BY <1>1, <1>3, OffsetIsSum
  <2>2. Frame(e, p) = [k \in 1 .. size |-> from + k - 1]
    BY DEF Frame, Units
  <2> HIDE DEF from, size
  <2>3. 1 \in 1 .. size /\ from + 1 - 1 = from /\ from # -1
    BY <2>1
  <2>4. 1 \in DOMAIN Frame(e, p) /\ Frame(e, p)[1] = from
    BY <2>2, <2>3
  <2>5. DOMAIN <<>> = {} /\ NoData[1] = -1
    BY DEF NoData
  <2> QED BY <2>3, <2>4, <2>5
<1> QED BY <1>2, <1>5, <1>6

-----------------------------------------------------------------------------
(* The shortest track *)

LEMMA LeastDuration ==
  ASSUME NEW S, S \subseteq Nat \cup {-1}, S # {}
  PROVE  Min(S) \in S /\ \A y \in S : Min(S) <= y
<1>1. \E x \in S : \A y \in S : x <= y
  <2>1. CASE -1 \in S
    <3>1. \A y \in S : -1 <= y
      OBVIOUS
    <3> QED BY <2>1, <3>1
  <2>2. CASE -1 \notin S
    <3>1. S \in SUBSET Nat
      BY <2>2
    <3> QED BY <3>1, LeastNatural
  <2> QED BY <2>1, <2>2
<1> QED BY <1>1 DEF Min


-----------------------------------------------------------------------------
(* The clip *)

\* Tracks in step.
TracksFit(ts, p) ==
  /\ \E n \in Nat \ {0} : DOMAIN ts = 1 .. n
  /\ \A i \in DOMAIN ts : TrackOK(ts[i]) /\ ts[i].position = p

\* The element of a track is a frame that the track can be sought to, or is part of
\* one or none.
PackageFits(ts, package) ==
  /\ DOMAIN package = DOMAIN ts
  /\ \A i \in DOMAIN ts :
       /\ package[i] = Element(package[i].essenceOffset, package[i].data)
       /\ package[i].data # <<>> =>
            \E q \in 0 .. Reach(ts[i]) - 1 : package[i] = Elements[ts[i].essence][q]

ShortestOf(ts) == Min({LengthOf(ts[i]) : i \in DOMAIN ts})

UnitOf(ts, package) ==
  LET units == {p \in DOMAIN Elements[ts[1].essence] :
                  \A i \in DOMAIN ts :
                    /\ p \in DOMAIN Elements[ts[i].essence]
                    /\ package[i] = Elements[ts[i].essence][p]}
  IN IF units = {} THEN -1 ELSE Max(units)

LEMMA FitTracks ==
  ASSUME NEW ts, NEW p, TracksFit(ts, p)
  PROVE  /\ 1 \in DOMAIN ts /\ p \in Nat
         /\ \A i \in DOMAIN ts :
              /\ TrackOK(ts[i]) /\ Kept(ts[i]) /\ ts[i].position = p
              /\ ts[i].essence \in Essences /\ WellFormed(ts[i].essence)
              /\ ts[i].duration \in Nat \cup {-1}
              /\ p <= Reach(ts[i]) /\ Reach(ts[i]) \in Nat
              /\ Reach(ts[i]) <= LengthOf(ts[i])
              /\ LengthOf(ts[i]) \in Nat /\ FramesIn[ts[i].essence] \in Nat
              /\ LengthOf(ts[i]) <= FramesIn[ts[i].essence]
<1>1. 1 \in DOMAIN ts
  BY DEF TracksFit
<1>2. ASSUME NEW i \in DOMAIN ts
      PROVE  /\ TrackOK(ts[i]) /\ Kept(ts[i]) /\ ts[i].position = p /\ p \in Nat
             /\ ts[i].essence \in Essences /\ WellFormed(ts[i].essence)
             /\ ts[i].duration \in Nat \cup {-1}
             /\ p <= Reach(ts[i]) /\ Reach(ts[i]) \in Nat
             /\ Reach(ts[i]) <= LengthOf(ts[i])
             /\ LengthOf(ts[i]) \in Nat /\ FramesIn[ts[i].essence] \in Nat
             /\ LengthOf(ts[i]) <= FramesIn[ts[i].essence]
  <2>1. TrackOK(ts[i]) /\ ts[i].position = p
    BY DEF TracksFit
  <2>2. Kept(ts[i]) /\ ts[i].position <= Reach(ts[i])
    BY <2>1 DEF TrackOK, Placed
  <2>3. ts[i] \in Tracks /\ WellFormed(ts[i].essence)
    BY <2>2 DEF Kept
  <2>4. ts[i].essence \in Essences /\ ts[i].duration \in Nat \cup {-1} /\ ts[i].position \in Nat
    BY <2>3, TrackFields
  <2> QED BY <2>1, <2>2, <2>3, <2>4, LengthIs
<1> QED BY <1>1, <1>2

LEMMA ShortestIs ==
  ASSUME NEW ts, NEW p, TracksFit(ts, p)
  PROVE  /\ ShortestOf(ts) \in Nat
         /\ \E i \in DOMAIN ts : ShortestOf(ts) = LengthOf(ts[i])
         /\ \A i \in DOMAIN ts : ShortestOf(ts) <= LengthOf(ts[i])
<1> DEFINE S == {LengthOf(ts[i]) : i \in DOMAIN ts}
<1>1. S \in SUBSET Nat /\ S # {}
  BY FitTracks
<1>2. ShortestOf(ts) = Min(S)
  BY DEF ShortestOf
<1>3. \A i \in DOMAIN ts : LengthOf(ts[i]) \in S
  OBVIOUS
<1>4. \A x \in S : \E i \in DOMAIN ts : x = LengthOf(ts[i])
  OBVIOUS
<1> HIDE DEF S
<1>5. Min(S) \in S /\ \A y \in S : Min(S) <= y
  BY <1>1, MinIsLeast
<1> QED BY <1>1, <1>2, <1>3, <1>4, <1>5

LEMMA Shortening ==
  ASSUME NEW ts, NEW p, TracksFit(ts, p), NEW us, NEW q, TracksFit(us, q),
         DOMAIN us = DOMAIN ts,
         \A i \in DOMAIN ts : LengthOf(us[i]) \in p .. LengthOf(ts[i])
  PROVE  /\ ShortestOf(us) \in p .. ShortestOf(ts)
         /\ (\A i \in DOMAIN ts : LengthOf(us[i]) = LengthOf(ts[i])) => ShortestOf(us) = ShortestOf(ts)
<1>1. PICK i \in DOMAIN ts : ShortestOf(ts) = LengthOf(ts[i])
  BY ShortestIs
<1>2. PICK j \in DOMAIN ts : ShortestOf(us) = LengthOf(us[j])
  BY ShortestIs
<1>3. ShortestOf(ts) \in Nat /\ ShortestOf(us) \in Nat /\ ShortestOf(us) <= LengthOf(us[i])
      /\ p \in Nat /\ ShortestOf(ts) <= LengthOf(ts[j])
  BY ShortestIs, FitTracks
<1>4. LengthOf(us[i]) \in p .. LengthOf(ts[i]) /\ LengthOf(us[j]) \in p .. LengthOf(ts[j])
      /\ LengthOf(ts[i]) \in Nat /\ LengthOf(ts[j]) \in Nat
  BY FitTracks
<1>5. ShortestOf(us) \in p .. ShortestOf(ts)
  BY <1>1, <1>2, <1>3, <1>4
<1>6. ASSUME \A k \in DOMAIN ts : LengthOf(us[k]) = LengthOf(ts[k])
      PROVE  ShortestOf(us) = ShortestOf(ts)
  <2>1. LengthOf(us[j]) = LengthOf(ts[j]) /\ LengthOf(us[i]) = LengthOf(ts[i])
    BY <1>6
  <2> QED BY <2>1, <1>1, <1>2, <1>3, <1>4
<1> QED BY <1>5, <1>6

LEMMA UnitIs ==
  ASSUME NEW ts, NEW p, TracksFit(ts, p), NEW package, NEW q,
         \A i \in DOMAIN ts : /\ q \in 0 .. FramesIn[ts[i].essence] - 1
                              /\ package[i] = Elements[ts[i].essence][q]
  PROVE  UnitOf(ts, package) = q
<1> DEFINE units == {x \in DOMAIN Elements[ts[1].essence] :
                       \A i \in DOMAIN ts :
                         /\ x \in DOMAIN Elements[ts[i].essence]
                         /\ package[i] = Elements[ts[i].essence][x]}
<1>1. \A i \in DOMAIN ts : ts[i].essence \in Essences /\ WellFormed(ts[i].essence)
  BY FitTracks
<1>2. 1 \in DOMAIN ts
  BY FitTracks
<1>3. \A i \in DOMAIN ts : q \in DOMAIN Elements[ts[i].essence]
  BY <1>1, ElementsAre
<1>4. q \in units
  BY <1>2, <1>3
<1>5. ASSUME NEW x \in units PROVE x = q
  <2>1. x \in 0 .. FramesIn[ts[1].essence] - 1
    BY <1>1, <1>2 DEF Elements
  <2>2. Elements[ts[1].essence][x] = Elements[ts[1].essence][q]
    BY <1>2
  <2> QED BY <2>1, <2>2, <1>1, <1>2, ElementsAre
<1>6. UnitOf(ts, package) = IF units = {} THEN -1 ELSE Max(units)
  BY DEF UnitOf
<1> HIDE DEF units
<1>7. units = {q} /\ units # {}
  BY <1>4, <1>5
<1>8. q \in Int
  BY <1>2
<1>9. Max({q}) = q
  <2>1. \E x \in {q} : \A y \in {q} : x >= y
    BY <1>8
  <2> QED BY <2>1 DEF Max
<1> QED BY <1>6, <1>7, <1>9

LEMMA NoUnit ==
  ASSUME NEW ts, NEW p, TracksFit(ts, p), NEW package,
         NEW i \in DOMAIN ts, NEW j \in DOMAIN ts,
         \A q \in 0 .. FramesIn[ts[i].essence] - 1 :
           q \in 0 .. FramesIn[ts[j].essence] - 1 =>
             \/ package[i] # Elements[ts[i].essence][q]
             \/ package[j] # Elements[ts[j].essence][q]
  PROVE  UnitOf(ts, package) = -1
<1> DEFINE units == {x \in DOMAIN Elements[ts[1].essence] :
                       \A k \in DOMAIN ts :
                         /\ x \in DOMAIN Elements[ts[k].essence]
                         /\ package[k] = Elements[ts[k].essence][x]}
<1>1. UnitOf(ts, package) = IF units = {} THEN -1 ELSE Max(units)
  BY DEF UnitOf
<1>2. ASSUME NEW x \in units PROVE FALSE
  <2>1. /\ x \in 0 .. FramesIn[ts[i].essence] - 1 /\ x \in 0 .. FramesIn[ts[j].essence] - 1
    BY FitTracks DEF Elements
  <2> QED BY <2>1
<1>3. units = {}
  BY <1>2
<1> QED BY <1>1, <1>3

LEMMA MinDurationIs ==
  ASSUME NEW ts, NEW p, TracksFit(ts, p)
  PROVE  /\ MinDuration(ts) \in Nat \cup {-1}
         /\ MinDuration(ts) >= 0 =>
              \A i \in DOMAIN ts : MinDuration(ts) <= FramesIn[ts[i].essence]
<1> DEFINE S == {TrackDuration(ts[i]) : i \in DOMAIN ts}
<1>1. \A i \in DOMAIN ts :
        /\ TrackDuration(ts[i]) \in Nat \cup {-1}
        /\ TrackDuration(ts[i]) >= 0 => TrackDuration(ts[i]) <= FramesIn[ts[i].essence]
  <2> SUFFICES ASSUME NEW i \in DOMAIN ts
               PROVE  /\ TrackDuration(ts[i]) \in Nat \cup {-1}
                      /\ TrackDuration(ts[i]) >= 0 =>
                           TrackDuration(ts[i]) <= FramesIn[ts[i].essence]
    OBVIOUS
  <2> DEFINE t == ts[i]
             e == t.essence
  <2>1. /\ t.duration \in Nat \cup {-1} /\ FramesIn[e] \in Nat /\ LengthOf(t) <= FramesIn[e]
        /\ WellFormed(e)
    BY FitTracks
  <2>2. e.durationInMetadata \in Int
    BY <2>1 DEF WellFormed
  <2>3. t.duration >= 0 => t.duration <= FramesIn[e]
    BY <2>1 DEF LengthOf
  <2> HIDE DEF t
  <2> QED BY <2>1, <2>2, <2>3 DEF TrackDuration, t
<1>2. S \subseteq Nat \cup {-1} /\ S # {}
  BY <1>1, FitTracks
<1>3. \A i \in DOMAIN ts : TrackDuration(ts[i]) \in S
  OBVIOUS
<1>4. MinDuration(ts) = Min(S)
  BY DEF MinDuration
<1> HIDE DEF S
<1>5. Min(S) \in S /\ \A y \in S : Min(S) <= y
  BY <1>2, LeastDuration
<1>6. ASSUME Min(S) >= 0, NEW i \in DOMAIN ts PROVE Min(S) <= FramesIn[ts[i].essence]
  <2>1. Min(S) <= TrackDuration(ts[i])
    BY <1>3, <1>5
  <2>2. Min(S) \in Nat \cup {-1}
    BY <1>2, <1>5
  <2>3. FramesIn[ts[i].essence] \in Nat
    BY FitTracks
  <2>4. TrackDuration(ts[i]) \in Nat \cup {-1}
        /\ (TrackDuration(ts[i]) >= 0 => TrackDuration(ts[i]) <= FramesIn[ts[i].essence])
    BY <1>1
  <2> QED BY <2>1, <2>2, <2>3, <2>4, <1>6
<1> QED BY <1>2, <1>4, <1>5, <1>6


\* What calls on the tracks of the clip may do to one of them: it has no more frames
\* than it had, and as many when no read error was met.
Continues(t, limit, u) ==
  /\ TrackOK(u)
  /\ u.essence = t.essence
  /\ LengthOf(u) \in t.position .. LengthOf(t)
  /\ limit = End(t.essence) => LengthOf(u) = LengthOf(t)

LEMMA LimitsAre ==
  ASSUME TracksFit(tracks, mPosition), NEW limits \in Limits
  PROVE  \A i \in DOMAIN tracks :
           /\ Limit(tracks[i].essence, limits[i])
           /\ limits = FileEnds => limits[i] = End(tracks[i].essence)
<1> SUFFICES ASSUME NEW i \in DOMAIN tracks
             PROVE  /\ Limit(tracks[i].essence, limits[i])
                    /\ limits = FileEnds => limits[i] = End(tracks[i].essence)
  OBVIOUS
<1> DEFINE e == tracks[i].essence
<1>1. e.start \in Nat /\ e.units \in Nat /\ End(e) = e.start + e.units
  BY FitTracks DEF WellFormed, End
<1>2. FileEnds[i] = End(e)
  BY DEF FileEnds
<1>3. Limit(e, End(e))
  BY <1>1 DEF Limit
<1>4. CASE limits = FileEnds
  BY <1>2, <1>3, <1>4
<1>5. CASE limits # FileEnds
  <2>1. PICK j \in DOMAIN tracks, n \in Faults :
          limits = [FileEnds EXCEPT ![j] = Min({@, tracks[j].essence.start + n})]
    BY <1>5 DEF Limits
  <2>2. limits[i] = IF i = j THEN Min({End(e), e.start + n}) ELSE End(e)
    BY <2>1, <1>2 DEF FileEnds
  <2>3. n \in Nat
    BY ClipAssumption
  <2> HIDE DEF e
  <2>4. End(e) \in Int /\ e.start + n \in Int
    BY <1>1, <2>3
  <2>5. Min({End(e), e.start + n}) \in {End(e), e.start + n} /\ Min({End(e), e.start + n}) <= End(e)
    BY <2>4, MinOfTwo
  <2>6. Limit(e, Min({End(e), e.start + n}))
    BY <2>3, <2>5, <1>1 DEF Limit
  <2>7. Limit(e, limits[i])
    BY <2>2, <2>6, <1>3
  <2> QED BY <2>7, <1>5 DEF e
<1> QED BY <1>4, <1>5

\* A track that was put back to position p.
PutsBack(t, p, u) ==
  /\ TrackOK(u)
  /\ u.position = p
  /\ u.essence = t.essence
  /\ Reach(u) = Reach(t)
  /\ LengthOf(u) = LengthOf(t)
  /\ (IsEOF(t) /\ t.position = p) => IsEOF(u)

\* The tracks up to the first that failed, which is `first`, were put back.
FailsAt(first, results, after) ==
  /\ first \in DOMAIN tracks /\ ~results[first].ok
  /\ DOMAIN after = DOMAIN tracks
  /\ \A i \in DOMAIN tracks :
       /\ i < first => results[i].ok
       /\ i <= first => PutsBack(results[i].track, mPosition, after[i])
       /\ i > first => after[i] = tracks[i]

LEMMA AfterSuccess ==
  ASSUME NEW results, NEW limits, \A i \in DOMAIN tracks : results[i].ok
  PROVE  TracksAfter(results, limits) = [i \in DOMAIN tracks |-> results[i].track]
<1>1. {i \in DOMAIN tracks : ~results[i].ok} = {}
  OBVIOUS
<1> QED BY <1>1 DEF TracksAfter

LEMMA AfterFailure ==
  ASSUME TracksFit(tracks, mPosition), NEW results, NEW limits,
         ~\A i \in DOMAIN tracks : results[i].ok,
         \A i \in DOMAIN tracks : CanReturn(results[i].track, mPosition)
  PROVE  LET first == Min({i \in DOMAIN tracks : ~results[i].ok})
         IN FailsAt(first, results, TracksAfter(results, limits))
<1> DEFINE failed == {i \in DOMAIN tracks : ~results[i].ok}
           first == Min(failed)
           after == TracksAfter(results, limits)
<1>1. PICK n \in Nat \ {0} : DOMAIN tracks = 1 .. n
  BY DEF TracksFit
<1>2. failed # {} /\ failed \in SUBSET Nat
  BY <1>1
<1>3. first \in failed /\ \A i \in failed : first <= i
  <2> HIDE DEF failed
  <2> QED BY <1>2, MinIsLeast
<1>4. after = [i \in DOMAIN tracks |->
                 IF failed = {} THEN results[i].track
                 ELSE IF i \in PutBack(first)
                 THEN TrackSeek(results[i].track, mPosition, limits[i]).track
                 ELSE IF i <= first THEN results[i].track
                 ELSE tracks[i]]
  BY DEF TracksAfter
<1>5. \A i \in DOMAIN tracks : ~(i \in failed) => results[i].ok
  OBVIOUS
<1>6. \A i \in failed : i \in DOMAIN tracks /\ ~results[i].ok
  OBVIOUS
<1> HIDE DEF failed, first, after
<1>7. first \in DOMAIN tracks /\ ~results[first].ok /\ first \in Nat
  BY <1>1, <1>3, <1>6
<1>8. ASSUME NEW i \in DOMAIN tracks
      PROVE  /\ i < first => results[i].ok
             /\ i <= first => PutsBack(results[i].track, mPosition, after[i])
             /\ i > first => after[i] = tracks[i]
  <2>1. i \in Nat /\ i >= 1
    BY <1>1
  <2>2. i < first => results[i].ok
    <3>1. i < first => ~(i \in failed)
      BY <1>3, <1>7, <2>1
    <3> QED BY <3>1, <1>5
  <2>3. ASSUME i <= first PROVE PutsBack(results[i].track, mPosition, after[i])
    <3> DEFINE t == results[i].track
               u == TrackSeek(t, mPosition, limits[i]).track
    <3>1. i \in PutBack(first)
      BY <2>1, <2>3, <1>7 DEF PutBack
    <3>2. after[i] = u
      BY <3>1, <1>2, <1>4
    <3>3. CanReturn(t, mPosition)
      OBVIOUS
    <3> HIDE DEF t
    <3>4. /\ TrackOK(u) /\ SameFrames(t, u) /\ u.position = mPosition
          /\ (IsEOF(t) /\ t.position = mPosition) => IsEOF(u)
      BY <3>3, Return
    <3> HIDE DEF u
    <3>5. u.essence = t.essence /\ Reach(u) = Reach(t) /\ LengthOf(u) = LengthOf(t)
      BY <3>4 DEF SameFrames, Reach, LengthOf, LastIndexed
    <3>6. PutsBack(t, mPosition, u)
      BY <3>4, <3>5 DEF PutsBack
    <3> QED BY <3>2, <3>6 DEF t
  <2>4. ASSUME i > first PROVE after[i] = tracks[i]
    <3>1. i \notin PutBack(first) /\ ~(i <= first)
      BY <2>1, <2>4, <1>7 DEF PutBack
    <3> QED BY <3>1, <1>2, <1>4
  <2> QED BY <2>2, <2>3, <2>4
<1>9. DOMAIN after = DOMAIN tracks
  BY <1>4
<1>10. FailsAt(first, results, after)
  BY <1>7, <1>8, <1>9 DEF FailsAt
<1> QED BY <1>10 DEF first, failed, after


-----------------------------------------------------------------------------
(* The invariant *)

\* No read error: every track has the frames that it had when it was opened.
AllFrames == \A i \in DOMAIN tracks : LengthOf(tracks[i]) = LengthOf(Open(tracks[i].essence))

IInv ==
  /\ TracksFit(tracks, mPosition)
  /\ PackageFits(tracks, mContentPackage)
  /\ mDuration \in Nat \cup {-1}
  /\ DurationIsReadable
  /\ faulted \in BOOLEAN
  /\ ~faulted => AllFrames

\* A call on the clip.
CallGoes(limits) ==
  /\ TracksFit(tracks', mPosition')
  /\ DOMAIN tracks' = DOMAIN tracks
  /\ \A i \in DOMAIN tracks :
       /\ tracks'[i].essence = tracks[i].essence
       /\ LengthOf(tracks'[i]) \in mPosition .. LengthOf(tracks[i])
       /\ limits = FileEnds => LengthOf(tracks'[i]) = LengthOf(tracks[i])
  /\ PackageFits(tracks', mContentPackage')
  /\ faulted' = (faulted \/ limits # FileEnds)
  /\ mDuration' \in {mDuration, MinDuration(tracks')}

LEMMA LengthIsShortest == Length = ShortestOf(tracks) /\ Length' = ShortestOf(tracks')
BY DEF Length, ShortestOf, LengthOf

LEMMA CallKeeps ==
  ASSUME IInv, NEW limits, CallGoes(limits)
  PROVE  /\ IInv'
         /\ ClipPromise!Shortened(limits # FileEnds)
         /\ (\A i \in DOMAIN tracks : LengthOf(tracks'[i]) = LengthOf(tracks[i])) => Length' = Length
<1>1. /\ TracksFit(tracks, mPosition) /\ TracksFit(tracks', mPosition')
      /\ DOMAIN tracks' = DOMAIN tracks
      /\ \A i \in DOMAIN tracks : LengthOf(tracks'[i]) \in mPosition .. LengthOf(tracks[i])
  BY DEF IInv, CallGoes
<1>2. /\ ShortestOf(tracks') \in mPosition .. ShortestOf(tracks)
      /\ (\A i \in DOMAIN tracks : LengthOf(tracks'[i]) = LengthOf(tracks[i]))
           => ShortestOf(tracks') = ShortestOf(tracks)
  BY <1>1, Shortening
<1>3. /\ Length' \in mPosition .. Length
      /\ (\A i \in DOMAIN tracks : LengthOf(tracks'[i]) = LengthOf(tracks[i])) => Length' = Length
  BY <1>2, LengthIsShortest
<1>4. ClipPromise!Shortened(limits # FileEnds)
  <2>1. limits = FileEnds => Length' = Length
    BY <1>3 DEF CallGoes
  <2> QED BY <1>3, <2>1 DEF ClipPromise!Shortened
<1>5. mDuration' \in Nat \cup {-1} /\ DurationIsReadable'
  <2>1. CASE mDuration' = mDuration
    BY <2>1, <1>1 DEF IInv, DurationIsReadable, CallGoes
  <2>2. CASE mDuration' = MinDuration(tracks')
    <3>1. /\ MinDuration(tracks') \in Nat \cup {-1}
          /\ MinDuration(tracks') >= 0 =>
               \A i \in DOMAIN tracks' : MinDuration(tracks') <= FramesIn[tracks'[i].essence]
      BY <1>1, MinDurationIs
    <3> QED BY <2>2, <3>1 DEF DurationIsReadable
  <2> QED BY <2>1, <2>2 DEF CallGoes
<1>6. ASSUME ~faulted'
      PROVE  \A i \in DOMAIN tracks' : LengthOf(tracks'[i]) = LengthOf(Open(tracks'[i].essence))
  <2>1. limits = FileEnds /\ ~faulted
    BY <1>6 DEF CallGoes
  <2> QED BY <2>1, <1>1 DEF CallGoes, IInv, AllFrames
<1>7. TracksFit(tracks, mPosition)' /\ PackageFits(tracks, mContentPackage)'
  BY DEF CallGoes, TracksFit, PackageFits, TrackOK, Reach
<1>8. ~faulted' => AllFrames'
  BY <1>6 DEF AllFrames, LengthOf, Open
<1>9. faulted' \in BOOLEAN
  BY DEF CallGoes
<1> QED BY <1>3, <1>4, <1>5, <1>7, <1>8, <1>9 DEF IInv

LEMMA InitKeeps ==
  ASSUME Init
  PROVE  IInv /\ FailedReadIsEOF /\ ClipPromise!Init
<1>1. PICK clip \in Clips :
        /\ tracks = [i \in DOMAIN clip |-> Open(clip[i])]
        /\ mPosition = 0
        /\ mDuration = MinDuration([i \in DOMAIN clip |-> Open(clip[i])])
        /\ mContentPackage = [i \in DOMAIN clip |-> Element(0, <<>>)]
        /\ faulted = FALSE
        /\ call = Called("open", 0, TRUE, FALSE)
  BY DEF Init
<1>2. /\ clip \in Seq(Range(clip)) /\ clip # <<>>
      /\ \A i \in DOMAIN clip : WellFormed(clip[i])
  BY EssenceAssumption
<1>3. Len(clip) \in Nat \ {0} /\ DOMAIN clip = 1 .. Len(clip)
  BY <1>2, LenProperties, EmptySeq
<1>4. \A i \in DOMAIN clip : clip[i] \in Essences
  BY DEF Essences, Range
<1>5. \A i \in DOMAIN tracks :
        /\ TrackOK(tracks[i]) /\ tracks[i].position = 0 /\ tracks[i].essence = clip[i]
        /\ tracks[i] = Open(clip[i])
  BY <1>1, <1>2, <1>4, OpenGives
<1>6. TracksFit(tracks, 0)
  BY <1>1, <1>3, <1>5 DEF TracksFit
<1>7. /\ DOMAIN mContentPackage = DOMAIN tracks
      /\ \A i \in DOMAIN tracks :
           /\ mContentPackage[i].data = <<>>
           /\ mContentPackage[i] = Element(mContentPackage[i].essenceOffset, mContentPackage[i].data)
  BY <1>1 DEF Element
<1>8. PackageFits(tracks, mContentPackage)
  BY <1>7 DEF PackageFits
<1>9. mDuration = MinDuration(tracks)
  BY <1>1
<1>10. mDuration \in Nat \cup {-1} /\ DurationIsReadable
  BY <1>6, <1>9, MinDurationIs DEF DurationIsReadable
<1>11. AllFrames
  BY <1>5 DEF AllFrames
<1>12. IInv
  BY <1>1, <1>6, <1>8, <1>10, <1>11 DEF IInv
<1>13. EditUnit = -1
  <2>1. 1 \in DOMAIN tracks
    BY <1>6, FitTracks
  <2>2. \A p \in 0 .. FramesIn[tracks[1].essence] - 1 :
          mContentPackage[1] # Elements[tracks[1].essence][p]
    BY <2>1, <1>6, <1>7, FitTracks, ElementsAre
  <2>3. UnitOf(tracks, mContentPackage) = -1
    BY <2>1, <2>2, <1>6, NoUnit
  <2> QED BY <2>3 DEF EditUnit, UnitOf
<1>14. Length \in Nat
  BY <1>6, ShortestIs, LengthIsShortest
<1> QED BY <1>1, <1>12, <1>13, <1>14
    DEF FailedReadIsEOF, Called, ClipPromise!Init, ClipPromise!Called, ClipPromise!None


-----------------------------------------------------------------------------
(* The calls on the clip *)

LEMMA UnitStays ==
  ASSUME TracksFit(tracks, mPosition), DOMAIN tracks' = DOMAIN tracks,
         \A i \in DOMAIN tracks : tracks'[i].essence = tracks[i].essence,
         \A i \in DOMAIN tracks : mContentPackage'[i] = mContentPackage[i]
  PROVE  EditUnit' = EditUnit
<1>1. 1 \in DOMAIN tracks
  BY FitTracks
<1> DEFINE units(ts, package) ==
             {p \in DOMAIN Elements[ts[1].essence] :
                \A i \in DOMAIN ts :
                  /\ p \in DOMAIN Elements[ts[i].essence]
                  /\ package[i] = Elements[ts[i].essence][p]}
<1>2. units(tracks, mContentPackage) = units(tracks', mContentPackage')
  BY <1>1
<1>3. /\ EditUnit = IF units(tracks, mContentPackage) = {} THEN -1
                    ELSE Max(units(tracks, mContentPackage))
      /\ EditUnit' = IF units(tracks', mContentPackage') = {} THEN -1
                     ELSE Max(units(tracks', mContentPackage'))
  BY DEF EditUnit
<1> HIDE DEF units
<1> QED BY <1>2, <1>3

\* The package stays that of tracks which can be sought as far.
LEMMA PackageStays ==
  ASSUME NEW ts, NEW p, TracksFit(ts, p), NEW us, NEW q, TracksFit(us, q),
         NEW package, PackageFits(ts, package), DOMAIN us = DOMAIN ts,
         \A i \in DOMAIN ts : us[i].essence = ts[i].essence /\ Reach(us[i]) >= Reach(ts[i])
  PROVE  PackageFits(us, package)
<1> SUFFICES ASSUME NEW i \in DOMAIN us, package[i].data # <<>>
             PROVE  \E x \in 0 .. Reach(us[i]) - 1 : package[i] = Elements[us[i].essence][x]
  <2>1. \A i \in DOMAIN us : package[i] = Element(package[i].essenceOffset, package[i].data)
    BY DEF PackageFits
  <2> QED BY <2>1 DEF PackageFits
<1>1. PICK x \in 0 .. Reach(ts[i]) - 1 : package[i] = Elements[ts[i].essence][x]
  BY DEF PackageFits
<1>2. Reach(ts[i]) \in Nat /\ Reach(us[i]) \in Nat /\ Reach(us[i]) >= Reach(ts[i])
  BY FitTracks
<1>3. x \in 0 .. Reach(us[i]) - 1
  BY <1>2
<1> QED BY <1>1, <1>3

\* What every step of the clip reader gives.
StepGives == IInv' /\ FailedReadIsEOF' /\ ClipPromise!Next

LEMMA QueryStep ==
  ASSUME IInv, NEW limits, CallGoes(limits), NEW op \in {"duration", "determine"},
         mPosition' = mPosition, mContentPackage' = mContentPackage,
         call' = Called(op, 0, TRUE, limits # FileEnds)
  PROVE  StepGives
<1>1. IInv' /\ ClipPromise!Shortened(limits # FileEnds)
  BY CallKeeps
<1>2. EditUnit' = EditUnit
  BY UnitStays DEF IInv, CallGoes
<1>3. ClipPromise!Query(op, limits # FileEnds)
  BY <1>1, <1>2 DEF ClipPromise!Query, ClipPromise!Called, Called
<1>4. (limits # FileEnds) \in BOOLEAN
  OBVIOUS
<1>5. ClipPromise!Next
  BY <1>3, <1>4 DEF ClipPromise!Next
<1>6. FailedReadIsEOF'
  BY DEF FailedReadIsEOF, Called
<1> QED BY <1>1, <1>5, <1>6 DEF StepGives

LEMMA GetDurationStep ==
  ASSUME IInv, GetDuration
  PROVE  StepGives
<1>1. CallGoes(FileEnds)
  <2>1. /\ tracks' = tracks /\ mPosition' = mPosition /\ mContentPackage' = mContentPackage
        /\ faulted' = faulted /\ mDuration' \in {mDuration, MinDuration(tracks')}
    BY DEF GetDuration
  <2>2. \A i \in DOMAIN tracks : LengthOf(tracks[i]) \in mPosition .. LengthOf(tracks[i])
    <3> SUFFICES ASSUME NEW i \in DOMAIN tracks
                 PROVE  LengthOf(tracks[i]) \in mPosition .. LengthOf(tracks[i])
      OBVIOUS
    <3>1. /\ LengthOf(tracks[i]) \in Nat /\ mPosition \in Nat /\ Reach(tracks[i]) \in Nat
          /\ mPosition <= Reach(tracks[i]) /\ Reach(tracks[i]) <= LengthOf(tracks[i])
      BY FitTracks DEF IInv
    <3> QED BY <3>1
  <2>3. TracksFit(tracks', mPosition') /\ PackageFits(tracks', mContentPackage')
    BY <2>1 DEF IInv
  <2>4. faulted' = (faulted \/ FileEnds # FileEnds)
    BY <2>1 DEF GetDuration, IInv
  <2> QED BY <2>1, <2>2, <2>3, <2>4 DEF CallGoes
<1>2. call' = Called("duration", 0, TRUE, FileEnds # FileEnds)
  BY DEF GetDuration
<1> QED BY <1>1, <1>2, QueryStep DEF GetDuration

LEMMA DetermineStep ==
  ASSUME IInv, NEW limits \in Limits, DetermineDuration(limits)
  PROVE  StepGives
<1>1. \A i \in DOMAIN tracks : DetermineGives(tracks[i], limits[i], tracks'[i])
  <2>1. \A i \in DOMAIN tracks : Limit(tracks[i].essence, limits[i]) /\ TrackOK(tracks[i])
    BY LimitsAre, FitTracks DEF IInv
  <2>2. \A i \in DOMAIN tracks : tracks'[i] = TrackDetermine(tracks[i], limits[i])
    BY DEF DetermineDuration
  <2> QED BY <2>1, <2>2, TrackDetermineGives
<1>2. DOMAIN tracks' = DOMAIN tracks
  BY DEF DetermineDuration
<1>3. TracksFit(tracks', mPosition')
  BY <1>1, <1>2 DEF DetermineDuration, IInv, TracksFit, DetermineGives
<1>4. \A i \in DOMAIN tracks :
        /\ tracks'[i].essence = tracks[i].essence
        /\ Reach(tracks'[i]) >= Reach(tracks[i])
        /\ LengthOf(tracks'[i]) \in mPosition .. LengthOf(tracks[i])
        /\ limits = FileEnds => LengthOf(tracks'[i]) = LengthOf(tracks[i])
  BY <1>1, LimitsAre, FitTracks DEF DetermineGives, IInv
<1>5. PackageFits(tracks', mContentPackage')
  <2>1. PackageFits(tracks', mContentPackage)
    BY <1>2, <1>3, <1>4, PackageStays DEF IInv
  <2> QED BY <2>1 DEF DetermineDuration
<1>6. CallGoes(limits)
  BY <1>2, <1>3, <1>4, <1>5 DEF CallGoes, DetermineDuration, Meets
<1> QED BY <1>6, QueryStep DEF DetermineDuration


LEMMA PackageSuccess ==
  ASSUME NEW results,
         \A i \in DOMAIN tracks : results[i].ok /\ results[i].data # NoData
  PROVE  PackageAfter(results) =
           [i \in DOMAIN tracks |-> Element(tracks[i].essenceOffset, results[i].data)]
<1>1. {i \in DOMAIN tracks : ~results[i].ok} = {}
  OBVIOUS
<1> QED BY <1>1 DEF PackageAfter

\* The first track that fails to read is `first`.
FirstToFail(results, first) ==
  /\ \E n \in Nat : DOMAIN tracks = 1 .. n
  /\ first \in DOMAIN tracks /\ ~results[first].ok
  /\ first = Min({i \in DOMAIN tracks : ~results[i].ok})
  /\ \A i \in DOMAIN tracks : i < first => results[i].ok /\ results[i].data # NoData
  /\ \A i \in DOMAIN tracks :
       mContentPackage[i] = Element(mContentPackage[i].essenceOffset, mContentPackage[i].data)

LEMMA PackageFailure ==
  ASSUME NEW results, NEW first, FirstToFail(results, first)
  PROVE  LET package == PackageAfter(results)
         IN /\ DOMAIN package = DOMAIN tracks
            /\ \A i \in DOMAIN tracks :
                 /\ i < first => package[i] = Element(tracks[i].essenceOffset, results[i].data)
                 /\ i > first => package[i] = mContentPackage[i]
                 /\ package[i] = Element(package[i].essenceOffset, package[i].data)
            /\ IF results[first].data = NoData THEN package[first] = mContentPackage[first]
               ELSE package[first].data = <<>>
<1> DEFINE failed == {i \in DOMAIN tracks : ~results[i].ok}
           package == PackageAfter(results)
<1> USE DEF FirstToFail
<1>1. failed # {}
  OBVIOUS
<1>2. package = [i \in DOMAIN tracks |->
                   IF i \notin (IF failed = {} THEN DOMAIN tracks ELSE 1 .. first) \/ results[i].data = NoData
                   THEN mContentPackage[i]
                   ELSE IF results[i].ok THEN Element(tracks[i].essenceOffset, results[i].data)
                   ELSE [mContentPackage[i] EXCEPT !.data = <<>>]]
  BY DEF PackageAfter
<1> HIDE DEF failed, package
<1>3. package = [i \in DOMAIN tracks |->
                   IF i \notin 1 .. first \/ results[i].data = NoData
                   THEN mContentPackage[i]
                   ELSE IF results[i].ok THEN Element(tracks[i].essenceOffset, results[i].data)
                   ELSE [mContentPackage[i] EXCEPT !.data = <<>>]]
  BY <1>1, <1>2
<1>4. ASSUME NEW i \in DOMAIN tracks
      PROVE  /\ i < first => package[i] = Element(tracks[i].essenceOffset, results[i].data)
             /\ i > first => package[i] = mContentPackage[i]
             /\ i \in Nat /\ first \in Nat
  <2>1. i \in Nat /\ i >= 1 /\ first \in Nat
    OBVIOUS
  <2>2. i < first => i \in 1 .. first /\ results[i].ok /\ results[i].data # NoData
    BY <2>1
  <2>3. i > first => i \notin 1 .. first
    BY <2>1
  <2> QED BY <2>1, <2>2, <2>3, <1>3
<1>5. first \in 1 .. first
  OBVIOUS
<1>6. IF results[first].data = NoData THEN package[first] = mContentPackage[first]
      ELSE package[first] = Element(mContentPackage[first].essenceOffset, <<>>)
  <2>1. CASE results[first].data = NoData
    BY <2>1, <1>3
  <2>2. CASE results[first].data # NoData
    <3>1. package[first] = [mContentPackage[first] EXCEPT !.data = <<>>]
      BY <2>2, <1>3, <1>5
    <3> DEFINE offset == mContentPackage[first].essenceOffset
               data == mContentPackage[first].data
    <3>2. mContentPackage[first] = [essenceOffset |-> offset, data |-> data]
      BY DEF Element
    <3> HIDE DEF offset, data
    <3>3. [mContentPackage[first] EXCEPT !.data = <<>>] = [essenceOffset |-> offset, data |-> <<>>]
      BY <3>2
    <3>4. package[first] = Element(offset, <<>>)
      BY <3>1, <3>3 DEF Element
    <3> QED BY <3>4, <2>2 DEF offset
  <2> QED BY <2>1, <2>2
<1>7. \A offset, data : Element(offset, data).essenceOffset = offset /\ Element(offset, data).data = data
  BY DEF Element
<1>8. ASSUME NEW i \in DOMAIN tracks
      PROVE  package[i] = Element(package[i].essenceOffset, package[i].data)
  <2>1. CASE i = first
    BY <2>1, <1>6, <1>7
  <2>2. CASE i # first
    <3>1. i < first \/ i > first
      BY <2>2, <1>4
    <3> QED BY <3>1, <1>4, <1>7
  <2> QED BY <2>1, <2>2
<1>9. DOMAIN package = DOMAIN tracks
  BY <1>3
<1>10. IF results[first].data = NoData THEN package[first] = mContentPackage[first]
       ELSE package[first].data = <<>>
  BY <1>6, <1>7
<1> QED BY <1>4, <1>8, <1>9, <1>10 DEF package

\* What a read of each track gives.
ReadsGive(limits, results) ==
  \A i \in DOMAIN tracks : ReadGives(tracks[i], limits[i], results[i])

LEMMA ReadSucceeds ==
  ASSUME IInv, NEW limits \in Limits, NEW results, ReadsGive(limits, results),
         \A i \in DOMAIN tracks : results[i].ok,
         tracks' = TracksAfter(results, limits), mContentPackage' = PackageAfter(results),
         mPosition' = mPosition + 1, call' = Called("read", 0, TRUE, limits # FileEnds),
         Meets(limits), mDuration' = mDuration
  PROVE  StepGives
<1> DEFINE p == mPosition
<1>1. TracksFit(tracks, p) /\ p \in Nat /\ PackageFits(tracks, mContentPackage)
  BY FitTracks DEF IInv
<1>2. tracks' = [i \in DOMAIN tracks |-> results[i].track]
  BY AfterSuccess
<1>3. ASSUME NEW i \in DOMAIN tracks
      PROVE  /\ TrackOK(tracks'[i]) /\ tracks'[i].position = p + 1
             /\ tracks'[i].essence = tracks[i].essence
             /\ LengthOf(tracks'[i]) = LengthOf(tracks[i])
             /\ Reach(tracks'[i]) >= Reach(tracks[i])
             /\ p < Reach(tracks'[i])
             /\ tracks[i].essenceOffset = OffsetOf(tracks[i].essence, p)
             /\ results[i].data = Frame(tracks[i].essence, p)
  <2>1. ReadGives(tracks[i], limits[i], results[i]) /\ tracks[i].position = p
    BY <1>1, FitTracks DEF ReadsGive
  <2>2. tracks'[i] = results[i].track
    BY <1>2
  <2>3. /\ TrackOK(tracks'[i]) /\ tracks'[i].position = p + 1
        /\ tracks'[i].essence = tracks[i].essence
        /\ tracks'[i].duration = tracks[i].duration
        /\ Reach(tracks'[i]) >= Reach(tracks[i])
        /\ p < Reach(tracks'[i])
        /\ tracks[i].essenceOffset = OffsetOf(tracks[i].essence, p)
        /\ results[i].data = Frame(tracks[i].essence, p)
    BY <2>1, <2>2 DEF ReadGives
  <2> QED BY <2>3 DEF LengthOf
<1>4. DOMAIN tracks' = DOMAIN tracks
  BY <1>2
<1>5. TracksFit(tracks', p + 1)
  BY <1>1, <1>3, <1>4 DEF TracksFit
<1>6. ASSUME NEW i \in DOMAIN tracks
      PROVE  /\ p \in 0 .. Reach(tracks'[i]) - 1 /\ p \in 0 .. FramesIn[tracks[i].essence] - 1
             /\ LengthOf(tracks[i]) \in p .. LengthOf(tracks[i]) /\ p < LengthOf(tracks[i])
             /\ tracks[i].essence \in Essences /\ WellFormed(tracks[i].essence)
  <2>1. /\ Reach(tracks'[i]) \in Nat /\ Reach(tracks'[i]) <= LengthOf(tracks'[i])
        /\ LengthOf(tracks'[i]) \in Nat /\ FramesIn[tracks'[i].essence] \in Nat
        /\ LengthOf(tracks'[i]) <= FramesIn[tracks'[i].essence]
    BY <1>4, <1>5, FitTracks
  <2>2. tracks[i].essence \in Essences /\ WellFormed(tracks[i].essence)
    BY <1>1, FitTracks
  <2>3. /\ p < Reach(tracks'[i]) /\ LengthOf(tracks'[i]) = LengthOf(tracks[i])
        /\ tracks'[i].essence = tracks[i].essence
    BY <1>3
  <2> HIDE DEF p
  <2>4. /\ p \in 0 .. Reach(tracks'[i]) - 1 /\ p \in 0 .. FramesIn[tracks'[i].essence] - 1
        /\ LengthOf(tracks'[i]) \in p .. LengthOf(tracks'[i]) /\ p < LengthOf(tracks'[i])
    BY <2>1, <2>3, <1>1
  <2> QED BY <2>2, <2>3, <2>4
<1>7. ASSUME NEW i \in DOMAIN tracks
      PROVE  /\ mContentPackage'[i] = Elements[tracks'[i].essence][p]
             /\ mContentPackage'[i] = Element(mContentPackage'[i].essenceOffset, mContentPackage'[i].data)
  <2>1. /\ Elements[tracks[i].essence][p]
             = Element(OffsetOf(tracks[i].essence, p), Frame(tracks[i].essence, p))
    BY <1>6, ElementsAre
  <2>2. \A j \in DOMAIN tracks : results[j].data # NoData
    BY <1>3, <1>6, ElementsAre
  <2>3. mContentPackage'[i] = Element(tracks[i].essenceOffset, results[i].data)
    BY <2>2, PackageSuccess
  <2>4. \A offset, data : Element(offset, data).essenceOffset = offset /\ Element(offset, data).data = data
    BY DEF Element
  <2> QED BY <2>1, <2>3, <2>4, <1>3
<1>8. PackageFits(tracks', mContentPackage')
  <2>1. DOMAIN mContentPackage' = DOMAIN tracks'
    BY <1>4 DEF PackageAfter
  <2> QED BY <2>1, <1>4, <1>6, <1>7 DEF PackageFits
<1>9. CallGoes(limits)
  BY <1>3, <1>4, <1>5, <1>6, <1>8 DEF CallGoes, Meets
<1>10. IInv' /\ Length' = Length
  BY <1>3, <1>9, CallKeeps
<1>11. EditUnit' = p
  <2>1. UnitOf(tracks', mContentPackage') = p
    <3>1. \A i \in DOMAIN tracks' : /\ p \in 0 .. FramesIn[tracks'[i].essence] - 1
                                    /\ mContentPackage'[i] = Elements[tracks'[i].essence][p]
      BY <1>3, <1>4, <1>6, <1>7
    <3> HIDE DEF p
    <3> QED BY <3>1, <1>5, UnitIs
  <2> QED BY <2>1 DEF EditUnit, UnitOf
<1>12. p < Length
  <2>1. PICK i \in DOMAIN tracks : Length = LengthOf(tracks[i])
    BY <1>1, ShortestIs, LengthIsShortest
  <2> QED BY <2>1, <1>6
<1>13. ClipPromise!Read(limits # FileEnds)
  BY <1>10, <1>11, <1>12 DEF ClipPromise!Read, ClipPromise!Called, Called
<1>14. (limits # FileEnds) \in BOOLEAN
  OBVIOUS
<1>15. ClipPromise!Next
  BY <1>13, <1>14 DEF ClipPromise!Next
<1>16. FailedReadIsEOF'
  BY DEF FailedReadIsEOF, Called
<1> QED BY <1>10, <1>15, <1>16 DEF StepGives


LEMMA ReadFailing ==
  ASSUME IInv, NEW limits \in Limits, NEW results, ReadsGive(limits, results),
         ~\A i \in DOMAIN tracks : results[i].ok,
         tracks' = TracksAfter(results, limits), mContentPackage' = PackageAfter(results),
         mPosition' = mPosition, call' = Called("read", 0, FALSE, limits # FileEnds),
         Meets(limits), mDuration' = mDuration
  PROVE  StepGives
<1> DEFINE p == mPosition
           first == Min({i \in DOMAIN tracks : ~results[i].ok})
<1>1. TracksFit(tracks, p) /\ p \in Nat /\ PackageFits(tracks, mContentPackage)
  BY FitTracks DEF IInv
<1>2. PICK n \in Nat \ {0} : DOMAIN tracks = 1 .. n
  BY <1>1 DEF TracksFit
<1>3. ASSUME NEW i \in DOMAIN tracks
      PROVE  /\ ReadGives(tracks[i], limits[i], results[i]) /\ tracks[i].position = p
             /\ results[i].track.essence = tracks[i].essence
             /\ CanReturn(results[i].track, p)
             /\ tracks[i].essence \in Essences /\ WellFormed(tracks[i].essence)
  <2>1. /\ ReadGives(tracks[i], limits[i], results[i]) /\ tracks[i].position = p
        /\ tracks[i].essence \in Essences /\ WellFormed(tracks[i].essence)
    BY <1>1, FitTracks DEF ReadsGive
  <2> QED BY <2>1 DEF ReadGives
<1>4. FailsAt(first, results, tracks')
  BY <1>1, <1>3, AfterFailure
<1>5. /\ first \in DOMAIN tracks /\ ~results[first].ok /\ DOMAIN tracks' = DOMAIN tracks
      /\ first \in Nat
      /\ \A i \in DOMAIN tracks :
           /\ i < first => results[i].ok
           /\ i <= first => PutsBack(results[i].track, p, tracks'[i])
           /\ i > first => tracks'[i] = tracks[i]
  <2> HIDE DEF first
  <2> QED BY <1>2, <1>4 DEF FailsAt
<1>6. first = Min({i \in DOMAIN tracks : ~results[i].ok})
  OBVIOUS
<1> HIDE DEF first
\* The tracks before it.
<1>7. ASSUME NEW i \in DOMAIN tracks, i < first
      PROVE  /\ TrackOK(tracks'[i]) /\ tracks'[i].position = p
             /\ tracks'[i].essence = tracks[i].essence
             /\ LengthOf(tracks'[i]) = LengthOf(tracks[i])
             /\ p < Reach(tracks'[i])
             /\ tracks[i].essenceOffset = OffsetOf(tracks[i].essence, p)
             /\ results[i].data = Frame(tracks[i].essence, p)
  <2>1. results[i].ok /\ PutsBack(results[i].track, p, tracks'[i])
    BY <1>2, <1>5, <1>7
  <2>2. /\ results[i].track.essence = tracks[i].essence
        /\ results[i].track.duration = tracks[i].duration
        /\ p < Reach(results[i].track)
        /\ tracks[i].essenceOffset = OffsetOf(tracks[i].essence, p)
        /\ results[i].data = Frame(tracks[i].essence, p)
    BY <1>3, <2>1 DEF ReadGives
  <2>3. LengthOf(results[i].track) = LengthOf(tracks[i])
    BY <2>2 DEF LengthOf
  <2> QED BY <2>1, <2>2, <2>3 DEF PutsBack
\* The track that failed.
<1>8. /\ TrackOK(tracks'[first]) /\ tracks'[first].position = p
      /\ tracks'[first].essence = tracks[first].essence
      /\ LengthOf(tracks'[first]) \in p .. LengthOf(tracks[first])
      /\ limits = FileEnds => /\ LengthOf(tracks'[first]) = LengthOf(tracks[first])
                              /\ IsEOF(tracks'[first])
      /\ results[first].data \in {NoData, <<>>}
      /\ results[first].data = NoData => /\ IsEOF(tracks[first])
                                         /\ Reach(tracks'[first]) = Reach(tracks[first])
  <2>1. PutsBack(results[first].track, p, tracks'[first])
    BY <1>2, <1>5
  <2>2. /\ ReadGives(tracks[first], limits[first], results[first]) /\ tracks[first].position = p
        /\ results[first].track.essence = tracks[first].essence
    BY <1>3, <1>5
  <2>3. limits = FileEnds => limits[first] = End(tracks[first].essence)
    BY <1>1, <1>5, LimitsAre
  <2>4. /\ results[first].data \in {NoData, <<>>}
        /\ results[first].data = NoData => results[first].track = tracks[first] /\ IsEOF(tracks[first])
        /\ LengthOf(results[first].track) \in p .. LengthOf(tracks[first])
        /\ limits = FileEnds =>
            /\ IsEOF(results[first].track)
            /\ results[first].track.position = p
            /\ LengthOf(results[first].track) = LengthOf(tracks[first])
    BY <2>2, <2>3, <1>5 DEF ReadGives
  <2> QED BY <2>1, <2>2, <2>4 DEF PutsBack
<1>9. ASSUME NEW i \in DOMAIN tracks
      PROVE  /\ TrackOK(tracks'[i]) /\ tracks'[i].position = p
             /\ tracks'[i].essence = tracks[i].essence
             /\ LengthOf(tracks'[i]) \in p .. LengthOf(tracks[i])
             /\ limits = FileEnds => LengthOf(tracks'[i]) = LengthOf(tracks[i])
  <2>1. CASE i = first
    BY <2>1, <1>8
  <2>2. LengthOf(tracks[i]) \in p .. LengthOf(tracks[i])
    <3>1. /\ LengthOf(tracks[i]) \in Nat /\ Reach(tracks[i]) \in Nat
          /\ p <= Reach(tracks[i]) /\ Reach(tracks[i]) <= LengthOf(tracks[i])
      BY <1>1, FitTracks
    <3> QED BY <3>1, <1>1
  <2>3. CASE i < first
    BY <2>2, <2>3, <1>7
  <2>4. CASE i > first
    BY <2>2, <2>4, <1>1, <1>5, FitTracks
  <2>5. i < first \/ i = first \/ i > first
    BY <1>2, <1>5
  <2> QED BY <2>1, <2>3, <2>4, <2>5
<1>10. TracksFit(tracks', p)
  BY <1>1, <1>5, <1>9 DEF TracksFit
<1>11. /\ DOMAIN mContentPackage' = DOMAIN tracks
       /\ \A i \in DOMAIN tracks :
            /\ i < first => mContentPackage'[i] = Element(tracks[i].essenceOffset, results[i].data)
            /\ i > first => mContentPackage'[i] = mContentPackage[i]
            /\ mContentPackage'[i] = Element(mContentPackage'[i].essenceOffset, mContentPackage'[i].data)
       /\ results[first].data = NoData => mContentPackage'[first] = mContentPackage[first]
       /\ results[first].data # NoData => mContentPackage'[first].data = <<>>
  <2>1. ASSUME NEW i \in DOMAIN tracks, i < first
        PROVE  results[i].ok /\ results[i].data # NoData
    <3>1. /\ Reach(tracks'[i]) \in Nat /\ FramesIn[tracks'[i].essence] \in Nat
          /\ Reach(tracks'[i]) <= LengthOf(tracks'[i]) /\ LengthOf(tracks'[i]) \in Nat
          /\ LengthOf(tracks'[i]) <= FramesIn[tracks'[i].essence]
      BY <1>5, <1>10, FitTracks
    <3>2. p \in 0 .. FramesIn[tracks'[i].essence] - 1
      BY <3>1, <2>1, <1>1, <1>7
    <3>3. Frame(tracks[i].essence, p) # NoData
      BY <3>2, <2>1, <1>3, <1>7, ElementsAre
    <3> QED BY <3>3, <2>1, <1>5, <1>7
  <2>2. \A i \in DOMAIN tracks :
          mContentPackage[i] = Element(mContentPackage[i].essenceOffset, mContentPackage[i].data)
    BY <1>1 DEF PackageFits
  <2> DEFINE package == PackageAfter(results)
  <2>3. /\ DOMAIN package = DOMAIN tracks
        /\ \A i \in DOMAIN tracks :
             /\ i < first => package[i] = Element(tracks[i].essenceOffset, results[i].data)
             /\ i > first => package[i] = mContentPackage[i]
             /\ package[i] = Element(package[i].essenceOffset, package[i].data)
        /\ IF results[first].data = NoData THEN package[first] = mContentPackage[first]
           ELSE package[first].data = <<>>
    <3>1. FirstToFail(results, first)
      BY <2>1, <2>2, <1>2, <1>5, <1>6 DEF FirstToFail
    <3> QED BY <3>1, PackageFailure
  <2> HIDE DEF package
  <2>4. mContentPackage' = package
    BY DEF package
  <2> QED BY <2>3, <2>4
<1>12. ASSUME NEW i \in DOMAIN tracks, i < first
       PROVE  /\ p \in 0 .. Reach(tracks'[i]) - 1
              /\ p \in 0 .. FramesIn[tracks[i].essence] - 1
              /\ mContentPackage'[i] = Elements[tracks[i].essence][p]
  <2>1. /\ Reach(tracks'[i]) \in Nat /\ FramesIn[tracks'[i].essence] \in Nat
        /\ Reach(tracks'[i]) <= LengthOf(tracks'[i]) /\ LengthOf(tracks'[i]) \in Nat
        /\ LengthOf(tracks'[i]) <= FramesIn[tracks'[i].essence]
    BY <1>5, <1>10, FitTracks
  <2>2. p \in 0 .. Reach(tracks'[i]) - 1 /\ p \in 0 .. FramesIn[tracks'[i].essence] - 1
    BY <2>1, <1>1, <1>7, <1>12
  <2>3. tracks'[i].essence = tracks[i].essence
    BY <1>9
  <2>4. Elements[tracks[i].essence][p]
          = Element(OffsetOf(tracks[i].essence, p), Frame(tracks[i].essence, p))
    BY <2>2, <2>3, <1>3, ElementsAre
  <2> QED BY <2>2, <2>3, <2>4, <1>7, <1>11, <1>12
\* What the failed track has in the package, if its element is one that it read before.
<1>13. ASSUME results[first].data = NoData
       PROVE  /\ Reach(tracks'[first]) = Reach(tracks[first])
              /\ Reach(tracks[first]) = p
              /\ mContentPackage'[first] = mContentPackage[first]
  <2>1. IsEOF(tracks[first]) /\ tracks[first].position = p /\ tracks[first].duration \in Nat \cup {-1}
        /\ p <= Reach(tracks[first])
    BY <1>1, <1>5, <1>8, <1>13, FitTracks
  <2>2. Reach(tracks[first]) = p
    BY <2>1, <1>1 DEF IsEOF, Reach
  <2> QED BY <2>2, <1>8, <1>11, <1>13
<1>14. PackageFits(tracks', mContentPackage')
  <2> SUFFICES ASSUME NEW i \in DOMAIN tracks', mContentPackage'[i].data # <<>>
               PROVE  \E q \in 0 .. Reach(tracks'[i]) - 1 :
                        mContentPackage'[i] = Elements[tracks'[i].essence][q]
    BY <1>5, <1>11 DEF PackageFits
  <2>1. i \in DOMAIN tracks /\ tracks'[i].essence = tracks[i].essence
    BY <1>5, <1>9
  <2>2. CASE i < first
    BY <2>1, <2>2, <1>12
  <2>3. CASE i >= first
    <3>1. mContentPackage'[i] = mContentPackage[i] /\ Reach(tracks'[i]) = Reach(tracks[i])
      <4>1. CASE i = first
        BY <4>1, <1>11, <1>13
      <4>2. CASE i > first
        BY <4>2, <2>1, <1>5, <1>11
      <4> QED BY <4>1, <4>2, <2>1, <2>3, <1>2, <1>5
    <3> QED BY <3>1, <2>1, <1>1 DEF PackageFits
  <2> QED BY <2>1, <2>2, <2>3, <1>2, <1>5
<1>15. CallGoes(limits)
  BY <1>5, <1>9, <1>10, <1>14 DEF CallGoes, Meets
<1>16. IInv' /\ ClipPromise!Shortened(limits # FileEnds)
  BY <1>15, CallKeeps
<1>17. EditUnit' \in {EditUnit, -1}
  <2>1. CASE results[first].data # NoData
    <3>1. mContentPackage'[first].data = <<>>
      BY <2>1, <1>11
    <3>2. \A q \in 0 .. FramesIn[tracks'[first].essence] - 1 :
            mContentPackage'[first] # Elements[tracks'[first].essence][q]
      BY <3>1, <1>3, <1>5, <1>8, ElementsAre
    <3>3. UnitOf(tracks', mContentPackage') = -1
      BY <3>2, <1>5, <1>10, NoUnit
    <3> QED BY <3>3 DEF EditUnit, UnitOf
  <2>2. CASE results[first].data = NoData /\ first = 1
    <3>1. \A i \in DOMAIN tracks : mContentPackage'[i] = mContentPackage[i]
      <4>1. \A i \in DOMAIN tracks : i = first \/ i > first
        BY <2>2, <1>2
      <4> QED BY <4>1, <2>2, <1>11
    <3>2. EditUnit' = EditUnit
      BY <3>1, <1>1, <1>5, <1>9, UnitStays
    <3> QED BY <3>2
  <2>3. CASE results[first].data = NoData /\ first # 1
    <3>1. 1 \in DOMAIN tracks /\ 1 < first
      BY <2>3, <1>2, <1>5
    <3> DEFINE e1 == tracks[1].essence
               e2 == tracks[first].essence
    <3>2. /\ e1 \in Essences /\ WellFormed(e1) /\ e2 \in Essences /\ WellFormed(e2)
          /\ p \in 0 .. FramesIn[e1] - 1 /\ mContentPackage'[1] = Elements[e1][p]
      BY <3>1, <1>3, <1>5, <1>12
    <3>3. ASSUME NEW q \in 0 .. FramesIn[e1] - 1, q \in 0 .. FramesIn[e2] - 1,
                 mContentPackage'[1] = Elements[e1][q], mContentPackage'[first] = Elements[e2][q]
          PROVE  FALSE
      <4>1. q = p
        BY <3>2, <3>3, ElementsAre
      <4>2. Elements[e2][q].data # <<>>
        BY <3>2, <3>3, ElementsAre
      <4>3. mContentPackage[first] = Elements[e2][q] /\ mContentPackage[first].data # <<>>
            /\ Reach(tracks[first]) = p
        BY <4>2, <3>3, <2>3, <1>13
      <4>4. PICK x \in 0 .. Reach(tracks[first]) - 1 : mContentPackage[first] = Elements[e2][x]
        BY <4>3, <1>1, <1>5 DEF PackageFits
      <4>5. /\ Reach(tracks[first]) \in Nat /\ Reach(tracks[first]) <= LengthOf(tracks[first])
            /\ LengthOf(tracks[first]) \in Nat /\ FramesIn[e2] \in Nat
            /\ LengthOf(tracks[first]) <= FramesIn[e2]
        BY <1>1, <1>5, FitTracks
      <4> HIDE DEF e1, e2
      <4>6. x \in 0 .. FramesIn[e2] - 1 /\ x < p /\ x \in Nat
        BY <4>3, <4>4, <4>5, <1>1
      <4>7. x = q
        <5>1. Elements[e2][x] = Elements[e2][q]
          BY <4>3, <4>4
        <5>2. q \in 0 .. FramesIn[e2] - 1 /\ x \in 0 .. FramesIn[e2] - 1
          BY <4>6, <3>3
        <5> QED BY <5>1, <5>2, <3>2, ElementsAre
      <4> QED BY <4>1, <4>6, <4>7, <1>1
    <3>4. tracks'[1].essence = e1 /\ tracks'[first].essence = e2
      BY <3>1, <1>5, <1>9
    <3>5. \A q \in 0 .. FramesIn[tracks'[1].essence] - 1 :
            q \in 0 .. FramesIn[tracks'[first].essence] - 1 =>
              \/ mContentPackage'[1] # Elements[tracks'[1].essence][q]
              \/ mContentPackage'[first] # Elements[tracks'[first].essence][q]
      <4> HIDE DEF e1, e2
      <4> QED BY <3>3, <3>4
    <3>6. UnitOf(tracks', mContentPackage') = -1
      BY <3>1, <3>5, <1>5, <1>10, NoUnit
    <3> QED BY <3>6 DEF EditUnit, UnitOf
  <2> QED BY <2>1, <2>2, <2>3
<1>18. mPosition >= Length \/ limits # FileEnds
  <2> SUFFICES ASSUME limits = FileEnds PROVE mPosition >= Length
    OBVIOUS
  <2>1. IsEOF(tracks'[first]) /\ tracks'[first].position = p
        /\ LengthOf(tracks'[first]) = LengthOf(tracks[first])
    BY <1>8
  <2>2. tracks'[first].duration >= 0 /\ p >= tracks'[first].duration
    BY <2>1 DEF IsEOF
  <2>3. LengthOf(tracks[first]) <= p
    BY <2>1, <2>2, <1>1 DEF LengthOf
  <2>4. Length \in Nat /\ Length <= LengthOf(tracks[first]) /\ LengthOf(tracks[first]) \in Nat
    BY <1>1, <1>5, ShortestIs, LengthIsShortest, FitTracks
  <2> QED BY <2>3, <2>4, <1>1
<1>19. ClipPromise!ReadFails(limits # FileEnds)
  BY <1>16, <1>17, <1>18
    DEF ClipPromise!ReadFails, ClipPromise!Called, ClipPromise!None, Called
<1>20. (limits # FileEnds) \in BOOLEAN
  OBVIOUS
<1>21. ClipPromise!Next
  BY <1>19, <1>20 DEF ClipPromise!Next
<1>22. FailedReadIsEOF'
  <2> SUFFICES ASSUME limits = FileEnds PROVE ClipIsEOF'
    BY DEF FailedReadIsEOF, Called
  <2>1. IsEOF(tracks'[first]) /\ first \in DOMAIN tracks'
    BY <1>5, <1>8
  <2> QED BY <2>1 DEF ClipIsEOF, IsEOF
<1> QED BY <1>16, <1>21, <1>22 DEF StepGives


LEMMA ReadStep ==
  ASSUME IInv, NEW limits \in Limits, Read(limits)
  PROVE  StepGives
<1> DEFINE results == [i \in DOMAIN tracks |-> TrackRead(tracks[i], limits[i])]
           ok == \A i \in DOMAIN tracks : results[i].ok
<1>1. ReadsGive(limits, results)
  <2>1. \A i \in DOMAIN tracks : Limit(tracks[i].essence, limits[i]) /\ TrackOK(tracks[i])
    BY LimitsAre, FitTracks DEF IInv
  <2>2. \A i \in DOMAIN tracks : results[i] = TrackRead(tracks[i], limits[i])
    OBVIOUS
  <2> HIDE DEF results
  <2> QED BY <2>1, <2>2, TrackReadGives DEF ReadsGive
<1>2. /\ tracks' = TracksAfter(results, limits)
      /\ mContentPackage' = PackageAfter(results)
      /\ mPosition' = IF ok THEN mPosition + 1 ELSE mPosition
      /\ call' = Called("read", 0, ok, limits # FileEnds)
      /\ Meets(limits)
      /\ mDuration' = mDuration
  BY DEF Read
<1> HIDE DEF results
<1>3. CASE ok
  <2>1. ok = TRUE
    BY <1>3
  <2> QED BY <2>1, <1>1, <1>2, ReadSucceeds
<1>4. CASE ~ok
  <2>1. ok = FALSE
    BY <1>4
  <2> QED BY <2>1, <1>1, <1>2, <1>4, ReadFailing
<1> QED BY <1>3, <1>4

\* What a seek of each track gives.
SeeksGive(limits, target, results) ==
  \A i \in DOMAIN tracks : SeekGives(tracks[i], target, limits[i], results[i])

LEMMA SeekSucceeds ==
  ASSUME IInv, NEW limits \in Limits, NEW target \in 0 .. MaxTarget, NEW results,
         SeeksGive(limits, target, results), \A i \in DOMAIN tracks : results[i].ok,
         tracks' = TracksAfter(results, limits), mContentPackage' = mContentPackage,
         mPosition' = target, call' = Called("seek", target, TRUE, limits # FileEnds),
         Meets(limits), mDuration' = mDuration
  PROVE  StepGives
<1>1. TracksFit(tracks, mPosition) /\ target \in Nat
  BY ClipAssumption DEF IInv
<1>2. tracks' = [i \in DOMAIN tracks |-> results[i].track]
  BY AfterSuccess
<1>3. ASSUME NEW i \in DOMAIN tracks
      PROVE  /\ TrackOK(tracks'[i]) /\ tracks'[i].position = target
             /\ tracks'[i].essence = tracks[i].essence
             /\ LengthOf(tracks'[i]) = LengthOf(tracks[i])
             /\ Reach(tracks'[i]) >= Reach(tracks[i])
             /\ target <= LengthOf(tracks[i])
             /\ LengthOf(tracks[i]) \in mPosition .. LengthOf(tracks[i])
  <2>1. SeekGives(tracks[i], target, limits[i], results[i]) /\ results[i].ok
    BY DEF SeeksGive
  <2>2. tracks'[i] = results[i].track
    BY <1>2
  <2>3. /\ TrackOK(tracks'[i]) /\ tracks'[i].position = target
        /\ tracks'[i].essence = tracks[i].essence
        /\ tracks'[i].duration = tracks[i].duration
        /\ Reach(tracks'[i]) >= Reach(tracks[i])
        /\ target <= LengthOf(tracks[i])
    BY <2>1, <2>2 DEF SeekGives
  <2>4. /\ LengthOf(tracks[i]) \in Nat /\ mPosition \in Nat /\ Reach(tracks[i]) \in Nat
        /\ mPosition <= Reach(tracks[i]) /\ Reach(tracks[i]) <= LengthOf(tracks[i])
    BY <1>1, FitTracks
  <2>5. LengthOf(tracks[i]) \in mPosition .. LengthOf(tracks[i])
    BY <2>4
  <2>6. LengthOf(tracks'[i]) = LengthOf(tracks[i])
    BY <2>3 DEF LengthOf
  <2> QED BY <2>3, <2>5, <2>6
<1>4. DOMAIN tracks' = DOMAIN tracks
  BY <1>2
<1>5. TracksFit(tracks', target)
  BY <1>1, <1>3, <1>4 DEF TracksFit
<1>6. PackageFits(tracks', mContentPackage')
  <2>1. PackageFits(tracks', mContentPackage)
    BY <1>1, <1>3, <1>4, <1>5, PackageStays DEF IInv
  <2> QED BY <2>1
<1>7. CallGoes(limits)
  BY <1>3, <1>4, <1>5, <1>6 DEF CallGoes, Meets
<1>8. IInv' /\ Length' = Length
  BY <1>3, <1>7, CallKeeps
<1>9. EditUnit' = EditUnit
  BY <1>1, <1>3, <1>4, UnitStays
<1>10. target <= Length
  <2>1. PICK i \in DOMAIN tracks : Length = LengthOf(tracks[i])
    BY <1>1, ShortestIs, LengthIsShortest
  <2> QED BY <2>1, <1>3
<1>11. ClipPromise!Seek(target, limits # FileEnds)
  BY <1>8, <1>9, <1>10 DEF ClipPromise!Seek, ClipPromise!Called, Called
<1>12. (limits # FileEnds) \in BOOLEAN
  OBVIOUS
<1>13. ClipPromise!Next
  BY <1>11, <1>12 DEF ClipPromise!Next
<1>14. FailedReadIsEOF'
  BY DEF FailedReadIsEOF, Called
<1> QED BY <1>8, <1>13, <1>14 DEF StepGives

LEMMA SeekFailing ==
  ASSUME IInv, NEW limits \in Limits, NEW target \in 0 .. MaxTarget, NEW results,
         SeeksGive(limits, target, results), ~\A i \in DOMAIN tracks : results[i].ok,
         tracks' = TracksAfter(results, limits), mContentPackage' = mContentPackage,
         mPosition' = mPosition, call' = Called("seek", target, FALSE, limits # FileEnds),
         Meets(limits), mDuration' = mDuration
  PROVE  StepGives
<1> DEFINE p == mPosition
           first == Min({i \in DOMAIN tracks : ~results[i].ok})
<1>1. TracksFit(tracks, p) /\ p \in Nat
  BY FitTracks DEF IInv
<1>2. PICK n \in Nat \ {0} : DOMAIN tracks = 1 .. n
  BY <1>1 DEF TracksFit
<1>3. ASSUME NEW i \in DOMAIN tracks
      PROVE  /\ SeekGives(tracks[i], target, limits[i], results[i]) /\ tracks[i].position = p
             /\ results[i].track.essence = tracks[i].essence
  <2>1. SeekGives(tracks[i], target, limits[i], results[i]) /\ tracks[i].position = p
    BY <1>1, FitTracks DEF SeeksGive
  <2> QED BY <2>1 DEF SeekGives
\* A track that fails has the target behind it, so all can go back.
<1>4. p <= target
  <2>1. PICK j \in DOMAIN tracks : ~results[j].ok
    OBVIOUS
  <2> QED BY <2>1, <1>3 DEF SeekGives
<1>5. \A i \in DOMAIN tracks : CanReturn(results[i].track, p)
  BY <1>3, <1>4 DEF SeekGives
<1>6. FailsAt(first, results, tracks')
  BY <1>1, <1>5, AfterFailure
<1> HIDE DEF first
<1>7. /\ first \in DOMAIN tracks /\ ~results[first].ok /\ DOMAIN tracks' = DOMAIN tracks
      /\ first \in Nat
      /\ \A i \in DOMAIN tracks :
           /\ i < first => results[i].ok
           /\ i <= first => PutsBack(results[i].track, p, tracks'[i])
           /\ i > first => tracks'[i] = tracks[i]
  BY <1>2, <1>6 DEF FailsAt
<1>8. ASSUME NEW i \in DOMAIN tracks
      PROVE  /\ LengthOf(tracks[i]) \in p .. LengthOf(tracks[i])
             /\ LengthOf(tracks[i]) \in Nat /\ Reach(tracks[i]) \in Nat /\ TrackOK(tracks[i])
             /\ tracks[i].position = p
  <2>1. /\ LengthOf(tracks[i]) \in Nat /\ Reach(tracks[i]) \in Nat /\ TrackOK(tracks[i])
        /\ p <= Reach(tracks[i]) /\ Reach(tracks[i]) <= LengthOf(tracks[i])
        /\ tracks[i].position = p
    BY <1>1, FitTracks
  <2> QED BY <2>1, <1>1
<1>9. ASSUME NEW i \in DOMAIN tracks
      PROVE  /\ TrackOK(tracks'[i]) /\ tracks'[i].position = p
             /\ tracks'[i].essence = tracks[i].essence
             /\ Reach(tracks'[i]) >= Reach(tracks[i])
             /\ LengthOf(tracks'[i]) \in p .. LengthOf(tracks[i])
             /\ limits = FileEnds => LengthOf(tracks'[i]) = LengthOf(tracks[i])
             /\ (i = first /\ limits = FileEnds) => target >= LengthOf(tracks[i])
  <2>1. limits = FileEnds => limits[i] = End(tracks[i].essence)
    BY <1>1, LimitsAre
  <2>2. CASE i < first
    <3>1. results[i].ok /\ PutsBack(results[i].track, p, tracks'[i])
      BY <2>2, <1>2, <1>7
    <3>2. /\ results[i].track.essence = tracks[i].essence
          /\ results[i].track.duration = tracks[i].duration
          /\ Reach(results[i].track) >= Reach(tracks[i])
      BY <3>1, <1>3 DEF SeekGives
    <3>3. LengthOf(results[i].track) = LengthOf(tracks[i]) /\ i # first
      BY <3>2, <2>2, <1>2, <1>7 DEF LengthOf
    <3> QED BY <3>1, <3>2, <3>3, <1>8 DEF PutsBack
  <2>3. CASE i = first
    <3>1. ~results[i].ok /\ PutsBack(results[i].track, p, tracks'[i])
      BY <2>3, <1>2, <1>7
    <3>2. /\ results[i].track.essence = tracks[i].essence
          /\ Reach(results[i].track) >= Reach(tracks[i])
          /\ LengthOf(results[i].track) \in p .. LengthOf(tracks[i])
          /\ limits = FileEnds => /\ LengthOf(results[i].track) = LengthOf(tracks[i])
                                  /\ target >= LengthOf(tracks[i])
      BY <3>1, <2>1, <1>3 DEF SeekGives
    <3> QED BY <3>1, <3>2 DEF PutsBack
  <2>4. CASE i > first
    <3>1. tracks'[i] = tracks[i] /\ i # first
      BY <2>4, <1>2, <1>7
    <3> QED BY <3>1, <1>8
  <2> QED BY <2>2, <2>3, <2>4, <1>2, <1>7
<1>10. TracksFit(tracks', p)
  BY <1>1, <1>7, <1>9 DEF TracksFit
<1>11. PackageFits(tracks', mContentPackage')
  <2>1. PackageFits(tracks', mContentPackage)
    BY <1>1, <1>7, <1>9, <1>10, PackageStays DEF IInv
  <2> QED BY <2>1
<1>12. CallGoes(limits)
  BY <1>7, <1>9, <1>10, <1>11 DEF CallGoes, Meets
<1>13. IInv' /\ ClipPromise!Shortened(limits # FileEnds)
  BY <1>12, CallKeeps
<1>14. EditUnit' = EditUnit
  BY <1>1, <1>7, <1>9, UnitStays
<1>15. target >= Length \/ limits # FileEnds
  <2> SUFFICES ASSUME limits = FileEnds PROVE target >= Length
    OBVIOUS
  <2>1. target >= LengthOf(tracks[first])
    BY <1>7, <1>9
  <2>2. Length \in Nat /\ Length <= LengthOf(tracks[first]) /\ LengthOf(tracks[first]) \in Nat
        /\ target \in Nat
    BY <1>1, <1>7, ShortestIs, LengthIsShortest, FitTracks, ClipAssumption
  <2> QED BY <2>1, <2>2
<1>16. ClipPromise!SeekFails(target, limits # FileEnds)
  BY <1>13, <1>14, <1>15 DEF ClipPromise!SeekFails, ClipPromise!Called, Called
<1>17. (limits # FileEnds) \in BOOLEAN
  OBVIOUS
<1>18. ClipPromise!Next
  BY <1>16, <1>17 DEF ClipPromise!Next
<1>19. FailedReadIsEOF'
  BY DEF FailedReadIsEOF, Called
<1> QED BY <1>13, <1>18, <1>19 DEF StepGives

LEMMA SeekStep ==
  ASSUME IInv, NEW limits \in Limits, NEW target \in 0 .. MaxTarget, Seek(target, limits)
  PROVE  StepGives
<1> DEFINE results == [i \in DOMAIN tracks |-> TrackSeek(tracks[i], target, limits[i])]
           ok == \A i \in DOMAIN tracks : results[i].ok
<1>1. SeeksGive(limits, target, results)
  <2>1. \A i \in DOMAIN tracks : Limit(tracks[i].essence, limits[i]) /\ TrackOK(tracks[i])
    BY LimitsAre, FitTracks DEF IInv
  <2>2. \A i \in DOMAIN tracks : results[i] = TrackSeek(tracks[i], target, limits[i])
    OBVIOUS
  <2>3. target \in Nat
    BY ClipAssumption
  <2> HIDE DEF results
  <2> QED BY <2>1, <2>2, <2>3, TrackSeekGives DEF SeeksGive
<1>2. /\ tracks' = TracksAfter(results, limits)
      /\ mContentPackage' = mContentPackage
      /\ mPosition' = IF ok THEN target ELSE mPosition
      /\ call' = Called("seek", target, ok, limits # FileEnds)
      /\ Meets(limits)
      /\ mDuration' = mDuration
  BY DEF Seek
<1> HIDE DEF results
<1>3. CASE ok
  <2>1. ok = TRUE
    BY <1>3
  <2> QED BY <2>1, <1>1, <1>2, SeekSucceeds
<1>4. CASE ~ok
  <2>1. ok = FALSE
    BY <1>4
  <2> QED BY <2>1, <1>1, <1>2, <1>4, SeekFailing
<1> QED BY <1>3, <1>4


-----------------------------------------------------------------------------
(* Theorems *)

LEMMA NextKeeps ==
  ASSUME IInv, Next
  PROVE  StepGives
<1>1. CASE GetDuration
  BY <1>1, GetDurationStep
<1>2. ASSUME NEW limits \in Limits, DetermineDuration(limits) PROVE StepGives
  BY <1>2, DetermineStep
<1>3. ASSUME NEW limits \in Limits, Read(limits) PROVE StepGives
  BY <1>3, ReadStep
<1>4. ASSUME NEW limits \in Limits, NEW target \in 0 .. MaxTarget, Seek(target, limits)
      PROVE  StepGives
  BY <1>4, SeekStep
<1> QED BY <1>1, <1>2, <1>3, <1>4 DEF Next

\* A state that nothing changed.
LEMMA StutterKeeps ==
  ASSUME IInv, FailedReadIsEOF, UNCHANGED vars
  PROVE  IInv' /\ FailedReadIsEOF' /\ UNCHANGED ClipPromise!vars
<1>1. IInv'
  BY DEF IInv, vars, DurationIsReadable, AllFrames
<1>2. FailedReadIsEOF'
  BY DEF FailedReadIsEOF, ClipIsEOF, vars
<1>3. Length' = Length /\ EditUnit' = EditUnit
  BY DEF Length, EditUnit, vars
<1> QED BY <1>1, <1>2, <1>3 DEF vars, ClipPromise!vars

\* The clip reader's inductive invariant: between two calls every track is in step,
\* at its frame and able to go back to all that it knows, the package has frames that
\* the tracks know, and the duration was that of the tracks.  A read that failed
\* without a read error was at the end.
THEOREM Invariance == Spec => [](IInv /\ FailedReadIsEOF)
<1>1. Init => IInv /\ FailedReadIsEOF
  BY InitKeeps
<1>2. IInv /\ FailedReadIsEOF /\ [Next]_vars => (IInv /\ FailedReadIsEOF)'
  <2> SUFFICES ASSUME IInv, FailedReadIsEOF, [Next]_vars PROVE IInv' /\ FailedReadIsEOF'
    OBVIOUS
  <2>1. CASE Next
    BY <2>1, NextKeeps DEF StepGives
  <2>2. CASE UNCHANGED vars
    BY <2>2, StutterKeeps
  <2> QED BY <2>1, <2>2
<1> QED BY <1>1, <1>2, PTL DEF Spec

\* The variables have their types.
THEOREM TypeCorrect == Spec => []TypeOK
<1>1. IInv => TypeOK
  <2> SUFFICES ASSUME IInv PROVE TypeOK
    OBVIOUS
  <2>1. \A i \in DOMAIN tracks :
          LET t == tracks[i]
          IN /\ t.filePos \in Nat /\ t.essenceOffset \in Nat
             /\ t.position \in Nat /\ t.duration \in Nat \cup {-1}
             /\ t.offsets \in Seq(Nat) /\ t.offsets # <<>> /\ t.complete \in BOOLEAN
             /\ t.bufferFrom \in Nat /\ t.buffered \in 0 .. Chunk
    BY FitTracks, TrackFields DEF IInv, Kept
  <2>2. mPosition \in Nat
    BY FitTracks DEF IInv
  <2> QED BY <2>1, <2>2 DEF TypeOK, IInv, PackageFits
<1> QED BY <1>1, Invariance, PTL

\* Reads and seeks leave every track where the clip is, whichever of them fails.
THEOREM StaysInStep == Spec => []TracksInStep
<1>1. IInv => TracksInStep
  BY FitTracks DEF IInv, TracksInStep
<1> QED BY <1>1, Invariance, PTL

\* A track that can be read has its file at the frame that is read next.
THEOREM FilesStayAtPosition == Spec => []FilesAtPosition
<1>1. IInv => FilesAtPosition
  BY FitTracks DEF IInv, FilesAtPosition, TrackOK, Placed, AtFrame
<1> QED BY <1>1, Invariance, PTL

\* The index that reads, seeks and DetermineDuration build has the true offsets.
THEOREM IndexStaysTrue == Spec => []IndexIsTrue
<1>1. IInv => IndexIsTrue
  BY FitTracks, IndexFacts DEF IInv, IndexIsTrue
<1> QED BY <1>1, Invariance, PTL

\* The clip never says that it has more frames than every file has.
THEOREM ReadableDuration == Spec => []DurationIsReadable
<1>1. IInv => DurationIsReadable
  BY DEF IInv
<1> QED BY <1>1, Invariance, PTL

\* IsEOF tells the end of the clip from a failure.
THEOREM FailureIsEOF == Spec => []FailedReadIsEOF
BY Invariance, PTL

\* The clip reader implements Clip: every call is one of those that a clip promises,
\* with the length of the shortest track and the edit unit that the package holds.
THEOREM Implementation == Spec => ImplementsClip
<1>1. Init => ClipPromise!Init
  BY InitKeeps
<1>2. IInv /\ FailedReadIsEOF /\ [Next]_vars => [ClipPromise!Next]_(ClipPromise!vars)
  <2> SUFFICES ASSUME IInv, FailedReadIsEOF, [Next]_vars
               PROVE  ClipPromise!Next \/ UNCHANGED ClipPromise!vars
    OBVIOUS
  <2>1. CASE Next
    BY <2>1, NextKeeps DEF StepGives
  <2>2. CASE UNCHANGED vars
    BY <2>2, StutterKeeps
  <2> QED BY <2>1, <2>2
<1>3. Spec => ClipPromise!Spec
  BY <1>1, <1>2, Invariance, PTL DEF Spec, ClipPromise!Spec
<1> QED BY <1>3 DEF ImplementsClip

LEMMA OpenedLength ==
  ASSUME WholeIndexes, NEW e \in Essences, WellFormed(e)
  PROVE  LengthOf(Open(e)) = FramesIn[e]
<1>1. Open(e).essence = e /\ FramesIn[e] \in Nat
  BY OpenGives, FramesAre
<1>2. Open(e).duration = FramesIn[e] \/ Open(e).duration = -1
  <2>1. CASE e.kind = "sized"
    <3>1. Open(e) = OpenSized(e)
      BY <2>1 DEF Open
    <3>2. OpenSized(e).duration = SizedDuration(e)
      BY DEF OpenSized, NewParser
    <3> QED BY <3>1, <3>2, <2>1, SizedDurations
  <2>2. CASE e.kind = "variable" /\ e.index # <<>>
    <3>1. Open(e) = OpenVariable(e)
      BY <2>2 DEF Open
    <3> QED BY <3>1, <2>2 DEF WholeIndexes
  <2>3. CASE e.kind = "variable" /\ e.index = <<>>
    <3>1. Open(e) = NewParser(e)
      BY <2>3 DEF Open, OpenVariable
    <3> QED BY <3>1 DEF NewParser
  <2>4. e.kind = "sized" \/ e.kind = "variable"
    BY DEF WellFormed
  <2> QED BY <2>1, <2>2, <2>3, <2>4
<1> QED BY <1>1, <1>2 DEF LengthOf

LEMMA DetermineFinds ==
  ASSUME WholeIndexes, IInv, NEW limits \in Limits, DetermineDuration(limits)
  PROVE  DeterminedDuration'
<1> SUFFICES ASSUME ~faulted'
             PROVE  mDuration' = Min({LET e == tracks'[i].essence
                                      IN IF e.durationInMetadata > 0
                                         THEN Min({e.durationInMetadata, FramesIn[e]}) ELSE FramesIn[e]
                                        : i \in DOMAIN tracks'})
  BY DEF DeterminedDuration
<1> DEFINE Found(e) == IF e.durationInMetadata > 0
                       THEN Min({e.durationInMetadata, FramesIn[e]}) ELSE FramesIn[e]
<1>1. limits = FileEnds /\ ~faulted
  BY DEF DetermineDuration, Meets
<1>2. ASSUME NEW i \in DOMAIN tracks
      PROVE  TrackDuration(tracks'[i]) = Found(tracks'[i].essence)
  <2> DEFINE t == tracks[i]
             u == tracks'[i]
             e == t.essence
  <2>1. TrackOK(t) /\ Limit(e, limits[i]) /\ limits[i] = End(e) /\ e \in Essences /\ WellFormed(e)
    BY <1>1, LimitsAre, FitTracks DEF IInv
  <2>2. u = TrackDetermine(t, limits[i])
    BY DEF DetermineDuration
  <2> HIDE DEF t, u
  <2>3. DetermineGives(t, limits[i], u)
    BY <2>1, <2>2, TrackDetermineGives
  <2>4. u.essence = e /\ u.duration >= 0 /\ LengthOf(u) = LengthOf(t)
    BY <2>1, <2>3 DEF DetermineGives
  <2>5. LengthOf(t) = LengthOf(Open(e))
    BY <1>1 DEF IInv, AllFrames, t
  <2>6. u.duration = FramesIn[e] /\ FramesIn[e] \in Nat
    BY <2>1, <2>4, <2>5, OpenedLength, FramesAre DEF LengthOf
  <2>7. TrackDuration(u) = Found(e)
    <3> DEFINE d == e.durationInMetadata
               f == FramesIn[e]
    <3>1. d \in Int
      BY <2>1 DEF WellFormed
    <3>2. TrackDuration(u) = IF d > 0 /\ f > d THEN d ELSE f
      BY <2>4, <2>6 DEF TrackDuration
    <3>3. f \in Nat
      BY <2>6
    <3>4. Found(e) = IF d > 0 THEN Min({d, f}) ELSE f
      OBVIOUS
    <3> HIDE DEF d, f, Found
    <3>5. d \in Int /\ f \in Int
      BY <3>1, <3>3
    <3>6. Min({d, f}) \in {d, f} /\ Min({d, f}) <= d /\ Min({d, f}) <= f
      BY <3>5, MinOfTwo
    <3> QED BY <3>2, <3>4, <3>5, <3>6
  <2> QED BY <2>4, <2>7 DEF u
<1>3. DOMAIN tracks' = DOMAIN tracks /\ mDuration' = MinDuration(tracks')
  BY DEF DetermineDuration
<1>4. {TrackDuration(tracks'[i]) : i \in DOMAIN tracks'} = {Found(tracks'[i].essence) : i \in DOMAIN tracks'}
  <2> HIDE DEF Found
  <2> QED BY <1>2, <1>3
<1>5. mDuration' = Min({TrackDuration(tracks'[i]) : i \in DOMAIN tracks'})
  BY <1>3 DEF MinDuration
<1> QED BY <1>4, <1>5

\* After DetermineDuration the duration is the number of frames of the shortest track,
\* or what its metadata says, when the index tables in the files have all frames.
THEOREM AllFramesAreFound ==
  ASSUME WholeIndexes
  PROVE  Spec => []DeterminedDuration
<1>1. Init => DeterminedDuration
  BY DEF Init, Called, DeterminedDuration
<1>2. IInv /\ DeterminedDuration /\ [Next]_vars => DeterminedDuration'
  <2> SUFFICES ASSUME IInv, DeterminedDuration, [Next]_vars PROVE DeterminedDuration'
    OBVIOUS
  <2>1. CASE GetDuration
    BY <2>1 DEF GetDuration, Called, DeterminedDuration
  <2>2. ASSUME NEW limits \in Limits, DetermineDuration(limits) PROVE DeterminedDuration'
    BY <2>2, DetermineFinds
  <2>3. ASSUME NEW limits \in Limits, Read(limits) PROVE DeterminedDuration'
    <3>1. call'.op = "read"
      BY <2>3 DEF Read, Called
    <3> QED BY <3>1 DEF DeterminedDuration
  <2>4. ASSUME NEW limits \in Limits, NEW target \in 0 .. MaxTarget, Seek(target, limits)
        PROVE  DeterminedDuration'
    <3>1. call'.op = "seek"
      BY <2>4 DEF Seek, Called
    <3> QED BY <3>1 DEF DeterminedDuration
  <2>5. CASE UNCHANGED vars
    BY <2>5 DEF vars, DeterminedDuration
  <2> QED BY <2>1, <2>2, <2>3, <2>4, <2>5 DEF Next
<1> QED BY <1>1, <1>2, Invariance, PTL DEF Spec
=============================================================================
