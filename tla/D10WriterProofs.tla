-------------------------- MODULE D10WriterProofs --------------------------
(***************************************************************************)
(* What holds of the writer of D-10 files, for every configuration, number *)
(* of packages and number of samples in them.                              *)
(*                                                                         *)
(* The blocks of audio in the file and in memory are laid out one after    *)
(* the other: block k has the samples from where the sequence's first      *)
(* k - 1 blocks end.                                                       *)
(***************************************************************************)
EXTENDS D10Writer, InductionFacts, SequenceTheorems

-----------------------------------------------------------------------------
(* The inductive invariant *)

\* The samples of the first j blocks of the sequence.
Total(j) ==
  IF configuration.rate = "D10_SAMPLE_RATE_625_50I" THEN 1920 * j
  ELSE 8008 * (j \div 5) + 1601 * (j % 5) + ((j % 5) + 1) \div 2

\* The samples of block j of the sequence.
SamplesAt(j) == mAudioSequence(j % mAudioSequenceCount)

\* The runs are those from sample `from` up to sample `to`.
IsRun(runs, from, to) ==
  /\ runs \in Seq(Nat \X Nat)
  /\ IF runs = <<>> THEN from = to
     ELSE /\ runs[1][1] = from
          /\ runs[Len(runs)][2] = to
          /\ \A i \in 2 .. Len(runs) : runs[i][1] = runs[i - 1][2]

\* A block j, in a file that begins with block f, has the samples of its place.
BlockAt(block, j, f) ==
  /\ block \in Block
  /\ block.sequence \in {None, j % mAudioSequenceCount}
  /\ block.sequence = None => block.samples = 0
  /\ block.zeros <= block.samples
  /\ block.samples <= SamplesAt(j)
  /\ IsRun(block.runs, Total(j) - Total(f), (Total(j) - Total(f)) + (block.samples - block.zeros))

\* The blocks from j on; all but the last are full.
LaidOut(blocks, j, f) ==
  /\ blocks \in Seq(Block) /\ blocks # <<>>
  /\ \A k \in 1 .. Len(blocks) : BlockAt(blocks[k], (j + k) - 1, f)
  /\ \A k \in 1 .. Len(blocks) - 1 :
       blocks[k].samples = SamplesAt((j + k) - 1) /\ blocks[k].zeros = 0

\* Where the samples in the blocks end.
EndOf(blocks, j, f) ==
  LET last == blocks[Len(blocks)]
  IN (Total((j + Len(blocks)) - 1) - Total(f)) + (last.samples - last.zeros)

\* The sum of the first k numbers.
SumTo(numbers, k) ==
  LET Sum[i \in 0 .. Len(numbers)] == IF i = 0 THEN 0 ELSE Sum[i - 1] + numbers[i]
  IN Sum[k]

\* The package being put together is the next, with the samples after those given.
NextIsAssembled ==
  /\ mContentPackage.video \in {None, NextPackage}
  /\ mContentPackage.tracks # {} => mContentPackage.first = SamplesGiven
  /\ mContentPackage.tracks = {} => mContentPackage.samples = 0

\* Nothing is in memory or in the file before it is created.
NotCreated ==
  mMXFFile = "none" =>
    /\ given = <<>> /\ units = <<>> /\ mBufferedContentPackages = <<>>
    /\ mAES3Blocks = <<NewBlock>>
    /\ mAudioSequenceIndex = 0 /\ mAudioSequenceOffset = configuration.offset
    /\ mContentPackage = NoPackage

\* While the offset is unknown the packages are buffered, and no more than decide it.
WhileUnknown ==
  OffsetIsUnknown =>
    /\ units = <<>> /\ mAES3Blocks = <<NewBlock>> /\ mAudioSequenceIndex = 0
    /\ Len(mBufferedContentPackages) <= mAudioSequenceCount
    /\ \A k \in 1 .. Len(mBufferedContentPackages) :
         /\ mBufferedContentPackages[k].samples = given[k]
         /\ mBufferedContentPackages[k].first = SumTo(given, k - 1)
    /\ mMXFFile = "completed" => given = <<>>

\* A file without audio has null samples, appended for the first edit unit only.
WithoutAudio ==
  ~HasAudio =>
    /\ mBufferedContentPackages = <<>>
    /\ mAES3Blocks = <<[NewBlock EXCEPT !.left = IF mDuration = 0 THEN 0 ELSE mMaxAudioSamples]>>

\* The index is that of the next block.
IndexIsNext ==
  mMXFFile # "none" /\ ~OffsetIsUnknown =>
    mAudioSequenceIndex = (FirstIndex + Len(units)) % mAudioSequenceCount

\* The block of edit unit k is full.
UnitIsFull(k) ==
  LET block == units[k].block
      j == (FirstIndex + k) - 1
  IN /\ block.sequence = j % mAudioSequenceCount
     /\ block.samples = SamplesAt(j)
     /\ \A f \in DOMAIN units[k].fills : units[k].fills[f] >= KLSize
     /\ IF HasAudio
        THEN /\ BlockAt(block, j, FirstIndex)
             /\ block.zeros <= Rate.maxFinalPadding
             /\ block.zeros > 0 => k = Len(units) /\ mMXFFile = "completed"
        ELSE block.runs = <<>> /\ block.zeros = block.samples

UnitsAreFull == \A k \in 1 .. Len(units) : UnitIsFull(k)

\* The null samples of the file's last block.
Padding == IF units = <<>> THEN 0 ELSE units[Len(units)].block.zeros

\* The blocks in memory follow those in the file, and have the rest of the samples.
MemoryFollows ==
  HasAudio /\ ~OffsetIsUnknown =>
    LET next == FirstIndex + Len(units)
        last == mAES3Blocks[Len(mAES3Blocks)]
    IN /\ LaidOut(mAES3Blocks, next, FirstIndex)
       /\ SamplesGiven = EndOf(mAES3Blocks, next, FirstIndex) - Padding
       /\ Padding > 0 => Len(mAES3Blocks) = 1 /\ last.runs = <<>> /\ last.samples = 0
       /\ last.zeros > 0 => mMXFFile = "completed"

\* Packages are buffered only for want of samples, which could not be padded.
BufferedForWant ==
  HasAudio /\ ~OffsetIsUnknown /\ mBufferedContentPackages # <<>> =>
    /\ Len(mAES3Blocks) = 1
    /\ Room(mAudioSequenceIndex, mAES3Blocks) >
         IF mMXFFile = "completed" THEN Rate.maxFinalPadding ELSE 0

\* Up to n packages have as many samples as the blocks from block f on.
Match(n, f) == \A k \in 1 .. Len(given) : k <= n => given[k] = SamplesAt((k - 1) + f)

\* The offset found is the first that the packages match, if they match any.
OffsetIsFound ==
  HasAudio /\ mAudioSequenceCount > 1 /\ configuration.offset = UNKNOWN_SEQUENCE_OFFSET /\ ~OffsetIsUnknown =>
    LET n == mAudioSequenceCount + 1
    IN /\ mAudioSequenceOffset \in 0 .. mAudioSequenceCount - 1
       /\ Len(given) >= n \/ mMXFFile = "completed"
       /\ (\E o \in 0 .. mAudioSequenceCount - 1 : Match(n, o)) => Match(n, mAudioSequenceOffset)

\* An offset that is set is kept.
OffsetIsKept ==
  ~(HasAudio /\ mAudioSequenceCount > 1 /\ configuration.offset = UNKNOWN_SEQUENCE_OFFSET)
    => mAudioSequenceOffset = configuration.offset

IInv ==
  /\ TypeOK /\ EditUnitsInOrder /\ NextIsAssembled /\ NotCreated /\ WhileUnknown /\ WithoutAudio
  /\ IndexIsNext /\ UnitsAreFull /\ MemoryFollows /\ BufferedForWant
  /\ OffsetIsFound /\ OffsetIsKept

-----------------------------------------------------------------------------
(* The configuration *)

IsConfigured == configuration \in Configurations

Is50I ==
  /\ configuration.rate = "D10_SAMPLE_RATE_625_50I"
  /\ Rate = [sequence |-> <<1920>>, maxFinalPadding |-> 0, timecodeBase |-> 25]
Is60I ==
  /\ configuration.rate = "D10_SAMPLE_RATE_525_60I"
  /\ Rate = [sequence |-> <<1602, 1601, 1602, 1601, 1602>>, maxFinalPadding |-> 4,
             timecodeBase |-> 30]

LEMMA RateIs == ASSUME IsConfigured PROVE Is50I \/ Is60I
<1>1. configuration.rate \in {"D10_SAMPLE_RATE_625_50I", "D10_SAMPLE_RATE_525_60I"}
  BY ConfigurationAssumption DEF IsConfigured
<1>2. CASE configuration.rate = "D10_SAMPLE_RATE_625_50I"
  BY <1>2 DEF Is50I, Rate, SampleRate
<1>3. CASE configuration.rate = "D10_SAMPLE_RATE_525_60I"
  BY <1>3 DEF Is60I, Rate, SampleRate
<1> QED BY <1>1, <1>2, <1>3

\* The sequence has one block of 1920 samples.
LEMMA Sequence50I ==
  ASSUME Is50I
  PROVE  /\ mAudioSequenceCount = 1
         /\ \A j \in Nat : j % mAudioSequenceCount = 0 /\ SamplesAt(j) = 1920
         /\ mMaxAudioSamples = 1920
         /\ Min(ToSet(Rate.sequence)) = 1920
         /\ Rate.maxFinalPadding = 0
<1>1. Rate.sequence = <<1920>> /\ Rate.maxFinalPadding = 0
  BY DEF Is50I
<1>2. mAudioSequenceCount = 1
  BY <1>1 DEF mAudioSequenceCount
<1>3. \A j \in Nat : j % 1 = 0
  OBVIOUS
<1>4. \A j \in Nat : SamplesAt(j) = 1920
  BY <1>1, <1>2, <1>3 DEF SamplesAt, mAudioSequence
<1>5. ToSet(Rate.sequence) = {1920}
  BY <1>1 DEF ToSet
<1>6. Max({1920}) = 1920 /\ Min({1920}) = 1920
  BY DEF Max, Min
<1> QED BY <1>1, <1>2, <1>3, <1>4, <1>5, <1>6 DEF mMaxAudioSamples

\* The sequence has five blocks, of 1602 and 1601 samples in turn.
LEMMA Sequence60I ==
  ASSUME Is60I
  PROVE  /\ mAudioSequenceCount = 5
         /\ \A j \in Nat : /\ j % 5 \in 0 .. 4
                           /\ SamplesAt(j) = IF j % 5 \in {1, 3} THEN 1601 ELSE 1602
         /\ mMaxAudioSamples = 1602
         /\ Min(ToSet(Rate.sequence)) = 1601
         /\ Rate.maxFinalPadding = 4
<1>1. Rate.sequence = <<1602, 1601, 1602, 1601, 1602>> /\ Rate.maxFinalPadding = 4
  BY DEF Is60I
<1>2. mAudioSequenceCount = 5
  BY <1>1 DEF mAudioSequenceCount
<1>3. \A j \in Nat : j % 5 \in 0 .. 4
  OBVIOUS
<1>4. \A i \in 0 .. 4 : mAudioSequence(i) = IF i \in {1, 3} THEN 1601 ELSE 1602
  BY <1>1 DEF mAudioSequence
<1>5. \A j \in Nat : SamplesAt(j) = IF j % 5 \in {1, 3} THEN 1601 ELSE 1602
  BY <1>2, <1>3, <1>4 DEF SamplesAt
<1>6. ToSet(Rate.sequence) = {1601, 1602}
  <2>1. ToSet(Rate.sequence) = {Rate.sequence[i] : i \in 1 .. 5}
    BY <1>1 DEF ToSet
  <2>2. Rate.sequence[1] = 1602 /\ Rate.sequence[2] = 1601 /\ Rate.sequence[3] = 1602
        /\ Rate.sequence[4] = 1601 /\ Rate.sequence[5] = 1602
    BY <1>1
  <2>3. 1 .. 5 = {1, 2, 3, 4, 5}
    OBVIOUS
  <2> QED BY <2>1, <2>2, <2>3
<1>7. Max({1601, 1602}) = 1602 /\ Min({1601, 1602}) = 1601
  <2>1. 1602 \in {1601, 1602} /\ \A y \in {1601, 1602} : 1602 >= y
    OBVIOUS
  <2>2. 1601 \in {1601, 1602} /\ \A y \in {1601, 1602} : 1601 <= y
    OBVIOUS
  <2> QED BY <2>1, <2>2 DEF Max, Min
<1> QED BY <1>1, <1>2, <1>3, <1>5, <1>6, <1>7 DEF mMaxAudioSamples

\* What the blocks have at either rate.
LEMMA BlocksHaveSamples ==
  ASSUME IsConfigured
  PROVE  /\ mAudioSequenceCount \in {1, 5}
         /\ \A j \in Nat : /\ j % mAudioSequenceCount \in 0 .. mAudioSequenceCount - 1
                           /\ SamplesAt(j) \in Nat
                           /\ 1601 <= SamplesAt(j) /\ SamplesAt(j) <= mMaxAudioSamples
                           /\ Min(ToSet(Rate.sequence)) <= SamplesAt(j)
         /\ mMaxAudioSamples \in {1602, 1920}
         /\ Min(ToSet(Rate.sequence)) \in {1601, 1920}
         /\ Rate.maxFinalPadding \in {0, 4}
<1>1. CASE Is50I
  <2>1. 0 \in 0 .. 1 - 1
    OBVIOUS
  <2> QED BY <1>1, Sequence50I, <2>1
<1>2. CASE Is60I
  <2>1. \A x : x \in 0 .. 4 <=> x \in 0 .. 5 - 1
    OBVIOUS
  <2> QED BY <1>2, Sequence60I, <2>1
<1> QED BY <1>1, <1>2, RateIs

LEMMA IndexInSequence ==
  ASSUME IsConfigured, NEW p \in Nat
  PROVE  /\ p % mAudioSequenceCount \in 0 .. mAudioSequenceCount - 1
         /\ p % mAudioSequenceCount \in 0 .. 4
         /\ p % mAudioSequenceCount # None
<1> DEFINE s == p % mAudioSequenceCount
<1>1. mAudioSequenceCount \in {1, 5} /\ s \in 0 .. mAudioSequenceCount - 1
  BY BlocksHaveSamples
<1> HIDE DEF s
<1>2. s \in 0 .. 4
  BY <1>1
<1>3. s # -1
  BY <1>2
<1> QED BY <1>1, <1>2, <1>3 DEF s, None

\* Blocks add up.
LEMMA TotalAdds ==
  ASSUME IsConfigured
  PROVE  \A j \in Nat : Total(j) \in Nat /\ Total(j + 1) = Total(j) + SamplesAt(j)
<1> SUFFICES ASSUME NEW j \in Nat PROVE Total(j) \in Nat /\ Total(j + 1) = Total(j) + SamplesAt(j)
  OBVIOUS
<1>1. CASE Is50I
  <2>1. Total(j) = 1920 * j /\ Total(j + 1) = 1920 * (j + 1)
    BY <1>1 DEF Total, Is50I
  <2> QED BY <1>1, <2>1, Sequence50I
<1>2. CASE Is60I
  <2> DEFINE q == j \div 5
             r == j % 5
             q1 == (j + 1) \div 5
             r1 == (j + 1) % 5
  <2>1. Total(j) = 8008 * q + 1601 * r + (r + 1) \div 2
        /\ Total(j + 1) = 8008 * q1 + 1601 * r1 + (r1 + 1) \div 2
    BY <1>2 DEF Total, Is60I
  <2>2. q \in Nat /\ r \in 0 .. 4
    OBVIOUS
  <2>3. IF r = 4 THEN q1 = q + 1 /\ r1 = 0 ELSE q1 = q /\ r1 = r + 1
    OBVIOUS
  <2>4. SamplesAt(j) = IF r \in {1, 3} THEN 1601 ELSE 1602
    BY <1>2, Sequence60I
  <2> HIDE DEF q, r, q1, r1
  <2>5. (r + 1) \div 2 = (IF r = 0 THEN 0 ELSE IF r \in {1, 2} THEN 1 ELSE 2)
        /\ (0 + 1) \div 2 = 0
    BY <2>2
  <2>6. Total(j) = 8008 * q + 1601 * r + (IF r = 0 THEN 0 ELSE IF r \in {1, 2} THEN 1 ELSE 2)
    BY <2>1, <2>5
  <2>7. CASE r = 4
    <3>1. Total(j + 1) = 8008 * (q + 1)
      BY <2>1, <2>3, <2>5, <2>7, <2>2
    <3> QED BY <2>2, <2>4, <2>6, <2>7, <3>1
  <2>8. CASE r # 4
    <3>1. r1 = r + 1 /\ q1 = q
      BY <2>3, <2>8
    <3>2. (r1 + 1) \div 2 = IF r \in {0, 1} THEN 1 ELSE 2
      BY <3>1, <2>2, <2>8
    <3>3. Total(j + 1) = 8008 * q + 1601 * (r + 1) + (IF r \in {0, 1} THEN 1 ELSE 2)
      BY <2>1, <3>1, <3>2
    <3> QED BY <2>2, <2>4, <2>6, <2>8, <3>3
  <2> QED BY <2>7, <2>8
<1> QED BY <1>1, <1>2, RateIs

LEMMA TotalGrows ==
  ASSUME IsConfigured, NEW i \in Nat, NEW j \in Nat, i <= j
  PROVE  Total(i) \in Nat /\ Total(j) \in Nat /\ Total(i) <= Total(j)
<1> DEFINE S == {n \in Nat : Total(i) <= Total(i + n)}
<1>1. 0 \in S
  BY TotalAdds
<1>2. ASSUME NEW n \in Nat, n \in S PROVE n + 1 \in S
  <2>1. Total(i) \in Nat /\ Total(i + n) \in Nat /\ Total(i) <= Total(i + n)
    BY <1>2, TotalAdds
  <2>2. i + n \in Nat /\ (i + n) + 1 = i + (n + 1)
    OBVIOUS
  <2>3. Total(i + (n + 1)) = Total(i + n) + SamplesAt(i + n) /\ SamplesAt(i + n) \in Nat
    <3> DEFINE m == i + n
    <3>1. m \in Nat /\ m + 1 = i + (n + 1)
      BY <2>2
    <3> HIDE DEF m
    <3>2. Total(m + 1) = Total(m) + SamplesAt(m)
      BY <3>1, TotalAdds, Zenon
    <3>3. SamplesAt(m) \in Nat
      BY <3>1, BlocksHaveSamples
    <3> QED BY <3>1, <3>2, <3>3 DEF m
  <2>4. Total(i) <= Total(i + (n + 1))
    BY <2>1, <2>3
  <2> QED BY <2>4
<1> HIDE DEF S
<1>3. j - i \in S
  BY <1>1, <1>2, InductionOnNat
<1> QED BY <1>3, TotalAdds DEF S


-----------------------------------------------------------------------------
(* Sums *)

AreSums(f, numbers) ==
  f = [i \in 0 .. Len(numbers) |-> IF i = 0 THEN 0 ELSE f[i - 1] + numbers[i]]

LEMMA SumsAre ==
  ASSUME NEW s \in Seq(Nat)
  PROVE  /\ SumTo(s, 0) = 0
         /\ \A k \in 1 .. Len(s) : SumTo(s, k) = SumTo(s, k - 1) + s[k]
         /\ \A k \in 0 .. Len(s) : SumTo(s, k) \in Nat
<1> DEFINE N == Len(s)
           sums == CHOOSE f : AreSums(f, s)
           add == [p \in (1 .. N) \X Nat |-> p[2] + s[p[1]]]
<1>1. N \in Nat /\ \A k \in 1 .. N : s[k] \in Nat
  OBVIOUS
<1>2. \A k : SumTo(s, k) = sums[k]
  BY DEF SumTo, AreSums
<1>3. add \in [(1 .. N) \X Nat -> Nat] /\ \A n \in 1 .. N, v \in Nat : add[<<n, v>>] = v + s[n]
  BY SMTT(60), <1>1
<1> HIDE DEF N, add
<1>4. PICK f \in [0 .. N -> Nat] : IsStepwiseTo(f, N, 0, add)
  BY <1>1, <1>3, StepwiseRecursionTo
<1>5. AreSums(f, s)
  <2>1. ASSUME NEW i \in 0 .. N, i # 0 PROVE f[i] = f[i - 1] + s[i]
    <3>1. i \in 1 .. N /\ i - 1 \in 0 .. N
      BY <1>1, <2>1
    <3>2. f[i - 1] \in Nat
      BY <3>1
    <3>3. f[i] = add[<<i, f[i - 1]>>]
      BY <3>1, <1>4 DEF IsStepwiseTo
    <3> QED BY <3>1, <3>2, <3>3, <1>3
  <2>2. f[0] = 0
    BY <1>4 DEF IsStepwiseTo
  <2>3. f = [i \in 0 .. N |-> IF i = 0 THEN 0 ELSE f[i - 1] + s[i]]
    BY <2>1, <2>2, <1>4
  <2> QED BY <2>3 DEF AreSums, N
<1>6. AreSums(sums, s)
  BY <1>5
<1> HIDE DEF sums
<1>7. sums[0] = 0 /\ \A k \in 1 .. N : sums[k] = sums[k - 1] + s[k]
  <2>1. \A k \in 0 .. N : sums[k] = IF k = 0 THEN 0 ELSE sums[k - 1] + s[k]
    BY <1>6, Zenon DEF AreSums, N
  <2>2. 0 \in 0 .. N /\ \A k \in 1 .. N : k \in 0 .. N /\ k # 0
    BY <1>1
  <2> QED BY <2>1, <2>2
<1>8. \A k \in 0 .. N : sums[k] \in Nat
  <2> DEFINE S == {k \in Nat : k <= N => sums[k] \in Nat}
  <2>1. 0 \in S
    BY <1>7
  <2>2. ASSUME NEW k \in Nat, k \in S PROVE k + 1 \in S
    <3> SUFFICES ASSUME k + 1 <= N PROVE sums[k + 1] \in Nat
      OBVIOUS
    <3>1. k + 1 \in 1 .. N /\ (k + 1) - 1 = k /\ k <= N
      BY <1>1
    <3>2. sums[k + 1] = sums[k] + s[k + 1]
      BY <3>1, <1>7
    <3> QED BY SMTT(60), <3>1, <3>2, <2>2, <1>1
  <2> HIDE DEF S
  <2>3. \A k \in Nat : k \in S
    BY <2>1, <2>2, InductionOnNat
  <2> QED BY <2>3, <1>1 DEF S
<1> QED BY <1>2, <1>7, <1>8 DEF N

LEMMA SumsOfAppended ==
  ASSUME NEW s \in Seq(Nat), NEW n \in Nat
  PROVE  /\ Append(s, n) \in Seq(Nat) /\ Len(Append(s, n)) = Len(s) + 1
         /\ \A k \in 0 .. Len(s) : SumTo(Append(s, n), k) = SumTo(s, k)
         /\ SumTo(Append(s, n), Len(s) + 1) = SumTo(s, Len(s)) + n
<1> DEFINE t == Append(s, n)
           N == Len(s)
           S == {k \in Nat : k <= N => SumTo(t, k) = SumTo(s, k)}
<1>1. t \in Seq(Nat) /\ Len(t) = N + 1 /\ N \in Nat /\ t[N + 1] = n /\ \A k \in 1 .. N : t[k] = s[k]
  OBVIOUS
<1> HIDE DEF t
<1>2. 0 \in S
  BY <1>1, SumsAre
<1>3. ASSUME NEW k \in Nat, k \in S PROVE k + 1 \in S
  <2> SUFFICES ASSUME k + 1 <= N PROVE SumTo(t, k + 1) = SumTo(s, k + 1)
    OBVIOUS
  <2>1. k + 1 \in 1 .. N /\ k + 1 \in 1 .. Len(t) /\ (k + 1) - 1 = k /\ k <= N
    BY <1>1
  <2>2. SumTo(t, k + 1) = SumTo(t, k) + t[k + 1]
    BY <1>1, <2>1, SumsAre
  <2>3. SumTo(s, k + 1) = SumTo(s, k) + s[k + 1]
    BY <1>1, <2>1, SumsAre
  <2> QED BY <1>1, <1>3, <2>1, <2>2, <2>3
<1> HIDE DEF S
<1>4. \A k \in Nat : k \in S
  BY <1>2, <1>3, InductionOnNat
<1>5. \A k \in 0 .. N : SumTo(t, k) = SumTo(s, k)
  BY <1>4, <1>1 DEF S
<1>6. SumTo(t, N + 1) = SumTo(t, N) + n
  <2>1. N + 1 \in 1 .. Len(t) /\ (N + 1) - 1 = N
    BY <1>1
  <2> QED BY <2>1, <1>1, SumsAre
<1> QED BY <1>1, <1>5, <1>6 DEF t

LEMMA SamplesGivenIs == SamplesGiven = SumTo(given, Len(given)) /\ SamplesGiven' = SumTo(given', Len(given'))
BY DEF SamplesGiven, SumTo


-----------------------------------------------------------------------------
(* The blocks in memory *)

LEMMA BlockFields ==
  ASSUME NEW b \in Block
  PROVE  /\ b = [sequence |-> b.sequence, samples |-> b.samples, runs |-> b.runs,
                 zeros |-> b.zeros, left |-> b.left]
         /\ b.sequence \in {None} \cup 0 .. 4 /\ b.samples \in Nat /\ b.runs \in Seq(Nat \X Nat)
         /\ b.zeros \in Nat /\ b.left \in Nat
BY DEF Block

LEMMA IndexIs ==
  ASSUME IsConfigured, NEW j \in Nat, NEW n \in Nat, n > 0
  PROVE  ((j % mAudioSequenceCount) + n - 1) % mAudioSequenceCount
           = ((j + n) - 1) % mAudioSequenceCount
<1>1. CASE Is50I
  <2>1. mAudioSequenceCount = 1
    BY <1>1, Sequence50I
  <2> QED BY <2>1
<1>2. CASE Is60I
  <2>1. mAudioSequenceCount = 5
    BY <1>2, Sequence60I
  <2>2. ((j % 5) + n - 1) % 5 = ((j + n) - 1) % 5
    OBVIOUS
  <2> QED BY <2>1, <2>2
<1> QED BY <1>1, <1>2, RateIs

LEMMA LastIndexIs ==
  ASSUME IsConfigured, NEW j \in Nat, NEW blocks \in Seq(Block), blocks # <<>>
  PROVE  /\ LastSequenceIndex(j % mAudioSequenceCount, blocks)
              = ((j + Len(blocks)) - 1) % mAudioSequenceCount
         /\ Last(blocks) = blocks[Len(blocks)]
         /\ Room(j % mAudioSequenceCount, blocks)
              = SamplesAt((j + Len(blocks)) - 1) - blocks[Len(blocks)].samples
<1>1. Len(blocks) \in Nat /\ Len(blocks) > 0
  OBVIOUS
<1>2. LastSequenceIndex(j % mAudioSequenceCount, blocks)
        = ((j + Len(blocks)) - 1) % mAudioSequenceCount
  BY <1>1, IndexIs DEF LastSequenceIndex
<1>3. Last(blocks) = blocks[Len(blocks)]
  BY DEF Last
<1> QED BY <1>2, <1>3 DEF Room, SamplesAt

\* The last of the blocks may be another that fits.
LEMMA LastReplaced ==
  ASSUME IsConfigured, NEW j \in Nat, NEW f \in Nat, NEW blocks, LaidOut(blocks, j, f),
         NEW new \in Seq(Block), Len(new) = Len(blocks),
         \A k \in 1 .. Len(blocks) - 1 : new[k] = blocks[k],
         BlockAt(new[Len(blocks)], (j + Len(blocks)) - 1, f)
  PROVE  LaidOut(new, j, f)
<1>1. blocks \in Seq(Block) /\ Len(blocks) \in Nat /\ Len(blocks) > 0
  BY DEF LaidOut
<1>2. \A k \in 1 .. Len(blocks) : BlockAt(new[k], (j + k) - 1, f)
  <2> SUFFICES ASSUME NEW k \in 1 .. Len(blocks), k # Len(blocks)
               PROVE  BlockAt(new[k], (j + k) - 1, f)
    OBVIOUS
  <2>1. new[k] = blocks[k]
    BY <1>1
  <2> QED BY <2>1 DEF LaidOut
<1>3. new # <<>>
  BY <1>1
<1>4. \A k \in 1 .. Len(blocks) - 1 :
        new[k].samples = SamplesAt((j + k) - 1) /\ new[k].zeros = 0
  BY DEF LaidOut
<1> QED BY <1>2, <1>3, <1>4 DEF LaidOut

LEMMA TotalFrom ==
  ASSUME IsConfigured, NEW j \in Nat, NEW f \in Nat, f <= j, NEW n \in Nat, n > 0
  PROVE  /\ (j + n) - 1 \in Nat
         /\ Total((j + n) - 1) - Total(f) \in Nat
         /\ SamplesAt((j + n) - 1) \in Nat /\ SamplesAt((j + n) - 1) > 0
         /\ Total(j + n) = Total((j + n) - 1) + SamplesAt((j + n) - 1)
<1> DEFINE p == (j + n) - 1
<1>1. p \in Nat /\ f <= p /\ p + 1 = j + n
  OBVIOUS
<1> HIDE DEF p
<1>2. Total(p) \in Nat /\ Total(f) \in Nat /\ Total(f) <= Total(p)
  BY <1>1, TotalGrows
<1>3. SamplesAt(p) \in Nat /\ 1601 <= SamplesAt(p)
  BY <1>1, BlocksHaveSamples
<1>4. Total(p + 1) = Total(p) + SamplesAt(p)
  BY <1>1, TotalAdds, Zenon
<1> QED BY <1>1, <1>2, <1>3, <1>4 DEF p

LEMMA InitialBlock ==
  ASSUME HasAudio, NEW b, NEW s
  PROVE  InitAES3Block(b, s)
           = [sequence |-> s, samples |-> 0, runs |-> <<>>, zeros |-> 0, left |-> b.left]
<1> DEFINE left == IF ~HasAudio /\ mDuration = 0 THEN mMaxAudioSamples ELSE b.left
<1>1. left = b.left
  OBVIOUS
<1>2. InitAES3Block(b, s) = [NewBlock EXCEPT !.sequence = s, !.left = left]
  BY DEF InitAES3Block
<1> HIDE DEF left
<1> QED BY <1>1, <1>2 DEF NewBlock

\* An empty block is initialised, and remains empty.
LEMMA InitialisedGives ==
  ASSUME IsConfigured, HasAudio, NEW j \in Nat, NEW f \in Nat, f <= j,
         NEW blocks, LaidOut(blocks, j, f), blocks[Len(blocks)].zeros = 0,
         NEW new, new = Initialised(j % mAudioSequenceCount, blocks)
  PROVE  /\ LaidOut(new, j, f) /\ Len(new) = Len(blocks)
         /\ new[Len(new)].sequence = ((j + Len(new)) - 1) % mAudioSequenceCount
         /\ new[Len(new)].samples = blocks[Len(blocks)].samples
         /\ new[Len(new)].zeros = 0
<1> DEFINE n == Len(blocks)
           b == blocks[n]
           p == (j + n) - 1
           s == p % mAudioSequenceCount
<1>1. blocks \in Seq(Block) /\ blocks # <<>> /\ n \in Nat /\ n > 0 /\ b \in Block /\ p \in Nat
  BY DEF LaidOut
<1>2. BlockAt(b, p, f)
  BY <1>1 DEF LaidOut
<1>3. LastSequenceIndex(j % mAudioSequenceCount, blocks) = s /\ Last(blocks) = b
  BY <1>1, LastIndexIs
<1> HIDE DEF p
<1>4. s \in 0 .. 4
  BY <1>1, IndexInSequence DEF s
<1> HIDE DEF s, b
<1>5. CASE b.sequence # None
  <2>1. new = blocks
    BY <1>3, <1>5 DEF Initialised
  <2> QED BY <2>1, <1>2, <1>5 DEF BlockAt, b, p, s
<1>6. CASE b.sequence = None
  <2> DEFINE c == InitAES3Block(b, s)
  <2>1. new = [blocks EXCEPT ![n] = c]
    BY <1>3, <1>6 DEF Initialised, n, b
  <2>2. c = [sequence |-> s, samples |-> 0, runs |-> <<>>, zeros |-> 0, left |-> b.left]
    BY InitialBlock
  <2>3. b.samples = 0
    BY <1>2, <1>6 DEF BlockAt
  <2>5. b.left \in Nat
    BY <1>1, BlockFields
  <2>6. c \in Block
    BY <2>2, <1>4, <2>5 DEF Block
  <2>7. Total(p) - Total(f) \in Nat /\ SamplesAt(p) \in Nat
    BY <1>1, TotalFrom DEF p
  <2> HIDE DEF c, n
  <2>8. BlockAt(c, p, f)
    <3>1. c.sequence = s /\ c.samples = 0 /\ c.runs = <<>> /\ c.zeros = 0
      BY <2>2
    <3>2. IsRun(<<>>, Total(p) - Total(f), (Total(p) - Total(f)) + (0 - 0))
      BY <2>7 DEF IsRun
    <3> QED BY <3>1, <3>2, <2>6, <2>7 DEF BlockAt, s
  <2>9. new \in Seq(Block) /\ Len(new) = n /\ new[n] = c /\ \A k \in 1 .. n - 1 : new[k] = blocks[k]
    BY <1>1, <2>1, <2>6 DEF n
  <2>10. LaidOut(new, j, f)
    BY <2>8, <2>9, LastReplaced DEF n, p
  <2>11. c.sequence = s /\ c.samples = 0 /\ c.zeros = 0
    BY <2>2
  <2> HIDE DEF c
  <2> QED BY <2>3, <2>9, <2>10, <2>11 DEF n, b, p, s
<1> QED BY <1>5, <1>6


LEMMA RunGrows ==
  ASSUME NEW runs, NEW from \in Nat, NEW to \in Nat, NEW end \in Nat, IsRun(runs, from, to)
  PROVE  IsRun(Append(runs, <<to, end>>), from, end)
<1> DEFINE new == Append(runs, <<to, end>>)
           n == Len(runs)
<1>1. runs \in Seq(Nat \X Nat) /\ n \in Nat
  BY DEF IsRun
<1>2. new \in Seq(Nat \X Nat) /\ Len(new) = n + 1 /\ new # <<>> /\ new[n + 1] = <<to, end>>
      /\ \A i \in 1 .. n : new[i] = runs[i]
  <2>1. <<to, end>> \in Nat \X Nat
    OBVIOUS
  <2> DEFINE S == Nat \X Nat
             last == <<to, end>>
  <2>2. last \in S /\ runs \in Seq(S)
    BY <1>1, <2>1
  <2> HIDE DEF S, last
  <2>3. Append(runs, last) \in Seq(S) /\ Len(Append(runs, last)) = n + 1 /\ Append(runs, last) # <<>>
        /\ Append(runs, last)[n + 1] = last /\ \A i \in 1 .. n : Append(runs, last)[i] = runs[i]
    BY <2>2, AppendProperties
  <2> QED BY <2>3 DEF S, last
<1> HIDE DEF new, n
<1>3. new[n + 1][1] = to /\ new[Len(new)][2] = end
  BY <1>2
<1>4. CASE runs = <<>>
  <2>1. n = 0 /\ from = to
    BY <1>4 DEF IsRun, n
  <2>2. new[1][1] = from
    BY <1>3, <2>1
  <2> QED BY <1>2, <1>3, <2>1, <2>2 DEF IsRun, new
<1>5. CASE runs # <<>>
  <2>1. n > 0
    BY <1>1, <1>5 DEF n
  <2>2. runs[1][1] = from /\ runs[n][2] = to /\ \A i \in 2 .. n : runs[i][1] = runs[i - 1][2]
    BY <1>5 DEF IsRun, n
  <2>3. new[1][1] = from
    <3>1. 1 \in 1 .. n
      BY <1>1, <2>1
    <3> QED BY <3>1, <1>2, <2>2
  <2>4. ASSUME NEW i \in 2 .. n + 1 PROVE new[i][1] = new[i - 1][2]
    <3>1. CASE i = n + 1
      <4>1. new[i - 1] = runs[n]
        <5>1. i - 1 = n /\ n \in 1 .. n
          BY <1>1, <2>1, <3>1
        <5> QED BY <5>1, <1>2
      <4> QED BY <1>3, <2>2, <3>1, <4>1
    <3>2. CASE i # n + 1
      <4>1. i \in 2 .. n /\ i \in 1 .. n /\ i - 1 \in 1 .. n
        BY <1>1, <3>2
      <4> QED BY <4>1, <1>2, <2>2
    <3> QED BY <3>1, <3>2
  <2> QED BY <1>2, <1>3, <2>3, <2>4 DEF IsRun, new
<1> QED BY <1>4, <1>5

IsBlockWith(c, b, runs, samples) == c = [b EXCEPT !.runs = runs, !.samples = samples]

LEMMA BlockWith ==
  ASSUME NEW b \in Block, NEW runs \in Seq(Nat \X Nat), NEW samples \in Nat, NEW c,
         IsBlockWith(c, b, runs, samples)
  PROVE  /\ c \in Block
         /\ c.sequence = b.sequence /\ c.samples = samples /\ c.runs = runs
         /\ c.zeros = b.zeros /\ c.left = b.left
<1>1. c = [sequence |-> b.sequence, samples |-> samples, runs |-> runs, zeros |-> b.zeros,
           left |-> b.left]
  <2> DEFINE q == b.sequence
             z == b.zeros
             l == b.left
             o == b.runs
             m == b.samples
  <2>1. b = [sequence |-> q, samples |-> m, runs |-> o, zeros |-> z, left |-> l]
    BY BlockFields
  <2> HIDE DEF q, z, l, o, m
  <2>2. c = [sequence |-> q, samples |-> samples, runs |-> runs, zeros |-> z, left |-> l]
    BY <2>1 DEF IsBlockWith
  <2> QED BY <2>2 DEF q, z, l
<1> QED BY <1>1, BlockFields DEF Block

MayCopy(blocks, j, f, copied) ==
  /\ LaidOut(blocks, j, f)
  /\ LET last == blocks[Len(blocks)]
         p == (j + Len(blocks)) - 1
     IN /\ last.zeros = 0 /\ last.sequence = p % mAudioSequenceCount
        /\ last.samples + copied <= SamplesAt(p)

IsCopied(new, blocks, j, f, copied) ==
  new = Copied(blocks, EndOf(blocks, j, f), EndOf(blocks, j, f) + copied)

\* Samples are copied to the last block, which has room for them.
LEMMA CopiedGives ==
  ASSUME IsConfigured, NEW j \in Nat, NEW f \in Nat, f <= j, NEW blocks, NEW copied \in Nat,
         MayCopy(blocks, j, f, copied), NEW new, IsCopied(new, blocks, j, f, copied)
  PROVE  /\ LaidOut(new, j, f) /\ Len(new) = Len(blocks) /\ new[Len(new)].zeros = 0
         /\ new[Len(new)].samples = blocks[Len(blocks)].samples + copied
<1> SUFFICES ASSUME LaidOut(blocks, j, f), blocks[Len(blocks)].zeros = 0,
                    blocks[Len(blocks)].sequence
                      = ((j + Len(blocks)) - 1) % mAudioSequenceCount,
                    blocks[Len(blocks)].samples + copied <= SamplesAt((j + Len(blocks)) - 1),
                    NEW from, from = EndOf(blocks, j, f), new = Copied(blocks, from, from + copied)
             PROVE  /\ LaidOut(new, j, f) /\ Len(new) = Len(blocks) /\ new[Len(new)].zeros = 0
                    /\ new[Len(new)].samples = blocks[Len(blocks)].samples + copied
  BY DEF MayCopy, IsCopied
<1> DEFINE n == Len(blocks)
           b == blocks[n]
           p == (j + n) - 1
           base == Total(p) - Total(f)
<1>1. blocks \in Seq(Block) /\ blocks # <<>> /\ n \in Nat /\ n > 0 /\ b \in Block /\ p \in Nat
  BY DEF LaidOut
<1>2. BlockAt(b, p, f)
  BY <1>1 DEF LaidOut
<1>3. base \in Nat /\ SamplesAt(p) \in Nat
  BY <1>1, TotalFrom
<1>4. b.samples \in Nat /\ b.zeros = 0 /\ from = base + b.samples
  <2>1. b.samples \in Nat
    BY <1>1, BlockFields
  <2>2. from = base + (b.samples - b.zeros)
    BY DEF EndOf
  <2> QED BY <1>3, <2>1, <2>2
<1>5. b.samples + copied <= SamplesAt(p) /\ b.sequence = p % mAudioSequenceCount
  OBVIOUS
<1>6. IsRun(b.runs, base, from)
  <2>1. IsRun(b.runs, base, base + (b.samples - b.zeros))
    BY <1>2 DEF BlockAt
  <2>2. b.samples - b.zeros = b.samples
    BY <1>4
  <2> QED BY <1>4, <2>1, <2>2
<1> HIDE DEF base, p, b
<1>7. CASE copied = 0
  <2>1. new = blocks
    <3>1. from + copied = from
      BY <1>3, <1>4, <1>7
    <3> QED BY <3>1 DEF Copied
  <2> QED BY <2>1, <1>4, <1>7 DEF b
<1>8. CASE copied # 0
  <2> DEFINE end == from + copied
             runs == Append(b.runs, <<from, end>>)
             c == [b EXCEPT !.runs = runs, !.samples = b.samples + copied]
  <2>1. from \in Nat /\ end \in Nat /\ from # end /\ end - from = copied
    <3>1. from \in Nat
      BY SMTT(60), <1>3, <1>4
    <3> QED BY <3>1, <1>8
  <2>2. IsRun(runs, base, end) /\ runs \in Seq(Nat \X Nat)
    <3>1. IsRun(runs, base, end)
      BY <2>1, <1>3, <1>6, RunGrows
    <3> QED BY <3>1 DEF IsRun
  <2> HIDE DEF runs, end
  <2>3. b.samples + copied \in Nat
    BY <1>4
  <2> HIDE DEF c
  <2>4. c \in Block /\ c.sequence = b.sequence /\ c.samples = b.samples + copied
        /\ c.runs = runs /\ c.zeros = b.zeros
    <3> DEFINE m == b.samples + copied
    <3>1. IsBlockWith(c, b, runs, m) /\ m \in Nat
      BY <2>3 DEF c, IsBlockWith
    <3> HIDE DEF m
    <3>2. c \in Block /\ c.sequence = b.sequence /\ c.samples = m /\ c.runs = runs /\ c.zeros = b.zeros
      BY <3>1, <1>1, <2>2, BlockWith
    <3> QED BY <3>2 DEF m
  <2>5. new = [[blocks EXCEPT ![n].runs = runs] EXCEPT ![n].samples = @ + (end - from)]
    BY <2>1 DEF Copied, runs, end, b
  <2>6. new = [blocks EXCEPT ![n] = c]
    <3>1. n \in DOMAIN blocks
      BY <1>1
    <3>2. new = [blocks EXCEPT ![n] = [[b EXCEPT !.runs = runs] EXCEPT !.samples = @ + (end - from)]]
      BY <2>5, <3>1 DEF b
    <3>3. [[b EXCEPT !.runs = runs] EXCEPT !.samples = @ + (end - from)] = c
      BY <1>1, <2>1, BlockFields DEF c
    <3> QED BY <3>2, <3>3
  <2>7. new \in Seq(Block) /\ Len(new) = n /\ new[n] = c /\ \A k \in 1 .. n - 1 : new[k] = blocks[k]
    BY SMTT(60), <1>1, <2>6, <2>4
  <2>8. BlockAt(c, p, f)
    <3>1. c.sequence = p % mAudioSequenceCount /\ c.samples = b.samples + copied
          /\ c.runs = runs /\ c.zeros = 0
      BY <2>4, <1>4, <1>5
    <3>2. end = base + (c.samples - c.zeros)
      <4>1. end = (base + b.samples) + copied
        BY <1>4 DEF end
      <4>2. c.samples - c.zeros = b.samples + copied
        BY <3>1, <2>3
      <4> QED BY SMTT(60), <4>1, <4>2, <1>3, <1>4
    <3>3. IsRun(c.runs, Total(p) - Total(f), (Total(p) - Total(f)) + (c.samples - c.zeros))
      BY <3>1, <3>2, <2>2 DEF base
    <3>4. c.sequence # None
      BY <1>1, <3>1, IndexInSequence
    <3>5. c.zeros <= c.samples /\ c.samples <= SamplesAt(p)
      BY <3>1, <1>4, <1>5
    <3> QED BY <3>1, <3>3, <3>4, <3>5, <2>4 DEF BlockAt
  <2>9. LaidOut(new, j, f)
    BY <2>7, <2>8, LastReplaced DEF p
  <2>10. c.samples = b.samples + copied /\ c.zeros = 0
    BY <2>4, <1>4
  <2> QED BY <2>7, <2>9, <2>10 DEF b
<1> QED BY <1>7, <1>8

LEMMA NewBlockFits ==
  ASSUME IsConfigured, NEW p \in Nat, NEW f \in Nat, f <= p
  PROVE  NewBlock \in Block /\ BlockAt(NewBlock, p, f)
<1>1. NewBlock \in Block /\ NewBlock.samples = 0 /\ NewBlock.zeros = 0 /\ NewBlock.runs = <<>>
      /\ NewBlock.sequence = None
  BY DEF NewBlock, Block
<1>2. SamplesAt(p) \in Nat
  BY BlocksHaveSamples
<1>3. Total(p) \in Nat /\ Total(f) \in Nat
  BY TotalGrows
<1>4. IsRun(<<>>, Total(p) - Total(f), (Total(p) - Total(f)) + (0 - 0))
  BY <1>3 DEF IsRun
<1> QED BY <1>1, <1>2, <1>4 DEF BlockAt

IsFilled(blocks, j, f) ==
  /\ LaidOut(blocks, j, f) /\ blocks[Len(blocks)].zeros = 0
  /\ blocks[Len(blocks)].samples = SamplesAt((j + Len(blocks)) - 1)

IsExtended(new, blocks) == new = Append(blocks, NewBlock)

\* When the last block is full an empty one follows it.
LEMMA AppendedGives ==
  ASSUME IsConfigured, NEW j \in Nat, NEW f \in Nat, f <= j, NEW blocks,
         IsFilled(blocks, j, f), NEW new, IsExtended(new, blocks)
  PROVE  /\ LaidOut(new, j, f) /\ Len(new) = Len(blocks) + 1
         /\ new[Len(new)].zeros = 0 /\ new[Len(new)].samples = 0
         /\ EndOf(new, j, f) = EndOf(blocks, j, f)
<1> SUFFICES ASSUME LaidOut(blocks, j, f), blocks[Len(blocks)].zeros = 0,
                    blocks[Len(blocks)].samples = SamplesAt((j + Len(blocks)) - 1),
                    new = Append(blocks, NewBlock)
             PROVE  /\ LaidOut(new, j, f) /\ Len(new) = Len(blocks) + 1
                    /\ new[Len(new)].zeros = 0 /\ new[Len(new)].samples = 0
                    /\ EndOf(new, j, f) = EndOf(blocks, j, f)
  BY DEF IsFilled, IsExtended
<1> DEFINE n == Len(blocks)
<1>1. blocks \in Seq(Block) /\ n \in Nat /\ n > 0
  BY DEF LaidOut
<1>2. j + n \in Nat /\ f <= j + n /\ (j + (n + 1)) - 1 = j + n
  BY <1>1
<1>3. NewBlock \in Block /\ BlockAt(NewBlock, j + n, f)
  BY <1>2, NewBlockFits
<1>4. new \in Seq(Block) /\ new # <<>> /\ Len(new) = n + 1 /\ new[n + 1] = NewBlock
      /\ \A k \in 1 .. n : new[k] = blocks[k]
  BY <1>1, <1>3
<1>5. \A k \in 1 .. Len(new) : BlockAt(new[k], (j + k) - 1, f)
  <2> SUFFICES ASSUME NEW k \in 1 .. n + 1 PROVE BlockAt(new[k], (j + k) - 1, f)
    BY <1>4
  <2>1. CASE k = n + 1
    BY <2>1, <1>2, <1>3, <1>4
  <2>2. CASE k # n + 1
    <3>1. k \in 1 .. n
      BY <1>1, <2>2
    <3> QED BY <3>1, <1>4 DEF LaidOut
  <2> QED BY <2>1, <2>2
<1>6. \A k \in 1 .. Len(new) - 1 : new[k].samples = SamplesAt((j + k) - 1) /\ new[k].zeros = 0
  <2> SUFFICES ASSUME NEW k \in 1 .. n
               PROVE  new[k].samples = SamplesAt((j + k) - 1) /\ new[k].zeros = 0
    BY <1>1, <1>4
  <2>1. new[k] = blocks[k]
    BY <1>4
  <2>2. CASE k = n
    BY <2>1, <2>2
  <2>3. CASE k # n
    <3>1. k \in 1 .. Len(blocks) - 1
      BY <1>1, <2>3
    <3> QED BY <3>1, <2>1 DEF LaidOut
  <2> QED BY <2>2, <2>3
<1>7. NewBlock.samples = 0 /\ NewBlock.zeros = 0
  BY DEF NewBlock
<1>8. EndOf(new, j, f) = EndOf(blocks, j, f)
  <2>1. Total(j + n) = Total((j + n) - 1) + SamplesAt((j + n) - 1)
        /\ Total((j + n) - 1) - Total(f) \in Nat /\ SamplesAt((j + n) - 1) \in Nat
    BY <1>1, TotalFrom
  <2>2. Total(j + n) \in Nat /\ Total(f) \in Nat /\ Total((j + n) - 1) \in Nat
    <3>1. j + n \in Nat /\ (j + n) - 1 \in Nat
      BY <1>1
    <3> QED BY <3>1, TotalAdds
  <2>3. EndOf(new, j, f) = (Total(j + n) - Total(f)) + (0 - 0)
    BY <1>2, <1>4, <1>7 DEF EndOf
  <2>4. EndOf(blocks, j, f) = (Total((j + n) - 1) - Total(f)) + (SamplesAt((j + n) - 1) - 0)
    BY DEF EndOf
  <2> QED BY <2>1, <2>2, <2>3, <2>4
<1> QED BY <1>4, <1>5, <1>6, <1>7, <1>8 DEF LaidOut


-----------------------------------------------------------------------------
(* The loop of UpdateAES3Blocks *)

TurnOf(index, end, s) ==
  LET copied == Min({Room(index, s.blocks), s.remaining})
      from == end - s.remaining
      kept == Copied(Initialised(index, s.blocks), from, from + copied)
  IN IF s.remaining = 0 THEN s
     ELSE [blocks |-> IF copied < s.remaining THEN Append(kept, NewBlock) ELSE kept,
           remaining |-> s.remaining - copied]

\* The samples before the remaining ones are in the blocks.
InLoop(s, j, f, end) ==
  /\ s \in [blocks : Seq(Block), remaining : Nat]
  /\ LaidOut(s.blocks, j, f)
  /\ s.blocks[Len(s.blocks)].zeros = 0
  /\ EndOf(s.blocks, j, f) + s.remaining = end

LastIsEmpty(s) == s.blocks[Len(s.blocks)].samples = 0

LEMMA LeastOfTwo ==
  ASSUME NEW a \in Nat, NEW b \in Nat
  PROVE  Min({a, b}) \in Nat /\ Min({a, b}) = IF a <= b THEN a ELSE b
<1>1. Min({a, b}) \in {a, b} /\ \A y \in {a, b} : Min({a, b}) <= y
  BY MinIsLeast
<1> QED BY <1>1

LEMMA EndIsNatural ==
  ASSUME IsConfigured, NEW j \in Nat, NEW f \in Nat, f <= j, NEW blocks, LaidOut(blocks, j, f)
  PROVE  EndOf(blocks, j, f) \in Nat
<1> DEFINE n == Len(blocks)
           b == blocks[n]
<1>1. blocks \in Seq(Block) /\ n \in Nat /\ n > 0 /\ b \in Block
  BY DEF LaidOut
<1>2. BlockAt(b, (j + n) - 1, f)
  BY <1>1 DEF LaidOut
<1>3. b.samples \in Nat /\ b.zeros \in Nat /\ b.zeros <= b.samples
  BY <1>1, <1>2, BlockFields DEF BlockAt
<1>4. b.samples - b.zeros \in Nat
  BY <1>3
<1>5. Total((j + n) - 1) - Total(f) \in Nat
  BY <1>1, TotalFrom
<1> QED BY <1>4, <1>5 DEF EndOf

LEMMA SamplesIn ==
  ASSUME IsConfigured, NEW p \in Nat
  PROVE  /\ SamplesAt(p) \in Nat /\ 1601 <= SamplesAt(p)
         /\ SamplesAt(p) <= mMaxAudioSamples /\ Min(ToSet(Rate.sequence)) <= SamplesAt(p)
BY BlocksHaveSamples

LEMMA TurnGives ==
  ASSUME IsConfigured, HasAudio, NEW j \in Nat, NEW f \in Nat, f <= j, NEW end \in Nat,
         NEW s, InLoop(s, j, f, end), s.remaining # 0,
         NEW t, t = TurnOf(j % mAudioSequenceCount, end, s)
  PROVE  /\ InLoop(t, j, f, end) /\ Len(t.blocks) >= Len(s.blocks)
         /\ t.remaining = 0 \/ LastIsEmpty(t)
         /\ LastIsEmpty(s) =>
              t.remaining = 0 \/ t.remaining + Min(ToSet(Rate.sequence)) <= s.remaining
<1> DEFINE c == mAudioSequenceCount
           bs == s.blocks
           n == Len(bs)
           last == bs[n]
           p == (j + n) - 1
           room == Room(j % c, bs)
           rem == s.remaining
           copied == Min({room, rem})
           from == end - rem
           new == Initialised(j % c, bs)
           kept == Copied(new, from, from + copied)
<1>1. /\ bs \in Seq(Block) /\ bs # <<>> /\ n \in Nat /\ n > 0 /\ last \in Block /\ p \in Nat
      /\ rem \in Nat /\ rem # 0 /\ LaidOut(bs, j, f) /\ last.zeros = 0
  BY DEF InLoop, LaidOut
<1>2. EndOf(bs, j, f) \in Nat /\ EndOf(bs, j, f) + rem = end
  BY <1>1, EndIsNatural DEF InLoop
<1>3. from = EndOf(bs, j, f)
  BY <1>1, <1>2
<1>4. BlockAt(last, p, f) /\ SamplesAt(p) \in Nat /\ last.samples \in Nat
      /\ last.samples <= SamplesAt(p) /\ Min(ToSet(Rate.sequence)) <= SamplesAt(p)
  <2>1. BlockAt(last, p, f)
    <3>1. n \in 1 .. n
      BY <1>1
    <3> QED BY <3>1, <1>1 DEF LaidOut
  <2> HIDE DEF p, last
  <2>2. last.samples \in Nat
    BY <1>1, BlockFields
  <2>3. SamplesAt(p) \in Nat /\ Min(ToSet(Rate.sequence)) <= SamplesAt(p)
    <3>1. p \in Nat
      BY <1>1
    <3> QED BY ONLY <3>1, IsConfigured, SamplesIn
  <2> QED BY <2>1, <2>2, <2>3 DEF BlockAt
<1>5. room = SamplesAt(p) - last.samples
  BY <1>1, LastIndexIs
<1>6. t = [blocks |-> IF copied < rem THEN Append(kept, NewBlock) ELSE kept, remaining |-> rem - copied]
  BY DEF TurnOf
<1>16. kept = Copied(new, from, from + copied) /\ new = Initialised(j % c, bs)
  OBVIOUS
<1> HIDE DEF room, copied, from, new, kept, p, last, rem
<1>7. room \in Nat /\ copied \in Nat /\ copied = (IF room <= rem THEN room ELSE rem)
  <2>1. room \in Nat
    BY <1>4, <1>5
  <2> QED BY <2>1, <1>1, LeastOfTwo DEF copied
<1>8. /\ LaidOut(new, j, f) /\ Len(new) = n
      /\ new[n].sequence = p % c /\ new[n].samples = last.samples /\ new[n].zeros = 0
  BY SMTT(60), <1>1, InitialisedGives DEF new, p, last
<1>9. EndOf(new, j, f) = from
  <2>1. EndOf(new, j, f) = (Total(p) - Total(f)) + (last.samples - 0)
    BY <1>8 DEF EndOf, p
  <2>2. EndOf(bs, j, f) = (Total(p) - Total(f)) + (last.samples - 0)
    BY <1>1 DEF EndOf, p, last
  <2> QED BY <2>1, <2>2, <1>3
<1>10. last.samples + copied <= SamplesAt(p)
  BY SMTT(60), <1>4, <1>5, <1>7, <1>1
<1>11. /\ LaidOut(kept, j, f) /\ Len(kept) = n /\ kept[n].zeros = 0
       /\ kept[n].samples = last.samples + copied
  <2>1. new[Len(new)].sequence = ((j + Len(new)) - 1) % mAudioSequenceCount /\ new[Len(new)].zeros = 0
        /\ new[Len(new)].samples + copied <= SamplesAt((j + Len(new)) - 1)
    BY <1>8, <1>10 DEF p
  <2>2. LaidOut(kept, j, f) /\ Len(kept) = Len(new) /\ kept[Len(kept)].zeros = 0
        /\ kept[Len(kept)].samples = new[Len(new)].samples + copied
    <3>1. MayCopy(new, j, f, copied)
      BY <2>1, <1>8 DEF MayCopy
    <3>2. IsCopied(kept, new, j, f, copied) /\ copied \in Nat
      BY <1>7, <1>9, <1>16 DEF IsCopied
    <3> HIDE DEF n, bs
    <3> QED BY <3>1, <3>2, CopiedGives
  <2> QED BY <2>2, <1>8
<1>12. EndOf(kept, j, f) = from + copied
  <2>1. EndOf(kept, j, f) = (Total(p) - Total(f)) + ((last.samples + copied) - 0)
    BY <1>11 DEF EndOf, p
  <2>2. EndOf(bs, j, f) = (Total(p) - Total(f)) + (last.samples - 0)
    BY <1>1 DEF EndOf, p, last
  <2>3. Total(p) - Total(f) \in Nat
    BY <1>1, TotalFrom DEF p
  <2> QED BY <2>1, <2>2, <2>3, <1>3, <1>4, <1>7
<1>13. rem - copied \in Nat /\ (from + copied) + (rem - copied) = end
  BY <1>1, <1>2, <1>3, <1>7
<1>14. CASE copied < rem
  <2>1. copied = room /\ last.samples + copied = SamplesAt(p)
    BY <1>14, <1>1, <1>4, <1>5, <1>7
  <2> DEFINE more == Append(kept, NewBlock)
  <2>2. /\ LaidOut(more, j, f) /\ Len(more) = n + 1 /\ more[Len(more)].zeros = 0
        /\ more[Len(more)].samples = 0 /\ EndOf(more, j, f) = EndOf(kept, j, f)
    <3>1. kept[Len(kept)].zeros = 0 /\ kept[Len(kept)].samples = SamplesAt((j + Len(kept)) - 1)
      BY <1>11, <2>1 DEF p
    <3>2. IsFilled(kept, j, f) /\ IsExtended(more, kept)
      BY <3>1, <1>11 DEF IsFilled, IsExtended
    <3> HIDE DEF more, n
    <3>3. /\ LaidOut(more, j, f) /\ Len(more) = Len(kept) + 1 /\ more[Len(more)].zeros = 0
          /\ more[Len(more)].samples = 0 /\ EndOf(more, j, f) = EndOf(kept, j, f)
      BY <3>2, AppendedGives
    <3> QED BY <3>3, <1>11
  <2>3. t = [blocks |-> more, remaining |-> rem - copied]
    BY <1>6, <1>14
  <2> HIDE DEF more
  <2>4. t.blocks = more /\ t.remaining = rem - copied
    BY <2>3
  <2>5. more \in Seq(Block)
    BY <2>2 DEF LaidOut
  <2>6. InLoop(t, j, f, end)
    <3>1. EndOf(more, j, f) + (rem - copied) = end
      BY <2>2, <1>12, <1>13
    <3>2. t \in [blocks : Seq(Block), remaining : Nat]
      BY <2>3, <2>5, <1>13
    <3> QED BY <3>1, <3>2, <2>2, <2>4 DEF InLoop
  <2>7. LastIsEmpty(t)
    BY <2>2, <2>4 DEF LastIsEmpty
  <2>8. ASSUME LastIsEmpty(s) PROVE t.remaining + Min(ToSet(Rate.sequence)) <= s.remaining
    <3>1. last.samples = 0
      BY <2>8 DEF LastIsEmpty, last
    <3>2. copied = SamplesAt(p)
      BY <3>1, <2>1, <1>4, <1>7
    <3>3. Min(ToSet(Rate.sequence)) \in {1601, 1920}
      BY BlocksHaveSamples
    <3> HIDE DEF c, n
    <3>4. (rem - copied) + Min(ToSet(Rate.sequence)) <= rem
      BY <3>2, <3>3, <1>1, <1>4, <1>7
    <3> QED BY <3>4, <2>4 DEF rem
  <2> QED BY <2>2, <2>4, <2>6, <2>7, <2>8, <1>1
<1>15. CASE ~(copied < rem)
  <2>1. copied = rem /\ rem - copied = 0
    BY <1>15, <1>1, <1>7
  <2>2. t = [blocks |-> kept, remaining |-> 0]
    BY <1>6, <1>15, <2>1
  <2>3. t.blocks = kept /\ t.remaining = 0
    BY <2>2
  <2>4. InLoop(t, j, f, end)
    <3>1. EndOf(kept, j, f) + 0 = end
      BY <1>12, <1>13, <2>1
    <3>2. kept \in Seq(Block)
      BY <1>11 DEF LaidOut
    <3>3. t \in [blocks : Seq(Block), remaining : Nat]
      BY <2>2, <3>2
    <3> QED BY <3>1, <3>3, <1>11, <2>3 DEF InLoop
  <2> QED BY <2>3, <2>4, <1>1, <1>11
<1> QED BY <1>14, <1>15


LEMMA RoomIsNatural ==
  ASSUME IsConfigured, NEW j \in Nat, NEW f \in Nat, NEW blocks, LaidOut(blocks, j, f)
  PROVE  Room(j % mAudioSequenceCount, blocks) \in Nat
<1> DEFINE n == Len(blocks)
           b == blocks[n]
           p == (j + n) - 1
<1>1. blocks \in Seq(Block) /\ blocks # <<>> /\ n \in Nat /\ n > 0 /\ n \in 1 .. n
      /\ b \in Block /\ p \in Nat
  BY DEF LaidOut
<1>2. BlockAt(b, p, f)
  BY <1>1 DEF LaidOut
<1> HIDE DEF p, b
<1>3. b.samples \in Nat /\ SamplesAt(p) \in Nat /\ b.samples <= SamplesAt(p)
  <2> p \in Nat
    BY <1>1
  <2>1. SamplesAt(p) \in Nat
    BY SamplesIn
  <2>2. b.samples \in Nat
    BY <1>1, BlockFields
  <2> QED BY <2>1, <2>2, <1>2 DEF BlockAt
<1>4. Room(j % mAudioSequenceCount, blocks) = SamplesAt(p) - b.samples
  BY <1>1, LastIndexIs DEF p, b
<1> QED BY <1>3, <1>4

AreTurns(g, index, end, start) ==
  g = [i \in Nat |-> IF i = 0 THEN start ELSE TurnOf(index, end, g[i - 1])]

TurnsOf(index, end, start) == CHOOSE g : AreTurns(g, index, end, start)

LEMMA TurnsExist ==
  ASSUME IsConfigured, HasAudio, NEW j \in Nat, NEW f \in Nat, f <= j, NEW end \in Nat,
         NEW start, InLoop(start, j, f, end)
  PROVE  LET g == TurnsOf(j % mAudioSequenceCount, end, start)
         IN /\ g[0] = start
            /\ \A i \in Nat : g[i + 1] = TurnOf(j % mAudioSequenceCount, end, g[i])
<1> DEFINE index == j % mAudioSequenceCount
           States == {s \in [blocks : Seq(Block), remaining : Nat] : InLoop(s, j, f, end)}
           step == [q \in Nat \X States |-> TurnOf(index, end, q[2])]
<1>1. start \in States
  BY DEF InLoop
<1>2. \A s \in States : TurnOf(index, end, s) \in States
  <2> SUFFICES ASSUME NEW s \in States PROVE TurnOf(index, end, s) \in States
    OBVIOUS
  <2>1. CASE s.remaining = 0
    <3>1. TurnOf(index, end, s) = s
      BY <2>1 DEF TurnOf
    <3> QED BY <3>1
  <2>2. CASE s.remaining # 0
    <3> DEFINE t == TurnOf(index, end, s)
    <3>1. t = TurnOf(j % mAudioSequenceCount, end, s) /\ InLoop(s, j, f, end)
      OBVIOUS
    <3> HIDE DEF t
    <3>2. InLoop(t, j, f, end)
      BY <3>1, <2>2, TurnGives
    <3>3. t \in [blocks : Seq(Block), remaining : Nat]
      BY <3>2 DEF InLoop
    <3> QED BY <3>2, <3>3 DEF t
  <2> QED BY <2>1, <2>2
<1> HIDE DEF States, index
<1>3. step \in [Nat \X States -> States] /\ \A i \in Nat, s \in States : step[<<i, s>>] = TurnOf(index, end, s)
  BY <1>2
<1> HIDE DEF step
<1>4. PICK g \in [Nat -> States] : IsStepwise(g, start, step)
  BY <1>1, <1>3, StepwiseRecursion
<1>5. AreTurns(g, index, end, start)
  <2>1. ASSUME NEW i \in Nat, i # 0 PROVE g[i] = TurnOf(index, end, g[i - 1])
    <3>1. i - 1 \in Nat /\ (i - 1) + 1 = i
      BY <2>1
    <3>2. g[i] = step[<<i, g[i - 1]>>] /\ g[i - 1] \in States
      BY <3>1, <1>4 DEF IsStepwise
    <3> QED BY <3>2, <1>3
  <2>2. g[0] = start
    BY <1>4 DEF IsStepwise
  <2> QED BY <2>1, <2>2, <1>4 DEF AreTurns
<1> DEFINE h == TurnsOf(index, end, start)
<1>6. AreTurns(h, index, end, start)
  BY <1>5 DEF TurnsOf
<1> HIDE DEF h
<1>7. \A i \in Nat : h[i] = IF i = 0 THEN start ELSE TurnOf(index, end, h[i - 1])
  BY <1>6, Zenon DEF AreTurns
<1>8. h[0] = start
  BY <1>7
<1>9. ASSUME NEW i \in Nat PROVE h[i + 1] = TurnOf(index, end, h[i])
  <2>1. i + 1 \in Nat /\ i + 1 # 0 /\ (i + 1) - 1 = i
    OBVIOUS
  <2> QED BY <2>1, <1>7
<1> QED BY <1>8, <1>9 DEF h, index

\* After i turns fewer samples remain, a block's less for each turn after the first.
LEMMA TurnsEnd ==
  ASSUME IsConfigured, HasAudio, NEW j \in Nat, NEW f \in Nat, f <= j, NEW end \in Nat,
         NEW start, InLoop(start, j, f, end)
  PROVE  LET s == TurnsOf(j % mAudioSequenceCount, end, start)[Turns(start.remaining)]
         IN InLoop(s, j, f, end) /\ s.remaining = 0 /\ Len(s.blocks) >= Len(start.blocks)
<1> DEFINE index == j % mAudioSequenceCount
           g == TurnsOf(index, end, start)
           m == Min(ToSet(Rate.sequence))
           all == start.remaining
           Less(i) == \/ g[i].remaining = 0
                      \/ i > 0 /\ LastIsEmpty(g[i]) /\ g[i].remaining + (i - 1) * m <= all
                      \/ i = 0
           S == {i \in Nat : InLoop(g[i], j, f, end) /\ Len(g[i].blocks) >= Len(start.blocks)
                             /\ g[i].remaining <= all /\ Less(i)}
<1>1. g[0] = start /\ \A i \in Nat : g[i + 1] = TurnOf(index, end, g[i])
  BY TurnsExist
<1>2. m \in {1601, 1920} /\ all \in Nat /\ Turns(all) = (all \div m) + 2
  BY BlocksHaveSamples DEF InLoop, Turns
<1> HIDE DEF g, m, all
<1>3. 0 \in S
  <2>1. start.blocks \in Seq(Block)
    BY DEF InLoop
  <2>2. Len(start.blocks) >= Len(start.blocks) /\ all <= all
    BY <1>2, <2>1
  <2> QED BY <1>1, <2>2 DEF all
<1>4. ASSUME NEW i \in Nat, i \in S PROVE i + 1 \in S
  <2> DEFINE s == g[i]
             t == g[i + 1]
  <2>1. InLoop(s, j, f, end) /\ Len(s.blocks) >= Len(start.blocks) /\ s.remaining <= all /\ Less(i)
    BY <1>4
  <2>2. t = TurnOf(index, end, s)
    BY <1>1
  <2>3. s.remaining \in Nat /\ Len(s.blocks) \in Nat /\ Len(start.blocks) \in Nat
    <3>1. s.blocks \in Seq(Block) /\ start.blocks \in Seq(Block) /\ s.remaining \in Nat
      BY <2>1 DEF InLoop
    <3> QED BY <3>1
  <2>4. CASE s.remaining = 0
    <3>1. t = s
      BY <2>2, <2>4 DEF TurnOf
    <3> QED BY <3>1, <2>1, <2>4
  <2>5. CASE s.remaining # 0
    <3> HIDE DEF s, t
    <3>1. /\ InLoop(t, j, f, end) /\ Len(t.blocks) >= Len(s.blocks)
          /\ t.remaining = 0 \/ LastIsEmpty(t)
          /\ LastIsEmpty(s) => t.remaining = 0 \/ t.remaining + m <= s.remaining
      BY <2>1, <2>2, <2>5, TurnGives DEF m
    <3>2. t.remaining \in Nat /\ Len(t.blocks) \in Nat /\ t.remaining <= s.remaining
      <4>1. t.blocks \in Seq(Block) /\ t.remaining \in Nat
        BY <3>1 DEF InLoop
      <4>2. t.remaining <= s.remaining
        <5>1. t = [blocks |-> t.blocks, remaining |-> s.remaining - Min({Room(index, s.blocks), s.remaining})]
          BY <2>2, <2>5 DEF TurnOf
        <5>2. EndOf(t.blocks, j, f) + t.remaining = end /\ EndOf(s.blocks, j, f) + s.remaining = end
              /\ EndOf(t.blocks, j, f) \in Nat /\ EndOf(s.blocks, j, f) \in Nat
          BY <3>1, <2>1, EndIsNatural DEF InLoop
        <5>3. Min({Room(index, s.blocks), s.remaining}) \in Nat
          <6>1. s.blocks \in Seq(Block) /\ s.blocks # <<>> /\ LaidOut(s.blocks, j, f)
            BY <2>1 DEF InLoop, LaidOut
          <6>2. Room(index, s.blocks) \in Nat
            BY <6>1, RoomIsNatural
          <6> QED BY <6>2, <2>3, LeastOfTwo
        <5>4. t.remaining = s.remaining - Min({Room(index, s.blocks), s.remaining})
          BY <5>1
        <5> QED BY <5>3, <5>4, <2>3
      <4> QED BY <4>1, <4>2
    <3>3. t.remaining <= all /\ Len(t.blocks) >= Len(start.blocks)
      BY SMTT(60), <2>1, <2>3, <3>1, <3>2, <1>2
    <3>4. CASE t.remaining = 0
      BY <3>1, <3>3, <3>4 DEF t
    <3>5. CASE t.remaining # 0
      <4>1. LastIsEmpty(t) /\ (LastIsEmpty(s) => t.remaining + m <= s.remaining)
        BY <3>1, <3>5
      <4>2. t.remaining + ((i + 1) - 1) * m <= all
        <5>1. CASE i = 0
          <6>1. ((i + 1) - 1) * m = 0
            BY <5>1, <1>2
          <6> QED BY <6>1, <3>2, <3>3
        <5>2. CASE i # 0
          <6>1. LastIsEmpty(s) /\ s.remaining + (i - 1) * m <= all
            BY <5>2, <2>1, <2>5 DEF s
          <6>2. t.remaining + m <= s.remaining
            BY <6>1, <4>1
          <6>3. CASE m = 1601
            BY SMTT(60), <6>1, <6>2, <6>3, <2>3, <3>2, <1>2
          <6>4. CASE m = 1920
            BY SMTT(60), <6>1, <6>2, <6>4, <2>3, <3>2, <1>2
          <6> QED BY <6>3, <6>4, <1>2
        <5> QED BY <5>1, <5>2
      <4>3. i + 1 \in Nat /\ i + 1 > 0
        OBVIOUS
      <4> QED BY <3>1, <3>3, <4>1, <4>2, <4>3 DEF t
    <3> QED BY <3>4, <3>5
  <2> QED BY <2>4, <2>5
<1>5. \A i \in Nat : i \in S
  <2> HIDE DEF S
  <2> QED BY <1>3, <1>4, InductionOnNat
<1> DEFINE n == Turns(all)
<1>6. n \in Nat /\ n > 0 /\ (n - 1) * m > all
  <2>1. CASE m = 1601
    BY <1>2, <2>1
  <2>2. CASE m = 1920
    BY <1>2, <2>2
  <2> QED BY <1>2, <2>1, <2>2
<1> HIDE DEF n
<1>7. InLoop(g[n], j, f, end) /\ Len(g[n].blocks) >= Len(start.blocks) /\ Less(n)
  BY <1>5, <1>6
<1>8. g[n].remaining \in Nat
  BY <1>7 DEF InLoop
<1>9. (n - 1) * m \in Nat
  <2>1. CASE m = 1601
    BY <1>6, <2>1
  <2>2. CASE m = 1920
    BY <1>6, <2>2
  <2> QED BY <1>2, <2>1, <2>2
<1>10. g[n].remaining = 0
  BY <1>2, <1>6, <1>7, <1>8, <1>9
<1> QED BY <1>7, <1>10 DEF g, n, all


\* The blocks may take a package: no null samples are in them, and its samples
\* follow theirs.
MayTake(blocks, j, f, package) ==
  /\ LaidOut(blocks, j, f) /\ blocks[Len(blocks)].zeros = 0
  /\ package.samples \in Nat /\ package.first = EndOf(blocks, j, f)

\* The new blocks have the package's samples too.
HasTaken(new, blocks, j, f, package) ==
  /\ LaidOut(new, j, f) /\ new[Len(new)].zeros = 0
  /\ EndOf(new, j, f) = EndOf(blocks, j, f) + package.samples
  /\ Len(new) >= Len(blocks)

LEMMA UpdateGives ==
  ASSUME IsConfigured, HasAudio, NEW j \in Nat, NEW f \in Nat, f <= j,
         NEW blocks, NEW package, MayTake(blocks, j, f, package)
  PROVE  HasTaken(UpdateAES3Blocks(j % mAudioSequenceCount, blocks, package), blocks, j, f, package)
<1> DEFINE index == j % mAudioSequenceCount
           end == package.first + package.samples
           start == [blocks |-> blocks, remaining |-> package.samples]
           s == TurnsOf(index, end, start)[Turns(package.samples)]
           new == UpdateAES3Blocks(index, blocks, package)
<1>1. LaidOut(blocks, j, f) /\ blocks[Len(blocks)].zeros = 0
      /\ package.samples \in Nat /\ package.first = EndOf(blocks, j, f)
  BY DEF MayTake
<1>2. new = s.blocks
  BY DEF UpdateAES3Blocks, TurnsOf, AreTurns, TurnOf
<1>3. package.first \in Nat /\ end \in Nat
  BY <1>1, EndIsNatural
<1>4. start.blocks = blocks /\ start.remaining = package.samples
  OBVIOUS
<1>5. InLoop(start, j, f, end)
  <2>1. blocks \in Seq(Block)
    BY <1>1 DEF LaidOut
  <2>2. start \in [blocks : Seq(Block), remaining : Nat]
    BY <1>1, <2>1
  <2> HIDE DEF start
  <2> QED BY <2>2, <1>1, <1>4 DEF InLoop
<1>6. InLoop(s, j, f, end) /\ s.remaining = 0 /\ Len(s.blocks) >= Len(blocks)
  <2> HIDE DEF start, end
  <2>1. LET t == TurnsOf(j % mAudioSequenceCount, end, start)[Turns(start.remaining)]
        IN InLoop(t, j, f, end) /\ t.remaining = 0 /\ Len(t.blocks) >= Len(start.blocks)
    BY <1>3, <1>5, TurnsEnd
  <2> QED BY <2>1, <1>4
<1> HIDE DEF s, new, index
<1>7. LaidOut(new, j, f) /\ new[Len(new)].zeros = 0 /\ EndOf(new, j, f) + 0 = end
  BY <1>2, <1>6 DEF InLoop
<1>8. EndOf(new, j, f) \in Nat
  BY <1>7, EndIsNatural
<1>9. EndOf(new, j, f) = EndOf(blocks, j, f) + package.samples
  BY <1>1, <1>7, <1>8
<1> QED BY <1>2, <1>6, <1>7, <1>9 DEF HasTaken, new, index



-----------------------------------------------------------------------------
(* The packages copied to the blocks *)

\* The packages' samples follow each other from sample `from` on.
IsChain(late, from) ==
  \A k \in 1 .. Len(late) :
    /\ late[k].samples \in Nat
    /\ late[k].first = IF k = 1 THEN from ELSE late[k - 1].first + late[k - 1].samples

\* Where the samples of the first k packages end.
ChainEnd(late, from, k) == IF k = 0 THEN from ELSE late[k].first + late[k].samples

\* The blocks have the samples of the first k packages.
HaveTaken(new, blocks, j, f, late, k) ==
  /\ LaidOut(new, j, f) /\ new[Len(new)].zeros = 0
  /\ EndOf(new, j, f) = ChainEnd(late, EndOf(blocks, j, f), k)
  /\ Len(new) >= Len(blocks)

\* Each of the sequences of blocks in g has one more package, if it may take it.
AreTaken(g, blocks, j, f, late) ==
  /\ g[0] = blocks
  /\ \A k \in 1 .. Len(late) :
       MayTake(g[k - 1], j, f, late[k]) =>
         g[k] = UpdateAES3Blocks(j % mAudioSequenceCount, g[k - 1], late[k])

CanTakeAll(blocks, j, f, late) ==
  /\ LaidOut(blocks, j, f) /\ blocks[Len(blocks)].zeros = 0
  /\ Len(late) \in Nat
  /\ IsChain(late, EndOf(blocks, j, f))

LEMMA TakenGives ==
  ASSUME IsConfigured, HasAudio, NEW j \in Nat, NEW f \in Nat, f <= j,
         NEW blocks, NEW late, CanTakeAll(blocks, j, f, late),
         NEW g, AreTaken(g, blocks, j, f, late)
  PROVE  /\ \A k \in 0 .. Len(late) : HaveTaken(g[k], blocks, j, f, late, k)
         /\ \A k \in 1 .. Len(late) : MayTake(g[k - 1], j, f, late[k])
<1> DEFINE S == {k \in Nat : k <= Len(late) => HaveTaken(g[k], blocks, j, f, late, k)}
           T == {k \in Nat : k \in 1 .. Len(late) => MayTake(g[k - 1], j, f, late[k])}
<1>1. LaidOut(blocks, j, f) /\ blocks[Len(blocks)].zeros = 0 /\ Len(late) \in Nat
      /\ IsChain(late, EndOf(blocks, j, f)) /\ g[0] = blocks /\ Len(blocks) \in Nat
  BY DEF CanTakeAll, AreTaken, LaidOut
<1>2. 0 \in S
  <2>1. Len(g[0]) >= Len(blocks)
    BY <1>1
  <2>2. HaveTaken(g[0], blocks, j, f, late, 0)
    BY <1>1, <2>1 DEF HaveTaken, ChainEnd
  <2> QED BY <2>2
<1>3. ASSUME NEW k \in Nat, k \in S PROVE k + 1 \in S /\ k + 1 \in T
  <2> SUFFICES ASSUME k + 1 <= Len(late)
               PROVE  HaveTaken(g[k + 1], blocks, j, f, late, k + 1) /\ MayTake(g[k], j, f, late[k + 1])
    <3>1. (k + 1) - 1 = k /\ (k + 1 \in 1 .. Len(late) => k + 1 <= Len(late))
      BY <1>1
    <3> QED BY <3>1
  <2>1. HaveTaken(g[k], blocks, j, f, late, k)
    BY <1>1, <1>3
  <2> DEFINE m == k + 1
  <2>2. m \in 1 .. Len(late) /\ m - 1 = k /\ m # 0
    BY <1>1
  <2>3. late[m].samples \in Nat /\ late[m].first = ChainEnd(late, EndOf(blocks, j, f), k)
    <3>1. late[m].samples \in Nat
          /\ late[m].first = IF m = 1 THEN EndOf(blocks, j, f) ELSE late[m - 1].first + late[m - 1].samples
      BY <1>1, <2>2, Zenon DEF IsChain
    <3>2. m = 1 <=> k = 0
      OBVIOUS
    <3> HIDE DEF m
    <3> QED BY <3>1, <3>2, <2>2 DEF ChainEnd
  <2> HIDE DEF m
  <2>4. MayTake(g[k], j, f, late[m])
    BY <2>1, <2>3 DEF MayTake, HaveTaken
  <2>5. g[m] = UpdateAES3Blocks(j % mAudioSequenceCount, g[k], late[m])
    BY <2>2, <2>4 DEF AreTaken
  <2>6. HasTaken(g[m], g[k], j, f, late[m])
    BY <2>4, <2>5, UpdateGives
  <2>7. EndOf(g[m], j, f) = ChainEnd(late, EndOf(blocks, j, f), m)
    BY <2>1, <2>2, <2>3, <2>6 DEF HasTaken, HaveTaken, ChainEnd
  <2>8. Len(g[m]) >= Len(blocks)
    <3>1. Len(g[m]) >= Len(g[k]) /\ Len(g[k]) >= Len(blocks) /\ Len(g[k]) \in Nat /\ Len(g[m]) \in Nat
      BY <2>1, <2>6 DEF HasTaken, HaveTaken, LaidOut
    <3> QED BY <3>1, <1>1
  <2>9. HaveTaken(g[m], blocks, j, f, late, m)
    BY <2>6, <2>7, <2>8 DEF HasTaken, HaveTaken
  <2> QED BY <2>4, <2>9 DEF m
<1> HIDE DEF S, T
<1>4. \A k \in Nat : k \in S
  BY <1>2, <1>3, InductionOnNat
<1>5. ASSUME NEW k \in 0 .. Len(late) PROVE HaveTaken(g[k], blocks, j, f, late, k)
  <2>1. k \in Nat /\ k <= Len(late)
    BY <1>1
  <2> QED BY <2>1, <1>4 DEF S
<1>6. ASSUME NEW k \in 1 .. Len(late) PROVE MayTake(g[k - 1], j, f, late[k])
  <2>1. k - 1 \in Nat /\ (k - 1) + 1 = k /\ k \in Nat
    BY <1>1
  <2>2. k \in T
    BY <2>1, <1>3, <1>4
  <2> QED BY <2>2 DEF T
<1> QED BY <1>5, <1>6

AreAfter(g, index, late) ==
  g = [k \in 0 .. Len(late) |->
         IF k = 0 THEN mAES3Blocks ELSE UpdateAES3Blocks(index, g[k - 1], late[k])]

LEMMA AfterExists ==
  ASSUME IsConfigured, HasAudio, NEW j \in Nat, NEW f \in Nat, f <= j,
         NEW late, CanTakeAll(mAES3Blocks, j, f, late)
  PROVE  \E g : AreAfter(g, j % mAudioSequenceCount, late)
<1> DEFINE index == j % mAudioSequenceCount
           N == Len(late)
           Next1(k, b) == IF MayTake(b, j, f, late[k]) THEN UpdateAES3Blocks(index, b, late[k]) ELSE b
           step == [p \in (1 .. N) \X Seq(Block) |-> Next1(p[1], p[2])]
<1>1. N \in Nat /\ mAES3Blocks \in Seq(Block)
  BY DEF CanTakeAll, LaidOut
<1>2. ASSUME NEW k \in 1 .. N, NEW b \in Seq(Block) PROVE Next1(k, b) \in Seq(Block)
  <2>1. CASE MayTake(b, j, f, late[k])
    <3>1. HasTaken(UpdateAES3Blocks(index, b, late[k]), b, j, f, late[k])
      BY <2>1, UpdateGives
    <3>2. UpdateAES3Blocks(index, b, late[k]) \in Seq(Block)
      BY <3>1 DEF HasTaken, LaidOut
    <3> QED BY <2>1, <3>2
  <2>2. CASE ~MayTake(b, j, f, late[k])
    BY <2>2
  <2> QED BY <2>1, <2>2
<1> HIDE DEF Next1
<1>3. step \in [(1 .. N) \X Seq(Block) -> Seq(Block)]
      /\ \A k \in 1 .. N, b \in Seq(Block) : step[<<k, b>>] = Next1(k, b)
  <2>1. ASSUME NEW p \in (1 .. N) \X Seq(Block) PROVE Next1(p[1], p[2]) \in Seq(Block)
    <3>1. p[1] \in 1 .. N /\ p[2] \in Seq(Block)
      OBVIOUS
    <3> QED BY <3>1, <1>2
  <2> QED BY <2>1
<1> HIDE DEF step, N
<1>4. PICK g \in [0 .. N -> Seq(Block)] : IsStepwiseTo(g, N, mAES3Blocks, step)
  BY <1>1, <1>3, StepwiseRecursionTo
<1>5. g[0] = mAES3Blocks /\ \A k \in 1 .. N : g[k] = Next1(k, g[k - 1])
  <2>1. ASSUME NEW k \in 1 .. N PROVE g[k] = Next1(k, g[k - 1])
    <3>1. k - 1 \in 0 .. N
      BY <1>1
    <3>2. g[k - 1] \in Seq(Block)
      BY <3>1
    <3> QED BY <3>2, <1>3, <1>4 DEF IsStepwiseTo
  <2> QED BY <2>1, <1>4 DEF IsStepwiseTo
<1>6. AreTaken(g, mAES3Blocks, j, f, late)
  BY <1>5 DEF AreTaken, Next1, N
<1>7. \A k \in 1 .. N : MayTake(g[k - 1], j, f, late[k])
  BY <1>6, TakenGives DEF N
<1>8. \A k \in 1 .. N : g[k] = UpdateAES3Blocks(index, g[k - 1], late[k])
  BY <1>5, <1>7 DEF Next1
<1>9. g = [k \in 0 .. N |-> IF k = 0 THEN mAES3Blocks ELSE UpdateAES3Blocks(index, g[k - 1], late[k])]
  <2>1. ASSUME NEW k \in 0 .. N, k # 0 PROVE g[k] = UpdateAES3Blocks(index, g[k - 1], late[k])
    <3>1. k \in 1 .. N
      BY <1>1, <2>1
    <3> QED BY <3>1, <1>8
  <2> HIDE DEF index
  <2> QED BY <2>1, <1>5
<1> QED BY <1>9 DEF AreAfter, N

LateOf(package) == (IF OffsetIsUnknown THEN mBufferedContentPackages ELSE <<>>) \o package

\* All packages not copied yet are copied.
LEMMA FullBlocksGive ==
  ASSUME IsConfigured, HasAudio, NEW j \in Nat, NEW f \in Nat, f <= j,
         NEW package, Index(package) = j % mAudioSequenceCount,
         CanTakeAll(mAES3Blocks, j, f, LateOf(package))
  PROVE  HaveTaken(FullBlocks(package), mAES3Blocks, j, f, LateOf(package), Len(LateOf(package)))
<1> DEFINE late == LateOf(package)
           h == CHOOSE g : AreAfter(g, j % mAudioSequenceCount, late)
<1>1. FullBlocks(package) = h[Len(late)]
  BY DEF FullBlocks, LateOf, AreAfter
<1> HIDE DEF late
<1>2. AreAfter(h, j % mAudioSequenceCount, late)
  BY AfterExists DEF late
<1> HIDE DEF h
<1>3. Len(late) \in Nat
  BY DEF CanTakeAll, late
<1>4. AreTaken(h, mAES3Blocks, j, f, late)
  <2> DEFINE index == j % mAudioSequenceCount
  <2> HIDE DEF index
  <2>1. \A k \in 0 .. Len(late) : h[k] = IF k = 0 THEN mAES3Blocks ELSE UpdateAES3Blocks(index, h[k - 1], late[k])
    BY <1>2, Zenon DEF AreAfter, index
  <2>2. h[0] = mAES3Blocks
    BY <2>1, <1>3
  <2>3. ASSUME NEW k \in 1 .. Len(late) PROVE h[k] = UpdateAES3Blocks(index, h[k - 1], late[k])
    <3>1. k \in 0 .. Len(late) /\ k # 0
      OBVIOUS
    <3> QED BY <3>1, <2>1
  <2> QED BY <2>2, <2>3 DEF AreTaken, index
<1>5. HaveTaken(h[Len(late)], mAES3Blocks, j, f, late, Len(late))
  <2>1. Len(late) \in 0 .. Len(late)
    BY <1>3
  <2> QED BY <2>1, <1>4, TakenGives DEF late
<1> QED BY <1>1, <1>5 DEF late



-----------------------------------------------------------------------------
(* The blocks written and those that remain *)

\* The samples that the last block lacks.
RoomAt(blocks, j) == SamplesAt((j + Len(blocks)) - 1) - blocks[Len(blocks)].samples

LEMMA RoomAtIs ==
  ASSUME IsConfigured, NEW j \in Nat, NEW f \in Nat, NEW blocks, LaidOut(blocks, j, f)
  PROVE  /\ Room(j % mAudioSequenceCount, blocks) = RoomAt(blocks, j)
         /\ RoomAt(blocks, j) \in Nat
         /\ Last(blocks) = blocks[Len(blocks)]
<1>1. blocks \in Seq(Block) /\ blocks # <<>>
  BY DEF LaidOut
<1>2. Room(j % mAudioSequenceCount, blocks) = RoomAt(blocks, j) /\ Last(blocks) = blocks[Len(blocks)]
  BY <1>1, LastIndexIs DEF RoomAt
<1> QED BY <1>2, RoomIsNatural

\* The last block may be padded: to its end, if not more than the padding is missing.
MayBePadded(new, blocks, j, f) ==
  /\ LaidOut(new, j, f) /\ Len(new) = Len(blocks) /\ EndOf(new, j, f) = EndOf(blocks, j, f)
  /\ new[Len(new)].zeros <= Rate.maxFinalPadding
  /\ RoomAt(new, j) = 0 \/ (new[Len(new)].zeros = 0 /\ RoomAt(new, j) > Rate.maxFinalPadding)

LEMMA FinalUpdateGives ==
  ASSUME IsConfigured, HasAudio, NEW j \in Nat, NEW f \in Nat, f <= j,
         NEW blocks, LaidOut(blocks, j, f), blocks[Len(blocks)].zeros = 0
  PROVE  MayBePadded(FinalUpdateAES3Blocks(j % mAudioSequenceCount, blocks), blocks, j, f)
<1> DEFINE index == j % mAudioSequenceCount
           n == Len(blocks)
           p == (j + n) - 1
           old == Initialised(index, blocks)
           b == old[n]
           room == RoomAt(blocks, j)
           zeros == IF room <= Rate.maxFinalPadding THEN room ELSE 0
           new == FinalUpdateAES3Blocks(index, blocks)
           c == [b EXCEPT !.zeros = b.zeros + zeros, !.samples = b.samples + zeros]
           base == Total(p) - Total(f)
<1>1. /\ LaidOut(old, j, f) /\ Len(old) = n /\ b.sequence = p % mAudioSequenceCount
      /\ b.samples = blocks[n].samples /\ b.zeros = 0
  BY InitialisedGives
<1>2. Room(index, blocks) = room /\ room \in Nat
  BY RoomAtIs
<1>3. new = Padded(old, zeros)
  BY <1>2 DEF FinalUpdateAES3Blocks
<1>4. old \in Seq(Block) /\ n \in Nat /\ n > 0 /\ n \in 1 .. n /\ b \in Block /\ BlockAt(b, p, f)
  BY <1>1 DEF LaidOut
<1>5. p \in Nat /\ base \in Nat /\ SamplesAt(p) \in Nat
  BY <1>4, TotalFrom
<1>6. room = SamplesAt(p) - b.samples /\ b.samples \in Nat
  <2>1. b.samples \in Nat
    BY <1>4, BlockFields
  <2> QED BY <2>1, <1>1 DEF RoomAt
<1>7. new = [old EXCEPT ![n] = c]
  <2> HIDE DEF zeros, new, old, n
  <2>0. Len(old) = n
    BY <1>1
  <2>1. new = [[old EXCEPT ![n].zeros = @ + zeros] EXCEPT ![n].samples = @ + zeros]
    BY <2>0, <1>3 DEF Padded
  <2>2. n \in DOMAIN old
    BY <1>1, <1>4
  <2>3. new = [old EXCEPT ![n] = [[b EXCEPT !.zeros = b.zeros + zeros] EXCEPT !.samples = @ + zeros]]
    BY <2>1, <2>2
  <2>4. [[b EXCEPT !.zeros = b.zeros + zeros] EXCEPT !.samples = @ + zeros] = c
    BY <1>4, BlockFields
  <2> QED BY <2>3, <2>4
<1> HIDE DEF room, zeros, new, old, p, b, base
<1>8. zeros \in Nat /\ zeros <= Rate.maxFinalPadding /\ Rate.maxFinalPadding \in Nat
      /\ IF room <= Rate.maxFinalPadding THEN zeros = room ELSE zeros = 0
  <2>0. Rate.maxFinalPadding \in {0, 4}
    BY BlocksHaveSamples
  <2>1. Rate.maxFinalPadding \in Nat
    BY <2>0
  <2> QED BY <2>1, <1>2 DEF zeros
<1>9. c = [sequence |-> b.sequence, samples |-> b.samples + zeros, runs |-> b.runs, zeros |-> zeros, left |-> b.left]
  <2>1. b.zeros + zeros = zeros
    BY <1>1, <1>8 DEF b
  <2> DEFINE m == b.samples + zeros
             s == b.sequence
             r == b.runs
             l == b.left
             z == b.zeros
             o == b.samples
  <2>2. b = [sequence |-> s, samples |-> o, runs |-> r, zeros |-> z, left |-> l]
    BY <1>4, BlockFields
  <2>3. c = [b EXCEPT !.zeros = zeros, !.samples = m]
    BY <2>1
  <2> HIDE DEF s, r, l, m, z, o, c
  <2>4. c = [sequence |-> s, samples |-> m, runs |-> r, zeros |-> zeros, left |-> l]
    BY <2>2, <2>3
  <2> QED BY <2>4 DEF s, r, l, m, c
<1> HIDE DEF c
<1>10. c.sequence = b.sequence /\ c.samples = b.samples + zeros /\ c.runs = b.runs /\ c.zeros = zeros
       /\ c \in Block
  <2>1. b.samples + zeros \in Nat
    BY <1>6, <1>8
  <2> DEFINE m == b.samples + zeros
             s == b.sequence
             r == b.runs
             l == b.left
  <2>2. s \in {None} \cup 0 .. 4 /\ r \in Seq(Nat \X Nat) /\ l \in Nat
    BY <1>4, BlockFields
  <2>3. c = [sequence |-> s, samples |-> m, runs |-> r, zeros |-> zeros, left |-> l] /\ m \in Nat
    BY <1>9, <2>1
  <2> HIDE DEF s, r, l, m
  <2>4. c.sequence = s /\ c.samples = m /\ c.runs = r /\ c.zeros = zeros
    BY <2>3
  <2>5. c \in Block
    BY <2>3, <2>2, <1>8 DEF Block
  <2> QED BY <2>4, <2>5 DEF s, r, l, m
<1>11. c.samples <= SamplesAt(p) /\ c.samples \in Nat /\ c.samples - c.zeros = b.samples
  BY SMTT(60), <1>2, <1>5, <1>6, <1>8, <1>10
<1>12. BlockAt(c, p, f)
  <2>1. c.sequence = p % mAudioSequenceCount /\ c.sequence # None
    BY <1>1, <1>5, <1>10, IndexInSequence DEF b, p
  <2>2. IsRun(c.runs, base, base + (c.samples - c.zeros))
    <3>1. b.samples - b.zeros = b.samples
      BY <1>1, <1>6 DEF b
    <3>2. IsRun(b.runs, base, base + (b.samples - b.zeros))
      BY <1>4 DEF BlockAt, base
    <3> QED BY <3>1, <3>2, <1>10, <1>11
  <2>3. c.zeros <= c.samples
    BY <1>6, <1>8, <1>10
  <2> QED BY <2>1, <2>2, <2>3, <1>10, <1>11 DEF BlockAt, base
<1>13. new \in Seq(Block) /\ Len(new) = n /\ new[n] = c /\ \A k \in 1 .. n - 1 : new[k] = old[k]
  BY <1>1, <1>4, <1>7, <1>10
<1>14. LaidOut(new, j, f)
  BY <1>1, <1>12, <1>13, LastReplaced DEF p
<1>15. EndOf(new, j, f) = EndOf(blocks, j, f)
  <2>1. EndOf(new, j, f) = base + (c.samples - c.zeros)
    BY <1>13 DEF EndOf, base, p
  <2>2. EndOf(blocks, j, f) = base + (blocks[n].samples - 0)
    BY DEF EndOf, base, p
  <2> QED BY <2>1, <2>2, <1>1, <1>6, <1>11 DEF b
<1>16. RoomAt(new, j) = SamplesAt(p) - (b.samples + zeros)
  BY <1>13, <1>10 DEF RoomAt, p
<1>17. RoomAt(new, j) = 0 \/ (c.zeros = 0 /\ RoomAt(new, j) > Rate.maxFinalPadding)
  BY <1>2, <1>5, <1>6, <1>8, <1>10, <1>16
<1> QED BY <1>8, <1>10, <1>13, <1>14, <1>15, <1>17 DEF MayBePadded, new

LEMMA NumCompleteIs ==
  ASSUME IsConfigured, NEW j \in Nat, NEW f \in Nat, NEW blocks, LaidOut(blocks, j, f)
  PROVE  NumCompleteBlocks(j % mAudioSequenceCount, blocks)
           = IF RoomAt(blocks, j) = 0 THEN Len(blocks) ELSE Len(blocks) - 1
<1> DEFINE n == Len(blocks)
           b == blocks[n]
           p == (j + n) - 1
<1>1. blocks \in Seq(Block) /\ n \in Nat /\ n > 0 /\ n \in 1 .. n /\ p \in Nat
  BY DEF LaidOut
<1>2. BlockAt(b, p, f)
  BY <1>1 DEF LaidOut
<1>3. Room(j % mAudioSequenceCount, blocks) = RoomAt(blocks, j) /\ RoomAt(blocks, j) \in Nat /\ Last(blocks) = b
  BY RoomAtIs
<1>4. b.sequence = None => RoomAt(blocks, j) > 0
  <2>1. b.sequence = None => b.samples = 0
    BY <1>2 DEF BlockAt
  <2>2. SamplesAt(p) \in Nat /\ 1601 <= SamplesAt(p)
    <3> p \in Nat
      BY <1>1
    <3> HIDE DEF p
    <3> QED BY SamplesIn
  <2>3. RoomAt(blocks, j) = SamplesAt(p) - b.samples
    BY DEF RoomAt
  <2> QED BY <2>1, <2>2, <2>3
<1> HIDE DEF b, p
<1>5. NumCompleteBlocks(j % mAudioSequenceCount, blocks)
        = n - (IF b.sequence = None \/ RoomAt(blocks, j) > 0 THEN 1 ELSE 0)
  BY <1>3 DEF NumCompleteBlocks
<1> QED BY <1>1, <1>3, <1>4, <1>5

\* A full block has its sequence index.
LEMMA FullHasIndex ==
  ASSUME IsConfigured, NEW p \in Nat, NEW f, NEW b, BlockAt(b, p, f), b.samples = SamplesAt(p)
  PROVE  b.sequence = p % mAudioSequenceCount
<1>1. SamplesAt(p) # 0
  BY SamplesIn
<1> QED BY <1>1 DEF BlockAt

\* What is in memory when n blocks are written.
Remaining(blocks, n) ==
  IF n < Len(blocks) THEN SubSeq(blocks, n + 1, Len(blocks)) ELSE <<Emptied(Last(blocks))>>

\* The first n blocks, which are full, may be written.
MayWrite(blocks, j, f, n) ==
  /\ LaidOut(blocks, j, f)
  /\ n \in Nat /\ n <= NumCompleteBlocks(j % mAudioSequenceCount, blocks)

\* The rest are laid out after them, and end where the blocks end.
AreTheRest(rest, blocks, j, f, n) ==
  /\ n <= Len(blocks)
  /\ LaidOut(rest, j + n, f)
  /\ \A k \in 1 .. n :
       /\ BlockAt(blocks[k], (j + k) - 1, f) /\ blocks[k].samples = SamplesAt((j + k) - 1)
       /\ blocks[k].zeros > 0 => k = Len(blocks)
  /\ n < Len(blocks) =>
       /\ EndOf(rest, j + n, f) = EndOf(blocks, j, f)
       /\ Len(rest) = Len(blocks) - n
       /\ rest[Len(rest)] = blocks[Len(blocks)]
       /\ RoomAt(rest, j + n) = RoomAt(blocks, j)
  /\ n = Len(blocks) =>
       /\ EndOf(rest, j + n, f) = EndOf(blocks, j, f) + blocks[n].zeros
       /\ Len(rest) = 1 /\ rest[1].runs = <<>> /\ rest[1].samples = 0 /\ rest[1].zeros = 0
       /\ RoomAt(rest, j + n) = SamplesAt(j + n)

LEMMA RemainingGives ==
  ASSUME IsConfigured, NEW j \in Nat, NEW f \in Nat, f <= j, NEW blocks, NEW n,
         MayWrite(blocks, j, f, n), NEW rest, rest = Remaining(blocks, n)
  PROVE  AreTheRest(rest, blocks, j, f, n)
<1> SUFFICES ASSUME LaidOut(blocks, j, f), n \in Nat,
                    n <= NumCompleteBlocks(j % mAudioSequenceCount, blocks)
             PROVE  /\ n <= Len(blocks)
                    /\ LaidOut(rest, j + n, f)
                    /\ \A k \in 1 .. n :
                         /\ BlockAt(blocks[k], (j + k) - 1, f) /\ blocks[k].samples = SamplesAt((j + k) - 1)
                         /\ blocks[k].zeros > 0 => k = Len(blocks)
                    /\ n < Len(blocks) =>
                         /\ EndOf(rest, j + n, f) = EndOf(blocks, j, f)
                         /\ Len(rest) = Len(blocks) - n
                         /\ rest[Len(rest)] = blocks[Len(blocks)]
                         /\ RoomAt(rest, j + n) = RoomAt(blocks, j)
                    /\ n = Len(blocks) =>
                         /\ EndOf(rest, j + n, f) = EndOf(blocks, j, f) + blocks[n].zeros
                         /\ Len(rest) = 1 /\ rest[1].runs = <<>> /\ rest[1].samples = 0 /\ rest[1].zeros = 0
                         /\ RoomAt(rest, j + n) = SamplesAt(j + n)
  BY DEF MayWrite, AreTheRest
<1> DEFINE m == Len(blocks)
           b == blocks[m]
           p == (j + m) - 1
<1>1. blocks \in Seq(Block) /\ blocks # <<>> /\ m \in Nat /\ m > 0 /\ m \in 1 .. m /\ p \in Nat /\ b \in Block
  BY DEF LaidOut
<1>2. NumCompleteBlocks(j % mAudioSequenceCount, blocks) = IF RoomAt(blocks, j) = 0 THEN m ELSE m - 1
  BY NumCompleteIs
<1>3. n <= m /\ (n = m => RoomAt(blocks, j) = 0)
  BY <1>1, <1>2
<1>4. \A k \in 1 .. m : BlockAt(blocks[k], (j + k) - 1, f)
  BY DEF LaidOut
<1>5. \A k \in 1 .. m - 1 : blocks[k].samples = SamplesAt((j + k) - 1) /\ blocks[k].zeros = 0
  BY DEF LaidOut
<1>6. RoomAt(blocks, j) = SamplesAt(p) - b.samples /\ b.samples \in Nat /\ SamplesAt(p) \in Nat
      /\ b.zeros \in Nat
  <2>1. b.samples \in Nat /\ b.zeros \in Nat
    BY <1>1, BlockFields
  <2>2. SamplesAt(p) \in Nat
    <3> p \in Nat
      BY <1>1
    <3> HIDE DEF p
    <3> QED BY SamplesIn
  <2> QED BY <2>1, <2>2 DEF RoomAt
<1>7. ASSUME NEW k \in 1 .. n
      PROVE  /\ BlockAt(blocks[k], (j + k) - 1, f) /\ blocks[k].samples = SamplesAt((j + k) - 1)
             /\ blocks[k].zeros > 0 => k = m
  <2>1. k \in 1 .. m
    BY <1>1, <1>3
  <2>2. CASE k = m
    <3>1. n = m
      BY <2>2, <1>1, <1>3
    <3>2. b.samples = SamplesAt(p)
      BY <3>1, <1>3, <1>6
    <3> QED BY <2>1, <2>2, <3>2, <1>4
  <2>3. CASE k # m
    <3>1. k \in 1 .. m - 1
      BY <2>1, <2>3, <1>1
    <3> QED BY <2>1, <3>1, <1>4, <1>5
  <2> QED BY <2>2, <2>3
<1>8. j + n \in Nat /\ f <= j + n
  OBVIOUS
<1> HIDE DEF b, p, m
<1>9. CASE n < m
  <2>1. rest = SubSeq(blocks, n + 1, m)
    BY <1>9 DEF Remaining, m
  <2>2. rest \in Seq(Block) /\ Len(rest) = m - n /\ \A k \in 1 .. m - n : rest[k] = blocks[k + n]
    <3>1. n + 1 \in 1 .. m + 1 /\ m \in n .. m
      BY <1>1, <1>9
    <3>2. rest \in Seq(Block) /\ Len(rest) = m - (n + 1) + 1
          /\ \A k \in 1 .. m - (n + 1) + 1 : rest[k] = blocks[(n + 1) + k - 1]
      BY <2>1, <3>1, <1>1, <1>9, SubSeqProperties DEF m
    <3>3. m - (n + 1) + 1 = m - n
      BY <1>1
    <3>4. ASSUME NEW k \in 1 .. m - n PROVE rest[k] = blocks[k + n]
      <4>1. (n + 1) + k - 1 = k + n
        OBVIOUS
      <4>2. k \in 1 .. m - (n + 1) + 1
        BY <3>3
      <4>3. rest[k] = blocks[(n + 1) + k - 1]
        BY <3>2, <4>2, Zenon
      <4> QED BY <4>1, <4>3
    <3> QED BY <3>2, <3>3, <3>4
  <2>3. m - n \in Nat /\ m - n > 0 /\ (j + n) + (m - n) - 1 = (j + m) - 1 /\ (m - n) + n = m
    BY <1>1, <1>9
  <2>4. rest[Len(rest)] = b
    <3>1. m - n \in 1 .. m - n
      BY <2>3
    <3> QED BY <3>1, <2>2, <2>3 DEF b
  <2>5. ASSUME NEW k \in 1 .. m - n PROVE BlockAt(rest[k], ((j + n) + k) - 1, f)
    <3>1. k + n \in 1 .. m /\ (j + (k + n)) - 1 = ((j + n) + k) - 1
      BY <1>1, <2>3
    <3> DEFINE q == k + n
    <3>2. rest[k] = blocks[q] /\ q \in 1 .. m /\ (j + q) - 1 = ((j + n) + k) - 1
      BY <3>1, <2>2
    <3> HIDE DEF q
    <3>3. BlockAt(blocks[q], (j + q) - 1, f)
      BY <3>2, <1>4
    <3> QED BY <3>2, <3>3
  <2>6. ASSUME NEW k \in 1 .. (m - n) - 1
        PROVE  rest[k].samples = SamplesAt(((j + n) + k) - 1) /\ rest[k].zeros = 0
    <3>1. k + n \in 1 .. m - 1 /\ (j + (k + n)) - 1 = ((j + n) + k) - 1 /\ k \in 1 .. m - n
      BY <1>1, <2>3
    <3> DEFINE q == k + n
    <3>2. rest[k] = blocks[q] /\ q \in 1 .. m - 1 /\ (j + q) - 1 = ((j + n) + k) - 1
      BY <3>1, <2>2
    <3> HIDE DEF q
    <3>3. blocks[q].samples = SamplesAt((j + q) - 1) /\ blocks[q].zeros = 0
      BY <3>2, <1>5
    <3> QED BY <3>2, <3>3
  <2>7. rest # <<>>
    BY <2>2, <2>3
  <2>8. LaidOut(rest, j + n, f)
    BY <2>2, <2>5, <2>6, <2>7 DEF LaidOut
  <2>9. EndOf(rest, j + n, f) = EndOf(blocks, j, f)
    <3>1. ((j + n) + (m - n)) - 1 = p
      BY <1>1 DEF p
    <3> QED BY <3>1, <2>2, <2>4 DEF EndOf, b, p, m
  <2>10. RoomAt(rest, j + n) = RoomAt(blocks, j)
    <3>1. ((j + n) + (m - n)) - 1 = p
      BY <1>1 DEF p
    <3> QED BY <3>1, <2>2, <2>4 DEF RoomAt, b, p, m
  <2> QED BY <2>2, <2>4, <2>8, <2>9, <2>10, <1>3, <1>7, <1>9, <1>1 DEF b, m
<1>10. CASE ~(n < m)
  <2>1. n = m
    BY <1>10, <1>1, <1>3
  <2> DEFINE e == Emptied(b)
  <2>2. rest = <<e>>
    <3>1. Last(blocks) = b
      BY <1>1 DEF Last, b, m
    <3> QED BY <3>1, <1>10 DEF Remaining, m
  <2>3. e \in Block /\ e.sequence = None /\ e.samples = 0 /\ e.runs = <<>> /\ e.zeros = 0
    <3> DEFINE l == Max({b.zeros, b.left})
    <3>1. b.zeros \in Nat /\ b.left \in Nat
      BY <1>1, BlockFields
    <3>2. l \in Nat
      <4> DEFINE top == b.zeros + b.left
                 T == {b.zeros, b.left}
      <4>1. T \in SUBSET Nat /\ top \in Nat /\ \A y \in T : y <= top
        BY <3>1
      <4>2. T # {}
        OBVIOUS
      <4> HIDE DEF T, top
      <4>3. Max(T) \in T
        BY <4>1, <4>2, MaxIsGreatest
      <4> QED BY <4>1, <4>3 DEF T
    <3>3. e = [sequence |-> None, samples |-> 0, runs |-> <<>>, zeros |-> 0, left |-> l]
      BY DEF Emptied, NewBlock
    <3> HIDE DEF l, e
    <3>4. e.sequence = None /\ e.samples = 0 /\ e.runs = <<>> /\ e.zeros = 0
      BY <3>3
    <3>5. e \in Block
      BY <3>2, <3>3 DEF Block
    <3> QED BY <3>4, <3>5
  <2> HIDE DEF e
  <2>4. rest \in Seq(Block) /\ rest # <<>> /\ Len(rest) = 1 /\ rest[1] = e
    BY <2>2, <2>3
  <2>5. Total(j + n) - Total(f) \in Nat /\ SamplesAt(j + n) \in Nat /\ Total(f) \in Nat /\ Total(j + n) \in Nat
    <3> DEFINE q == j + n
    <3>1. q \in Nat /\ f <= q
      OBVIOUS
    <3> HIDE DEF q
    <3>2. Total(q) \in Nat /\ Total(f) \in Nat /\ Total(f) <= Total(q) /\ SamplesAt(q) \in Nat
      BY <3>1, TotalGrows, SamplesIn
    <3>3. Total(q) - Total(f) \in Nat
      BY <3>2
    <3> QED BY <3>2, <3>3 DEF q
  <2>6. BlockAt(e, j + n, f)
    <3>1. IsRun(e.runs, Total(j + n) - Total(f), (Total(j + n) - Total(f)) + (e.samples - e.zeros))
      BY <2>3, <2>5 DEF IsRun
    <3> QED BY <3>1, <2>3, <2>5 DEF BlockAt
  <2>7. ((j + n) + 1) - 1 = j + n
    OBVIOUS
  <2>8. LaidOut(rest, j + n, f)
    <3>1. ASSUME NEW k \in 1 .. 1 PROVE BlockAt(rest[k], ((j + n) + k) - 1, f)
      BY <2>4, <2>6, <2>7
    <3>2. 1 .. 1 - 1 = {}
      OBVIOUS
    <3> QED BY <3>1, <3>2, <2>4 DEF LaidOut
  <2>9. EndOf(rest, j + n, f) = Total(j + n) - Total(f)
    <3>1. EndOf(rest, j + n, f) = (Total(((j + n) + 1) - 1) - Total(f)) + (0 - 0)
      BY <2>3, <2>4 DEF EndOf
    <3> QED BY <3>1, <2>5, <2>7
  <2>10. EndOf(blocks, j, f) + b.zeros = Total(j + n) - Total(f)
    <3>1. EndOf(blocks, j, f) = (Total(p) - Total(f)) + (b.samples - b.zeros)
      BY DEF EndOf, p, b, m
    <3>2. b.samples = SamplesAt(p)
      BY <2>1, <1>3, <1>6
    <3>3. Total(j + m) = Total((j + m) - 1) + SamplesAt((j + m) - 1) /\ Total((j + m) - 1) - Total(f) \in Nat
      BY <1>1, TotalFrom
    <3>4. Total(p) \in Nat
      BY <1>1, TotalAdds
    <3> QED BY <3>1, <3>2, <3>3, <3>4, <2>1, <2>5, <1>6 DEF p
  <2>11. RoomAt(rest, j + n) = SamplesAt(j + n)
    <3>1. RoomAt(rest, j + n) = SamplesAt(((j + n) + 1) - 1) - 0
      BY <2>3, <2>4 DEF RoomAt
    <3> QED BY <3>1, <2>5, <2>7
  <2> QED BY <2>1, <2>3, <2>4, <2>8, <2>9, <2>10, <2>11, <1>7 DEF b, m
<1> QED BY <1>9, <1>10



-----------------------------------------------------------------------------
(* The configuration does not change *)

LEMMA Same ==
  ASSUME configuration' = configuration
  PROVE  /\ (IsConfigured)' <=> IsConfigured
         /\ (HasAudio)' <=> HasAudio
         /\ (mAudioSequenceCount)' = mAudioSequenceCount
         /\ (mMaxAudioSamples)' = mMaxAudioSamples
         /\ (Rate)' = Rate
         /\ \A j : (SamplesAt(j))' = SamplesAt(j) /\ (Total(j))' = Total(j)
         /\ \A b, j, f : (BlockAt(b, j, f))' <=> BlockAt(b, j, f)
         /\ \A bs, j, f : /\ (LaidOut(bs, j, f))' <=> LaidOut(bs, j, f)
                          /\ (EndOf(bs, j, f))' = EndOf(bs, j, f)
                          /\ (Room(j, bs))' = Room(j, bs)
         /\ (Package)' = Package
<1>1. (IsConfigured)' <=> IsConfigured
  BY DEF IsConfigured
<1>2. (HasAudio)' <=> HasAudio
  BY DEF HasAudio
<1>3. (Rate)' = Rate
  BY DEF Rate
<1>4. (mAudioSequenceCount)' = mAudioSequenceCount /\ (mMaxAudioSamples)' = mMaxAudioSamples
  BY <1>3 DEF mAudioSequenceCount, mMaxAudioSamples
<1>5. \A j : (mAudioSequence(j))' = mAudioSequence(j)
  BY <1>3 DEF mAudioSequence
<1>6. \A j : (SamplesAt(j))' = SamplesAt(j)
  BY <1>4, <1>5 DEF SamplesAt
<1>7. \A j : (Total(j))' = Total(j)
  BY DEF Total
<1>8. \A b, j, f : (BlockAt(b, j, f))' <=> BlockAt(b, j, f)
  BY <1>4, <1>6, <1>7 DEF BlockAt
<1>9. \A bs, j, f : (LaidOut(bs, j, f))' <=> LaidOut(bs, j, f)
  BY <1>6, <1>8 DEF LaidOut
<1>10. \A bs, j, f : (EndOf(bs, j, f))' = EndOf(bs, j, f)
  BY <1>7 DEF EndOf
<1>11. \A bs, j : (Room(j, bs))' = Room(j, bs)
  BY <1>3 DEF Room, LastSequenceIndex, mAudioSequence, mAudioSequenceCount
<1>12. (Package)' = Package
  BY DEF Package
<1> QED BY <1>1, <1>2, <1>3, <1>4, <1>6, <1>7, <1>8, <1>9, <1>10, <1>11, <1>12



-----------------------------------------------------------------------------
(* A package is written *)

\* No package, as when the file is completed, or the next.
IsGiven(package) ==
  package # <<>> =>
    \E p \in Package : package = <<p>> /\ p.video = NextPackage /\ (HasAudio => p.first = SamplesGiven)

\* The numbers of samples given, with the package's.
GivenWith(package) == IF package = <<>> THEN given ELSE Append(given, package[1].samples)

LEMMA PackageFields ==
  ASSUME NEW p \in Package
  PROVE  p.samples \in Nat /\ p.first \in Nat /\ p.video \in {None} \cup 1 .. configuration.packages
BY DEF Package

LEMMA GivenIs ==
  ASSUME given \in Seq(Nat), NEW package, IsGiven(package)
  PROVE  /\ package \in Seq(Package) /\ GivenWith(package) \in Seq(Nat)
         /\ Len(package) \in {0, 1}
         /\ Len(GivenWith(package)) = Len(given) + Len(package)
<1>1. CASE package = <<>>
  BY <1>1 DEF GivenWith
<1>2. CASE package # <<>>
  <2>1. PICK p \in Package : package = <<p>>
    BY <1>2 DEF IsGiven
  <2>2. p.samples \in Nat /\ package[1] = p /\ Len(package) = 1 /\ package \in Seq(Package)
    BY <2>1, PackageFields
  <2> QED BY <1>2, <2>2, SumsOfAppended DEF GivenWith
<1> QED BY <1>1, <1>2

\* The packages have as many samples as the sequence from its offset o on.
PackagesMatch(packages, o) ==
  \A i \in DOMAIN packages :
    packages[i].samples = mAudioSequence((i - 1 + o) % mAudioSequenceCount)

LEMMA OffsetsMatch ==
  ASSUME IsConfigured, NEW packages
  PROVE  LET found == GetAudioSequenceOffset(packages)
         IN /\ found \in 0 .. mAudioSequenceCount - 1
            /\ (\E o \in 0 .. mAudioSequenceCount - 1 : PackagesMatch(packages, o)) =>
                 PackagesMatch(packages, found)
<1> DEFINE Matches(o) == PackagesMatch(packages, o)
           found == GetAudioSequenceOffset(packages)
           matching == {o \in 0 .. mAudioSequenceCount - 1 : Matches(o)}
<1>1. found = IF matching = {} THEN 0 ELSE Min(matching)
  BY DEF GetAudioSequenceOffset, PackagesMatch
<1>2. mAudioSequenceCount \in {1, 5}
  BY BlocksHaveSamples
<1> HIDE DEF found, Matches
<1>3. CASE matching = {}
  <2>1. found = 0 /\ 0 \in 0 .. mAudioSequenceCount - 1
    BY <1>1, <1>2, <1>3
  <2>2. ~ \E o \in 0 .. mAudioSequenceCount - 1 : Matches(o)
    BY <1>3
  <2>3. found \in 0 .. mAudioSequenceCount - 1
        /\ ((\E o \in 0 .. mAudioSequenceCount - 1 : Matches(o)) => Matches(found))
    BY <2>1, <2>2
  <2> QED BY <2>3 DEF found, Matches
<1>4. CASE matching # {}
  <2>1. matching \in SUBSET Nat
    BY <1>2
  <2> HIDE DEF matching
  <2>2. found \in matching
    BY <1>1, <1>4, <2>1, MinIsLeast
  <2>3. found \in 0 .. mAudioSequenceCount - 1 /\ Matches(found)
    BY <2>2 DEF matching
  <2> QED BY <2>3 DEF found, Matches
<1> QED BY <1>3, <1>4

\* The packages have the numbers of samples, one after the other.
AtSums(late, numbers) ==
  /\ numbers \in Seq(Nat) /\ Len(late) = Len(numbers)
  /\ \A k \in 1 .. Len(numbers) : late[k].samples = numbers[k] /\ late[k].first = SumTo(numbers, k - 1)

LEMMA SumsAreChain ==
  ASSUME NEW late, NEW numbers, AtSums(late, numbers)
  PROVE  IsChain(late, 0) /\ ChainEnd(late, 0, Len(late)) = SumTo(numbers, Len(numbers))
<1> DEFINE N == Len(numbers)
<1>1. /\ numbers \in Seq(Nat) /\ Len(late) = N /\ N \in Nat
      /\ \A k \in 1 .. N : late[k].samples = numbers[k] /\ late[k].first = SumTo(numbers, k - 1)
  BY DEF AtSums
<1>2. SumTo(numbers, 0) = 0 /\ \A k \in 1 .. N : SumTo(numbers, k) = SumTo(numbers, k - 1) + numbers[k]
  BY <1>1, SumsAre
<1>3. \A k \in 1 .. N : numbers[k] \in Nat
  BY <1>1
<1>4. \A k \in 1 .. N : late[k].first + late[k].samples = SumTo(numbers, k)
  BY <1>1, <1>2
<1>5. IsChain(late, 0)
  <2>1. ASSUME NEW k \in 1 .. N
        PROVE  /\ late[k].samples \in Nat
               /\ late[k].first = IF k = 1 THEN 0 ELSE late[k - 1].first + late[k - 1].samples
    <3>1. late[k].samples \in Nat /\ late[k].first = SumTo(numbers, k - 1)
      BY <1>1, <1>3
    <3>2. CASE k = 1
      <4>1. k - 1 = 0
        BY <3>2
      <4> QED BY <3>1, <3>2, <4>1, <1>2
    <3>3. CASE k # 1
      <4>1. k - 1 \in 1 .. N
        BY <3>3
      <4> QED BY <3>1, <3>3, <4>1, <1>4
    <3> QED BY <3>2, <3>3
  <2> QED BY <2>1, <1>1 DEF IsChain
<1>6. CASE N = 0
  BY <1>1, <1>2, <1>5, <1>6 DEF ChainEnd
<1>7. CASE N # 0
  <2>1. N \in 1 .. N
    BY <1>1, <1>7
  <2> QED BY <2>1, <1>1, <1>4, <1>5, <1>7 DEF ChainEnd
<1> QED BY <1>6, <1>7

\* The block written first, and the file's first.
StartAt(package) == IF OffsetIsUnknown THEN Offset(package) ELSE FirstIndex + Len(units)
FirstOf(package) == IF OffsetIsUnknown THEN Offset(package) ELSE FirstIndex

LEMMA FirstIndexIn ==
  ASSUME IsConfigured, mAudioSequenceOffset \in 0 .. 255
  PROVE  FirstIndex \in Nat
<1>1. mAudioSequenceOffset \in Nat /\ (mAudioSequenceOffset % mAudioSequenceCount) \in 0 .. mAudioSequenceCount - 1
  <2>1. mAudioSequenceOffset \in Nat
    OBVIOUS
  <2> QED BY <2>1, IndexInSequence
<1>2. mAudioSequenceCount \in {1, 5}
  BY BlocksHaveSamples
<1> HIDE DEF mAudioSequenceCount
<1>3. mAudioSequenceOffset % mAudioSequenceCount \in Nat
  BY <1>1, <1>2
<1> QED BY <1>3 DEF FirstIndex

LEMMA UnitsTyped ==
  ASSUME IInv
  PROVE  /\ IsConfigured /\ Len(units) \in Nat /\ mDuration = Len(units)
         /\ mBufferedContentPackages \in Seq(Package) /\ given \in Seq(Nat)
         /\ mAudioSequenceOffset \in 0 .. 255 /\ FirstIndex \in Nat
         /\ Len(units) + Len(mBufferedContentPackages) = Len(given)
<1>1. IsConfigured /\ mDuration = Len(units) /\ mDuration \in 0 .. configuration.packages
      /\ configuration.packages \in Nat
      /\ mBufferedContentPackages \in Seq(Package) /\ given \in Seq(Nat)
      /\ mAudioSequenceOffset \in 0 .. 255
      /\ Len(units) + Len(mBufferedContentPackages) = Len(given)
  BY ConfigurationAssumption DEF IInv, TypeOK, EditUnitsInOrder, IsConfigured
<1>2. Len(units) \in Nat
  BY <1>1
<1> QED BY <1>1, <1>2, FirstIndexIn

LEMMA NoPaddingYet ==
  ASSUME IInv, mMXFFile # "completed", HasAudio
  PROVE  /\ Padding = 0
         /\ \A k \in 1 .. Len(units) : units[k].block.zeros = 0
<1>1. units \in Seq(Unit) /\ Len(units) \in Nat
  BY UnitsTyped DEF IInv, TypeOK
<1>2. ASSUME NEW k \in 1 .. Len(units) PROVE units[k].block.zeros = 0
  <2>1. UnitIsFull(k)
    BY DEF IInv, UnitsAreFull
  <2>2. units[k].block.zeros \in Nat
    <3>1. units[k].block \in Block
      BY <2>1 DEF UnitIsFull, BlockAt
    <3> QED BY <3>1, BlockFields
  <2>3. ~(units[k].block.zeros > 0)
    BY <2>1 DEF UnitIsFull
  <2> QED BY <2>2, <2>3
<1>3. Padding = 0
  <2>1. CASE units = <<>>
    BY <2>1 DEF Padding
  <2>2. CASE units # <<>>
    <3>1. Padding = units[Len(units)].block.zeros
      BY <2>2 DEF Padding
    <3>2. Len(units) \in 1 .. Len(units)
      BY <2>2, <1>1
    <3> QED BY <3>1, <3>2, <1>2
  <2> QED BY <2>1, <2>2
<1> QED BY <1>2, <1>3


\* The packages that are not copied yet follow the samples in memory.
LEMMA LateFollow ==
  ASSUME IInv, HasAudio, mMXFFile # "completed", NEW package, IsGiven(package)
  PROVE  LET j == StartAt(package)
             f == FirstOf(package)
         IN /\ j \in Nat /\ f \in Nat /\ f <= j /\ j = f + Len(units)
            /\ (mMXFFile = "open" => Index(package) = j % mAudioSequenceCount)
            /\ Offset(package) \in 0 .. 255
            /\ f = IF Offset(package) = UNKNOWN_SEQUENCE_OFFSET THEN 0
                   ELSE Offset(package) % mAudioSequenceCount
            /\ CanTakeAll(mAES3Blocks, j, f, LateOf(package))
            /\ ChainEnd(LateOf(package), EndOf(mAES3Blocks, j, f), Len(LateOf(package)))
                 = SumTo(GivenWith(package), Len(GivenWith(package)))
<1> DEFINE j == StartAt(package)
           f == FirstOf(package)
           late == LateOf(package)
           new == GivenWith(package)
<1>1. /\ IsConfigured /\ Len(units) \in Nat /\ mBufferedContentPackages \in Seq(Package)
      /\ given \in Seq(Nat) /\ mAudioSequenceOffset \in 0 .. 255 /\ FirstIndex \in Nat
      /\ Len(units) + Len(mBufferedContentPackages) = Len(given)
  BY UnitsTyped
<1>2. /\ package \in Seq(Package) /\ new \in Seq(Nat) /\ Len(package) \in {0, 1}
      /\ Len(new) = Len(given) + Len(package)
  BY <1>1, GivenIs
<1>3. mAudioSequenceCount \in {1, 5}
  BY <1>1, BlocksHaveSamples
<1>4. CASE OffsetIsUnknown
  <2> DEFINE buffer == mBufferedContentPackages
             L == Len(buffer)
  <2>1. /\ units = <<>> /\ mAES3Blocks = <<NewBlock>>
        /\ \A k \in 1 .. L : buffer[k].samples = given[k] /\ buffer[k].first = SumTo(given, k - 1)
    BY <1>4 DEF IInv, WhileUnknown
  <2>2. j = Offset(package) /\ f = Offset(package) /\ Index(package) = Offset(package)
        /\ late = buffer \o package /\ Offset(package) = GetAudioSequenceOffset(buffer \o package)
    BY <1>4 DEF StartAt, FirstOf, Index, LateOf, Offset
  <2>3. f \in 0 .. mAudioSequenceCount - 1
    BY <1>1, <2>2, OffsetsMatch
  <2> HIDE DEF late, new, j, f
  <2>4. f \in Nat /\ f \in 0 .. 255 /\ f # UNKNOWN_SEQUENCE_OFFSET /\ f % mAudioSequenceCount = f /\ Len(units) = 0
    BY <1>3, <2>1, <2>3 DEF UNKNOWN_SEQUENCE_OFFSET
  <2>5. Len(given) = L /\ L \in Nat
    BY <1>1, <2>4
  <2>6. AtSums(late, new)
    <3>1. Len(late) = Len(new) /\ Len(late) = L + Len(package)
      BY <1>1, <1>2, <2>2, <2>5
    <3>2. ASSUME NEW k \in 1 .. L PROVE late[k].samples = new[k] /\ late[k].first = SumTo(new, k - 1)
      <4>1. late[k] = buffer[k]
        BY <1>1, <1>2, <2>2
      <4>2. CASE package = <<>>
        BY <4>1, <4>2, <2>1 DEF new, GivenWith
      <4>3. CASE package # <<>>
        <5>1. PICK p \in Package : package = <<p>>
          BY <4>3 DEF IsGiven
        <5>2. p.samples \in Nat /\ new = Append(given, p.samples)
          BY <4>3, <5>1, PackageFields DEF new, GivenWith
        <5>3. k - 1 \in 0 .. Len(given)
          BY <2>5
        <5>4. SumTo(new, k - 1) = SumTo(given, k - 1)
          BY <5>2, <5>3, <1>1, SumsOfAppended
        <5>5. new[k] = given[k]
          BY <5>2, <2>5, <1>1
        <5> QED BY <4>1, <5>4, <5>5, <2>1
      <4> QED BY <4>2, <4>3
    <3>3. ASSUME NEW k \in 1 .. Len(new), ~(k \in 1 .. L)
          PROVE  late[k].samples = new[k] /\ late[k].first = SumTo(new, k - 1)
      <4>1. k = L + 1 /\ Len(package) = 1 /\ package # <<>> /\ k - 1 = Len(given)
        <5> HIDE DEF L
        <5>1. Len(new) = L + Len(package) /\ Len(package) \in {0, 1} /\ L \in Nat /\ L = Len(given)
          BY <3>1, <1>2, <2>5
        <5> DEFINE N == Len(new)
                   m == Len(package)
        <5> HIDE DEF N, m
        <5>4. N = L + m /\ m \in {0, 1} /\ k \in 1 .. N /\ ~(k \in 1 .. L)
          BY <5>1, <3>3 DEF N, m
        <5>2. k = L + 1 /\ Len(package) = 1
          <6>1. L \in Nat
            BY <5>1
          <6>2. k = L + 1 /\ m = 1
            BY <6>1, <5>4
          <6> QED BY <6>2 DEF m
        <5>3. package # <<>>
          BY <5>2
        <5> QED BY <5>1, <5>2, <5>3
      <4>2. PICK p \in Package : package = <<p>> /\ p.first = SamplesGiven
        BY <4>1 DEF IsGiven
      <4>3. p.samples \in Nat /\ new = Append(given, p.samples)
        BY <4>1, <4>2, PackageFields DEF new, GivenWith
      <4>4. late[k] = p
        BY <1>1, <1>2, <2>2, <4>1, <4>2
      <4>5. new[k] = p.samples
        BY <4>1, <4>3, <1>1, <2>5
      <4>6. Len(given) \in 0 .. Len(given)
        BY <2>5
      <4>7. SumTo(new, Len(given)) = SumTo(given, Len(given))
        BY <4>3, <4>6, <1>1, SumsOfAppended
      <4>8. p.first = SumTo(given, Len(given))
        BY <4>2, SamplesGivenIs
      <4> QED BY <4>1, <4>4, <4>5, <4>7, <4>8
    <3>4. \A k \in 1 .. Len(new) : late[k].samples = new[k] /\ late[k].first = SumTo(new, k - 1)
      BY <3>2, <3>3
    <3> QED BY <3>1, <3>4, <1>2 DEF AtSums
  <2>7. IsChain(late, 0) /\ ChainEnd(late, 0, Len(late)) = SumTo(new, Len(new))
    BY <2>6, SumsAreChain
  <2>8. LaidOut(mAES3Blocks, j, f) /\ mAES3Blocks[Len(mAES3Blocks)].zeros = 0 /\ EndOf(mAES3Blocks, j, f) = 0
    <3>1. BlockAt(NewBlock, f, f) /\ NewBlock \in Block
      BY <1>1, <2>4, NewBlockFits
    <3>2. NewBlock.zeros = 0 /\ NewBlock.samples = 0
      BY DEF NewBlock
    <3> DEFINE bs == <<NewBlock>>
    <3>3. bs \in Seq(Block) /\ bs # <<>> /\ Len(bs) = 1 /\ bs[1] = NewBlock
      BY <3>1
    <3> HIDE DEF bs
    <3>4. (f + 1) - 1 = f
      BY <2>4
    <3>5. LaidOut(bs, f, f)
      <4>1. ASSUME NEW k \in 1 .. 1 PROVE BlockAt(bs[k], (f + k) - 1, f)
        BY <3>1, <3>3, <3>4
      <4>2. 1 .. 1 - 1 = {}
        OBVIOUS
      <4> QED BY <4>1, <4>2, <3>3 DEF LaidOut
    <3>6. EndOf(bs, f, f) = 0
      <4>1. EndOf(bs, f, f) = (Total((f + 1) - 1) - Total(f)) + (0 - 0)
        BY <3>2, <3>3 DEF EndOf
      <4>2. Total(f) \in Nat
        BY <1>1, <2>4, TotalAdds
      <4> QED BY <4>1, <4>2, <3>4
    <3> QED BY <3>2, <3>3, <3>5, <3>6, <2>1, <2>2 DEF bs
  <2>9. Len(late) \in Nat
    BY <2>6 DEF AtSums
  <2>10. CanTakeAll(mAES3Blocks, j, f, late)
    BY <2>7, <2>8, <2>9 DEF CanTakeAll
  <2>11. f <= j /\ j = f + Len(units) /\ j \in Nat
    BY <2>2, <2>4
  <2>12. Index(package) = j % mAudioSequenceCount
    BY <2>2, <2>4
  <2> QED BY <2>2, <2>4, <2>7, <2>8, <2>10, <2>11, <2>12 DEF j, f, late, new
<1>5. CASE ~OffsetIsUnknown
  <2>1. j = FirstIndex + Len(units) /\ f = FirstIndex /\ Index(package) = mAudioSequenceIndex
        /\ late = <<>> \o package /\ Offset(package) = mAudioSequenceOffset
    BY <1>5 DEF StartAt, FirstOf, Index, LateOf, Offset
  <2>2. late = package
    BY <2>1, <1>2
  <2>3. j \in Nat /\ f \in Nat /\ f <= j /\ j = f + Len(units)
    BY <2>1, <1>1
  <2>4. mMXFFile = "open" => Index(package) = j % mAudioSequenceCount
    BY <1>5, <2>1 DEF IInv, IndexIsNext
  <2>5. f = IF Offset(package) = UNKNOWN_SEQUENCE_OFFSET THEN 0 ELSE Offset(package) % mAudioSequenceCount
    BY <2>1 DEF FirstIndex
  <2>6. /\ LaidOut(mAES3Blocks, j, f) /\ SamplesGiven = EndOf(mAES3Blocks, j, f) - Padding
        /\ ~(mAES3Blocks[Len(mAES3Blocks)].zeros > 0)
    BY <1>5, <2>1 DEF IInv, MemoryFollows
  <2>7. Padding = 0
    BY NoPaddingYet
  <2> HIDE DEF late, new, j, f
  <2>8. EndOf(mAES3Blocks, j, f) \in Nat
    BY <1>1, <2>3, <2>6, EndIsNatural
  <2>9. EndOf(mAES3Blocks, j, f) = SumTo(given, Len(given))
    BY <2>6, <2>7, <2>8, SamplesGivenIs
  <2>10. mAES3Blocks[Len(mAES3Blocks)].zeros = 0
    <3> DEFINE b == mAES3Blocks[Len(mAES3Blocks)]
    <3>1. b \in Block
      BY <2>6 DEF LaidOut
    <3> HIDE DEF b
    <3>2. b.zeros \in Nat
      BY <3>1, BlockFields
    <3> QED BY <3>2, <2>6 DEF b
  <2>11. CASE package = <<>>
    <3>1. Len(late) = 0 /\ new = given
      BY <2>2, <2>11 DEF new, GivenWith
    <3>2. IsChain(late, EndOf(mAES3Blocks, j, f))
      BY <3>1 DEF IsChain
    <3> QED BY <3>1, <3>2, <2>1, <2>3, <2>4, <2>5, <2>6, <2>9, <2>10, <1>1 DEF CanTakeAll, ChainEnd, j, f, late, new
  <2>12. CASE package # <<>>
    <3>1. PICK p \in Package : package = <<p>> /\ p.first = SamplesGiven
      BY <2>12 DEF IsGiven
    <3>2. p.samples \in Nat /\ new = Append(given, p.samples)
      BY <2>12, <3>1, PackageFields DEF new, GivenWith
    <3>3. Len(late) = 1 /\ late[1] = p
      BY <2>2, <3>1
    <3>4. Len(new) = Len(given) + 1 /\ SumTo(new, Len(given) + 1) = SumTo(given, Len(given)) + p.samples
      BY <3>2, <1>1, SumsOfAppended
    <3>5. p.first = EndOf(mAES3Blocks, j, f)
      BY <3>1, <2>9, SamplesGivenIs
    <3>6. IsChain(late, EndOf(mAES3Blocks, j, f))
      <4>1. ASSUME NEW k \in 1 .. Len(late) PROVE k = 1
        BY <3>3
      <4> QED BY <4>1, <3>2, <3>3, <3>5 DEF IsChain
    <3>7. ChainEnd(late, EndOf(mAES3Blocks, j, f), Len(late)) = SumTo(new, Len(new))
      BY <3>3, <3>4, <3>5, <2>9 DEF ChainEnd
    <3>8. CanTakeAll(mAES3Blocks, j, f, late)
      BY <3>3, <3>6, <2>6, <2>10 DEF CanTakeAll
    <3> QED BY <3>7, <3>8, <2>1, <2>3, <2>4, <2>5, <1>1 DEF j, f, late, new
  <2> QED BY <2>11, <2>12
<1> QED BY <1>4, <1>5

\* The blocks that a call of WriteContentPackage or CompleteFile writes from.
AreToWrite(blocks, j, f, package) ==
  LET last == blocks[Len(blocks)]
  IN /\ LaidOut(blocks, j, f)
     /\ EndOf(blocks, j, f) = SumTo(GivenWith(package), Len(GivenWith(package)))
     /\ last.zeros <= Rate.maxFinalPadding
     /\ last.zeros > 0 => package = <<>> /\ RoomAt(blocks, j) = 0
     /\ package = <<>> => RoomAt(blocks, j) = 0 \/ RoomAt(blocks, j) > Rate.maxFinalPadding

LEMMA BlocksGive ==
  ASSUME IInv, HasAudio, mMXFFile = "open", NEW package, IsGiven(package)
  PROVE  AreToWrite(Blocks(package), StartAt(package), FirstOf(package), package)
<1> DEFINE j == StartAt(package)
           f == FirstOf(package)
           full == FullBlocks(package)
           B == Blocks(package)
<1>1. IsConfigured
  BY UnitsTyped
<1>2. /\ j \in Nat /\ f \in Nat /\ f <= j /\ Index(package) = j % mAudioSequenceCount
      /\ CanTakeAll(mAES3Blocks, j, f, LateOf(package))
      /\ ChainEnd(LateOf(package), EndOf(mAES3Blocks, j, f), Len(LateOf(package)))
           = SumTo(GivenWith(package), Len(GivenWith(package)))
  <2>1. mMXFFile # "completed"
    OBVIOUS
  <2> QED BY <2>1, LateFollow
<1> HIDE DEF j, f
<1>3. HaveTaken(full, mAES3Blocks, j, f, LateOf(package), Len(LateOf(package)))
  BY <1>1, <1>2, FullBlocksGive
<1>4. LaidOut(full, j, f) /\ full[Len(full)].zeros = 0
      /\ EndOf(full, j, f) = SumTo(GivenWith(package), Len(GivenWith(package)))
  BY <1>2, <1>3 DEF HaveTaken
<1> HIDE DEF full
<1>5. Rate.maxFinalPadding \in Nat
  <2>1. Rate.maxFinalPadding \in {0, 4}
    BY <1>1, BlocksHaveSamples
  <2> QED BY <2>1
<1>6. CASE package # <<>>
  <2>1. B = full
    BY <1>6 DEF Blocks, full
  <2> QED BY <2>1, <1>4, <1>5, <1>6 DEF AreToWrite, j, f
<1>7. CASE package = <<>>
  <2>1. B = FinalUpdateAES3Blocks(j % mAudioSequenceCount, full)
    BY <1>2, <1>7 DEF Blocks, full
  <2> HIDE DEF B
  <2>2. MayBePadded(B, full, j, f)
    BY <2>1, <1>1, <1>2, <1>4, FinalUpdateGives
  <2>3. RoomAt(B, j) = 0 \/ (B[Len(B)].zeros = 0 /\ RoomAt(B, j) > Rate.maxFinalPadding)
    BY <2>2 DEF MayBePadded
  <2>4. RoomAt(B, j) \in Nat /\ LaidOut(B, j, f)
    BY <2>2, <1>1, <1>2, RoomAtIs DEF MayBePadded
  <2> QED BY <2>2, <2>3, <2>4, <1>4, <1>7 DEF AreToWrite, MayBePadded, B, j, f
<1> QED BY <1>6, <1>7


LEMMA FillsHaveRoom ==
  ASSUME IsConfigured, NEW samples \in Nat, samples <= mMaxAudioSamples
  PROVE  /\ Fills(samples) \in Seq(Int)
         /\ \A f \in DOMAIN Fills(samples) : Fills(samples)[f] >= KLSize
<1>1. ASSUME NEW size \in Nat
      PROVE  get_kag_aligned_size(size) \in Int /\ get_kag_aligned_size(size) - size >= 20
  <2> DEFINE r == size % 512
  <2>1. r \in 0 .. 511
    OBVIOUS
  <2>2. get_kag_aligned_size(size) = size + IF 512 - r < 20 THEN (512 - r) + 512 ELSE 512 - r
    BY DEF get_kag_aligned_size, KAG_SIZE, KLSize
  <2> HIDE DEF r
  <2> QED BY <2>1, <2>2
<1> DEFINE image == configuration.imageSize
           top == mMaxAudioSamples
           a == get_kag_aligned_size(SystemElementSize) - SystemElementSize
           b == get_kag_aligned_size(KLSize + image) - KLSize - image
           c == get_kag_aligned_size(KLSize + AES3BlockSize(top)) - KLSize - AES3BlockSize(samples)
<1>2. image \in Nat /\ top \in Nat
  <2>1. mMaxAudioSamples \in {1602, 1920}
    BY BlocksHaveSamples
  <2> QED BY <2>1, ConfigurationAssumption DEF IsConfigured
<1> HIDE DEF image, top
<1>3. a \in Int /\ a >= 20
  <2>1. SystemElementSize \in Nat
    BY DEF SystemElementSize, KLSize, SYSTEM_ITEM_METADATA_PACK_SIZE
  <2> HIDE DEF SystemElementSize
  <2> QED BY <2>1, <1>1
<1>4. b \in Int /\ b >= 20
  <2> DEFINE size == 20 + image
  <2>1. size \in Nat
    BY <1>2
  <2> HIDE DEF size
  <2>2. get_kag_aligned_size(size) \in Int /\ get_kag_aligned_size(size) - size >= 20
    BY <2>1, <1>1
  <2>3. b = get_kag_aligned_size(size) - 20 - image
    BY DEF size, KLSize
  <2>4. size = 20 + image
    BY DEF size
  <2> QED BY <2>2, <2>3, <2>4, <1>2
<1>5. c \in Int /\ c >= 20
  <2> DEFINE size == 20 + (4 + top * 4 * 8)
  <2>1. size \in Nat /\ size = 24 + 32 * top
    BY <1>2
  <2> HIDE DEF size
  <2>2. get_kag_aligned_size(size) \in Int /\ get_kag_aligned_size(size) - size >= 20
    BY <2>1, <1>1
  <2>3. c = get_kag_aligned_size(size) - 20 - (4 + samples * 4 * 8)
    BY DEF size, KLSize, AES3BlockSize
  <2>4. samples <= top
    BY DEF top
  <2>5. 4 + samples * 4 * 8 = 4 + 32 * samples
    OBVIOUS
  <2> QED BY <2>1, <2>2, <2>3, <2>4, <2>5, <1>2
<1> HIDE DEF a, b, c
<1>6. Fills(samples) = <<a, b, c>>
  BY DEF Fills, a, b, c, image, top
<1> QED BY <1>3, <1>4, <1>5, <1>6 DEF KLSize

\* The packages of a call follow those in the file.
LEMMA PackagesInOrder ==
  ASSUME IInv, NEW package, IsGiven(package)
  PROVE  LET packages == mBufferedContentPackages \o package
         IN /\ packages \in Seq(Package) /\ Len(packages) \in Nat
            /\ Len(packages) = Len(mBufferedContentPackages) + Len(package)
            /\ Len(units) + Len(packages) = Len(GivenWith(package))
            /\ \A k \in 1 .. Len(packages) : packages[k].video = Len(units) + k
<1> DEFINE buffer == mBufferedContentPackages
           packages == buffer \o package
           L == Len(buffer)
           m == Len(package)
<1>1. /\ buffer \in Seq(Package) /\ given \in Seq(Nat) /\ Len(units) \in Nat
      /\ Len(units) + L = Len(given)
  BY UnitsTyped
<1>2. /\ package \in Seq(Package) /\ m \in {0, 1} /\ Len(GivenWith(package)) = Len(given) + m
  BY <1>1, GivenIs
<1>3. packages \in Seq(Package) /\ Len(packages) = L + m /\ L \in Nat
  BY <1>1, <1>2
<1>4. \A k \in 1 .. L : buffer[k].video = Len(units) + k
  <2>1. \A k \in DOMAIN mBufferedContentPackages :
          mBufferedContentPackages[k].video = Len(units) + k
    BY DEF IInv, EditUnitsInOrder
  <2>2. DOMAIN buffer = 1 .. L
    BY <1>1
  <2> QED BY <2>1, <2>2
<1>5. ASSUME NEW k \in 1 .. Len(packages) PROVE packages[k].video = Len(units) + k
  <2>1. CASE k \in 1 .. L
    <3>1. packages[k] = buffer[k]
      BY <1>1, <1>2, <2>1
    <3> QED BY <3>1, <2>1, <1>4
  <2>2. CASE ~(k \in 1 .. L)
    <3>1. k = L + 1 /\ m = 1
      <4> HIDE DEF L, m
      <4> L \in Nat
        BY <1>3
      <4> QED BY <2>2, <1>2, <1>3
    <3>2. PICK p \in Package : package = <<p>> /\ p.video = NextPackage
      <4>1. package # <<>>
        BY <3>1
      <4> QED BY <4>1 DEF IsGiven
    <3>3. packages[k] = p
      BY <3>1, <3>2, <1>1, <1>2
    <3> QED BY <3>1, <3>2, <3>3, <1>1, <1>3 DEF NextPackage
  <2> QED BY <2>1, <2>2
<1>6. Len(units) + (L + m) = Len(GivenWith(package))
  BY SMTT(60), <1>1, <1>2, <1>3
<1> QED BY <1>3, <1>5, <1>6, <1>2

LEMMA Concatenated ==
  ASSUME NEW S, NEW s \in Seq(S), NEW t \in Seq(S)
  PROVE  /\ s \o t \in Seq(S) /\ Len(s \o t) = Len(s) + Len(t)
         /\ \A k \in 1 .. Len(s) : (s \o t)[k] = s[k]
         /\ \A k \in 1 .. Len(t) : (s \o t)[Len(s) + k] = t[k]
<1>1. Len(s) \in Nat /\ Len(t) \in Nat
  OBVIOUS
<1>2. s \o t \in Seq(S) /\ Len(s \o t) = Len(s) + Len(t)
  OBVIOUS
<1>3. ASSUME NEW k \in 1 .. Len(s) PROVE (s \o t)[k] = s[k]
  OBVIOUS
<1>4. ASSUME NEW k \in 1 .. Len(t) PROVE (s \o t)[Len(s) + k] = t[k]
  OBVIOUS
<1> QED BY <1>2, <1>3, <1>4

\* n packages are written, with the first n blocks.
Writes(package, blocks, n) ==
  LET packages == mBufferedContentPackages \o package
  IN /\ n = Min({NumCompleteBlocks(Index(package), blocks), Len(packages)})
     /\ mAudioSequenceOffset' = Offset(package)
     /\ mAudioSequenceIndex' = IndexAfter(Index(package), n)
     /\ mDuration' = mDuration + n
     /\ mBufferedContentPackages' = Unwritten(packages, n)
     /\ mAES3Blocks' = Remaining(blocks, n)
     /\ units' = units \o
          [i \in 1 .. n |-> EditUnit(mDuration + i - 1, packages[i], blocks[i])]

LEMMA FullBlocksAreWritten ==
  ASSUME NEW package, WriteFullBlocks(package)
  PROVE  \E n : Writes(package, Blocks(package), n)
BY DEF WriteFullBlocks, Writes, Remaining

UnitsInOrder ==
  /\ mDuration = Len(units)
  /\ Len(units) + Len(mBufferedContentPackages) = Len(given)
  /\ \A k \in DOMAIN units : units[k].video = k /\ units[k].continuity = (k - 1) % 65536
  /\ \A k \in DOMAIN mBufferedContentPackages : mBufferedContentPackages[k].video = Len(units) + k

IsEditUnit(unit, q, p, b) ==
  /\ q \in Nat /\ p \in Package /\ p.video \in Nat
  /\ b \in Block /\ b.samples <= mMaxAudioSamples
  /\ unit = EditUnit(q, p, b)

LEMMA EditUnitIsUnit ==
  ASSUME IsConfigured, NEW q, NEW p, NEW b, NEW unit, IsEditUnit(unit, q, p, b)
  PROVE  /\ unit \in Unit /\ unit.block = b /\ unit.video = p.video
         /\ unit.continuity = q % 65536
         /\ \A f \in DOMAIN unit.fills : unit.fills[f] >= KLSize
<1> SUFFICES ASSUME q \in Nat, p \in Package, p.video \in Nat, b \in Block,
                    b.samples <= mMaxAudioSamples, unit = EditUnit(q, p, b)
             PROVE  /\ unit \in Unit /\ unit.block = b /\ unit.video = p.video
                    /\ unit.continuity = q % 65536
                    /\ \A f \in DOMAIN unit.fills : unit.fills[f] >= KLSize
  BY DEF IsEditUnit
<1> DEFINE fills == Fills(b.samples)
           c == q % 65536
           v == p.video
           t == p.timecode
<1>1. fills \in Seq(Int) /\ \A f \in DOMAIN fills : fills[f] >= KLSize
  <2> DEFINE s == b.samples
  <2>1. s \in Nat /\ s <= mMaxAudioSamples
    BY BlockFields
  <2> HIDE DEF s
  <2>2. Fills(s) \in Seq(Int) /\ \A f \in DOMAIN Fills(s) : Fills(s)[f] >= KLSize
    BY <2>1, FillsHaveRoom
  <2> QED BY <2>2 DEF s
<1>2. c \in Nat
  OBVIOUS
<1>3. v \in 1 .. configuration.packages /\ t \in Timecode
  <2>1. v \in {None} \cup 1 .. configuration.packages /\ t \in Timecode
    BY DEF Package
  <2> QED BY <2>1 DEF None
<1>4. unit = [continuity |-> c, video |-> v, timecode |-> t, block |-> b, fills |-> fills]
  BY DEF EditUnit
<1> HIDE DEF fills, c, v, t
<1>5. unit \in Unit
  <2> DEFINE C == Nat
             V == 1 .. configuration.packages
             F == Seq(Int)
  <2> HIDE DEF c
  <2>1. Unit = [continuity : C, video : V, timecode : Timecode, block : Block, fills : F]
    BY DEF Unit
  <2>2. c \in C /\ v \in V /\ t \in Timecode /\ fills \in F
    <3>1. c \in C
      BY <1>2
    <3>2. v \in V /\ t \in Timecode
      BY <1>3
    <3>3. fills \in F
      BY <1>1
    <3> HIDE DEF C, V, F
    <3> QED BY <3>1, <3>2, <3>3
  <2> HIDE DEF C, V, F
  <2> QED BY <2>1, <2>2, <1>4
<1>6. unit.block = b /\ unit.video = v /\ unit.continuity = c /\ unit.fills = fills
  BY <1>4
<1> QED BY <1>1, <1>5, <1>6 DEF c, v

\* The new edit units and what remains in the buffer follow in order.
LEMMA UnitsWritten ==
  ASSUME IInv, NEW package, IsGiven(package), given' = GivenWith(package),
         configuration' = configuration, Len(given') <= configuration.packages,
         NEW blocks, NEW n \in Nat, Writes(package, blocks, n),
         n <= Len(mBufferedContentPackages \o package),
         \A k \in 1 .. n : blocks[k] \in Block /\ blocks[k].samples <= mMaxAudioSamples
  PROVE  /\ units' \in Seq(Unit) /\ Len(units') = Len(units) + n /\ n \in Nat
         /\ \A k \in 1 .. Len(units) : units'[k] = units[k]
         /\ \A i \in 1 .. n : /\ units'[Len(units) + i].block = blocks[i]
                              /\ \A f \in DOMAIN units'[Len(units) + i].fills :
                                   units'[Len(units) + i].fills[f] >= KLSize
         /\ mBufferedContentPackages' \in Seq(Package)
         /\ Len(mBufferedContentPackages') = Len(mBufferedContentPackages \o package) - n
         /\ mDuration' \in 0 .. configuration.packages
         /\ UnitsInOrder'
<1> DEFINE packages == mBufferedContentPackages \o package
           U == Len(units)
           P == Len(packages)
           new == [i \in 1 .. n |-> EditUnit(mDuration + i - 1, packages[i], blocks[i])]
           rest == Unwritten(packages, n)
<1>1. /\ IsConfigured /\ U \in Nat /\ mDuration = U /\ given \in Seq(Nat)
      /\ units \in Seq(Unit)
  BY UnitsTyped DEF IInv, TypeOK
<1>2. /\ packages \in Seq(Package) /\ P \in Nat /\ U + P = Len(given')
      /\ \A k \in 1 .. P : packages[k].video = U + k
  BY PackagesInOrder
<1>3. units' = units \o new /\ mDuration' = U + n /\ mBufferedContentPackages' = rest
  BY <1>1 DEF Writes
<1>4. ASSUME NEW i \in 1 .. n
      PROVE  /\ new[i] \in Unit /\ new[i].block = blocks[i] /\ new[i].video = U + i
             /\ new[i].continuity = ((U + i) - 1) % 65536
             /\ \A f \in DOMAIN new[i].fills : new[i].fills[f] >= KLSize
  <2>1. i \in 1 .. P
    BY <1>2
  <2> DEFINE p == packages[i]
             b == blocks[i]
             q == (U + i) - 1
  <2>2. p \in Package /\ p.video = U + i
    BY <2>1, <1>2
  <2>3. q \in Nat /\ U + i \in Nat /\ p.video \in Nat
    BY <1>1, <2>2
  <2>4. b \in Block /\ b.samples <= mMaxAudioSamples
    OBVIOUS
  <2>5. new[i] = EditUnit(q, p, b)
    <3>1. mDuration + i - 1 = q
      BY <1>1
    <3> QED BY <3>1
  <2> HIDE DEF p, b, q, new, U
  <2> DEFINE u == new[i]
  <2> HIDE DEF u
  <2>6. u = EditUnit(q, p, b)
    BY <2>5 DEF u
  <2>7. /\ u \in Unit /\ u.block = b /\ u.video = p.video
        /\ u.continuity = q % 65536
        /\ \A f \in DOMAIN u.fills : u.fills[f] >= KLSize
    <3>1. IsEditUnit(u, q, p, b)
      BY <2>2, <2>3, <2>4, <2>6 DEF IsEditUnit
    <3> QED BY <3>1, <1>1, EditUnitIsUnit
  <2> QED BY <2>2, <2>7 DEF b, q, u
<1> HIDE DEF U, P, packages
<1>5. new \in Seq(Unit) /\ Len(new) = n
  <2>1. new \in [1 .. n -> Unit]
    <3> HIDE DEF new
    <3>1. DOMAIN new = 1 .. n /\ new = [i \in 1 .. n |-> new[i]]
      BY DEF new
    <3> QED BY <3>1, <1>4
  <2> HIDE DEF new
  <2> QED BY <2>1
<1> HIDE DEF new
<1>6. units' \in Seq(Unit) /\ Len(units') = U + n
      /\ (\A k \in 1 .. U : units'[k] = units[k])
      /\ \A i \in 1 .. n : units'[U + i] = new[i]
  <2>1. units \in Seq(Unit) /\ units' = units \o new
    BY <1>1, <1>3
  <2> QED BY <2>1, <1>5, Concatenated DEF U
<1>7. n <= P
  BY DEF P, packages
<1>8. rest \in Seq(Package) /\ Len(rest) = P - n /\ \A k \in 1 .. P - n : rest[k] = packages[n + k]
  <2>1. rest = SubSeq(packages, n + 1, P)
    BY DEF Unwritten, P
  <2> HIDE DEF rest
  <2>2. n + 1 \in 1 .. P + 1 /\ P \in n .. P
    BY <1>2, <1>7
  <2>3. CASE n = P
    <3>1. rest = <<>>
      BY <2>1, <2>3, <1>2 DEF P
    <3>2. P - n = 0 /\ rest \in Seq(Package) /\ Len(rest) = 0 /\ 1 .. P - n = {}
      BY <3>1, <2>3, <1>2
    <3> QED BY <3>2
  <2>4. CASE n # P
    <3>1. n + 1 \in 1 .. P /\ P \in 1 .. P
      BY <2>4, <1>2, <1>7
    <3>2. rest \in Seq(Package) /\ Len(rest) = P - (n + 1) + 1
          /\ \A k \in 1 .. P - (n + 1) + 1 : rest[k] = packages[(n + 1) + k - 1]
      BY SMTT(60), <2>1, <2>2, <3>1, <1>2, SubSeqProperties DEF P
    <3>3. P - (n + 1) + 1 = P - n
      BY <1>2
    <3>4. ASSUME NEW k \in 1 .. P - n PROVE rest[k] = packages[n + k]
      <4>1. (n + 1) + k - 1 = n + k
        OBVIOUS
      <4>2. k \in 1 .. P - (n + 1) + 1
        BY <3>3
      <4>3. rest[k] = packages[(n + 1) + k - 1]
        BY <3>2, <4>2, Zenon
      <4> QED BY <4>1, <4>3
    <3> QED BY <3>2, <3>3, <3>4
  <2> QED BY <2>3, <2>4
<1> HIDE DEF rest
<1>9. mDuration' \in 0 .. configuration.packages
  <2>1. configuration.packages \in Nat
    BY <1>1, ConfigurationAssumption DEF IsConfigured
  <2> QED BY <2>1, <1>1, <1>2, <1>3, <1>7
<1>10. UnitsInOrder'
  <2>1. mDuration' = Len(units') /\ Len(units') + Len(mBufferedContentPackages') = Len(given')
    <3>1. mDuration' = U + n /\ Len(units') = U + n
      BY <1>3, <1>6
    <3>2. Len(mBufferedContentPackages') = P - n
      BY <1>3, <1>8
    <3>3. (U + n) + (P - n) = U + P
      BY <1>1, <1>2
    <3> QED BY <3>1, <3>2, <3>3, <1>2
  <2>2. ASSUME NEW k \in DOMAIN units'
        PROVE  units'[k].video = k /\ units'[k].continuity = (k - 1) % 65536
    <3>1. k \in 1 .. U + n
      BY <1>6
    <3>2. CASE k \in 1 .. U
      <4>1. units'[k] = units[k] /\ k \in DOMAIN units
        BY <3>2, <1>1, <1>6 DEF U
      <4> QED BY <4>1 DEF IInv, EditUnitsInOrder
    <3>3. CASE ~(k \in 1 .. U)
      <4> DEFINE i == k - U
      <4>1. i \in 1 .. n /\ k = U + i
        BY <3>1, <3>3, <1>1
      <4> HIDE DEF i
      <4>2. units'[k] = new[i]
        BY <4>1, <1>6
      <4>3. new[i].video = U + i /\ new[i].continuity = ((U + i) - 1) % 65536
        BY <4>1, <1>4
      <4> QED BY <4>1, <4>2, <4>3
    <3> QED BY <3>2, <3>3
  <2>3. ASSUME NEW k \in DOMAIN mBufferedContentPackages'
        PROVE  mBufferedContentPackages'[k].video = Len(units') + k
    <3>1. k \in 1 .. P - n
      BY <1>3, <1>8
    <3>2. n + k \in 1 .. P /\ rest[k] = packages[n + k]
      BY SMTT(60), <3>1, <1>2, <1>7, <1>8
    <3>3. rest[k].video = U + (n + k)
      BY <3>2, <1>2
    <3>4. U + (n + k) = (U + n) + k
      BY <3>1, <1>1, <1>2
    <3> QED BY <3>3, <3>4, <1>3, <1>6
  <2> QED BY <2>1, <2>2, <2>3 DEF UnitsInOrder
<1>11. ASSUME NEW i \in 1 .. n
       PROVE  /\ units'[U + i].block = blocks[i]
              /\ \A f \in DOMAIN units'[U + i].fills : units'[U + i].fills[f] >= KLSize
  BY <1>4, <1>6
<1> QED BY <1>3, <1>6, <1>8, <1>9, <1>10, <1>11 DEF U, P, packages


\* A step that gives a package, or completes the file.
IsStep(package) ==
  /\ IInv /\ mMXFFile = "open" /\ configuration' = configuration
  /\ IsGiven(package) /\ given' = GivenWith(package) /\ Len(given') <= configuration.packages
  /\ mMXFFile' = IF package = <<>> THEN "completed" ELSE "open"

\* What the step writes, of block j on, in a file that begins with block f.
WritesFrom(package, j, f) ==
  /\ IsConfigured /\ j \in Nat /\ f \in Nat /\ f <= j /\ j = f + Len(units)
  /\ units \in Seq(Unit) /\ Len(units) \in Nat
  /\ FirstIndex' = f /\ ~OffsetIsUnknown' /\ (units # <<>> => FirstIndex = f)
  /\ AreToWrite(Blocks(package), j, f, package)

LEMMA StepWritesFrom ==
  ASSUME NEW package, IsStep(package), HasAudio,
         mAudioSequenceOffset' = Offset(package)
  PROVE  /\ WritesFrom(package, StartAt(package), FirstOf(package))
         /\ Index(package) = StartAt(package) % mAudioSequenceCount
<1> DEFINE j == StartAt(package)
           f == FirstOf(package)
<1>1. IInv /\ mMXFFile = "open" /\ configuration' = configuration /\ IsGiven(package)
  BY DEF IsStep
<1>2. IsConfigured /\ units \in Seq(Unit) /\ Len(units) \in Nat /\ mAudioSequenceOffset \in 0 .. 255
  BY <1>1, UnitsTyped DEF IInv, TypeOK
<1>3. /\ j \in Nat /\ f \in Nat /\ f <= j /\ j = f + Len(units)
      /\ Index(package) = j % mAudioSequenceCount
      /\ f = IF Offset(package) = UNKNOWN_SEQUENCE_OFFSET THEN 0
             ELSE Offset(package) % mAudioSequenceCount
  BY <1>1, LateFollow
<1>4. (mAudioSequenceCount)' = mAudioSequenceCount /\ ((HasAudio)' <=> HasAudio)
  BY <1>1, Same
<1>5. FirstIndex' = f
  BY <1>3, <1>4 DEF FirstIndex
<1>6. AreToWrite(Blocks(package), j, f, package)
  BY <1>1, BlocksGive
<1>7. CASE OffsetIsUnknown
  <2>1. units = <<>>
    BY <1>1, <1>7 DEF IInv, WhileUnknown
  <2>2. Offset(package) \in 0 .. mAudioSequenceCount - 1
    BY <1>2, <1>7, OffsetsMatch DEF Offset
  <2>3. mAudioSequenceCount \in {1, 5}
    BY <1>2, BlocksHaveSamples
  <2>4. mAudioSequenceOffset' # UNKNOWN_SEQUENCE_OFFSET
    <3> HIDE DEF mAudioSequenceCount
    <3> QED BY <2>2, <2>3 DEF UNKNOWN_SEQUENCE_OFFSET
  <2>5. ~OffsetIsUnknown'
    BY <2>4 DEF OffsetIsUnknown
  <2> QED BY <1>2, <1>3, <1>5, <1>6, <2>1, <2>5 DEF WritesFrom
<1>8. CASE ~OffsetIsUnknown
  <2>1. f = FirstIndex /\ mAudioSequenceOffset' = mAudioSequenceOffset
    BY <1>8 DEF FirstOf, Offset
  <2>2. ~OffsetIsUnknown'
    BY <2>1, <1>4, <1>8 DEF OffsetIsUnknown
  <2> QED BY <1>2, <1>3, <1>5, <1>6, <2>1, <2>2 DEF WritesFrom
<1> QED BY <1>7, <1>8

\* n packages are written and the others, if any, wait for samples.
WrittenAre(package, n, j, f) ==
  LET B == Blocks(package)
  IN /\ n \in Nat /\ n <= Len(B) /\ Len(B) \in Nat
     /\ mAudioSequenceIndex' = (j + n) % mAudioSequenceCount
     /\ units' \in Seq(Unit) /\ Len(units') = Len(units) + n
     /\ \A k \in 1 .. Len(units) : units'[k] = units[k]
     /\ \A i \in 1 .. n : /\ units'[Len(units) + i].block = B[i]
                          /\ \A k \in DOMAIN units'[Len(units) + i].fills :
                               units'[Len(units) + i].fills[k] >= KLSize
     /\ \A i \in 1 .. n : /\ BlockAt(B[i], (j + i) - 1, f) /\ B[i].samples = SamplesAt((j + i) - 1)
                          /\ B[i].zeros > 0 => i = Len(B)
     /\ mBufferedContentPackages' \in Seq(Package)
     /\ mBufferedContentPackages' # <<>> =>
          n = Len(B) \/ (n = Len(B) - 1 /\ RoomAt(B, j) # 0)
     /\ mDuration' \in 0 .. configuration.packages
     /\ UnitsInOrder'

LEMMA StepWrites ==
  ASSUME NEW package, IsStep(package), HasAudio, NEW j, NEW f, WritesFrom(package, j, f),
         Index(package) = j % mAudioSequenceCount,
         NEW n, Writes(package, Blocks(package), n)
  PROVE  WrittenAre(package, n, j, f) /\ AreTheRest(mAES3Blocks', Blocks(package), j, f, n)
<1> DEFINE B == Blocks(package)
           packages == mBufferedContentPackages \o package
           P == Len(packages)
           complete == NumCompleteBlocks(Index(package), B)
<1>1. IInv /\ configuration' = configuration /\ IsGiven(package)
      /\ given' = GivenWith(package) /\ Len(given') <= configuration.packages
  BY DEF IsStep
<1>2. IsConfigured /\ j \in Nat /\ f \in Nat /\ f <= j /\ LaidOut(B, j, f)
  BY DEF WritesFrom, AreToWrite
<1> HIDE DEF B
<1>3. complete = (IF RoomAt(B, j) = 0 THEN Len(B) ELSE Len(B) - 1) /\ Len(B) \in Nat /\ Len(B) > 0
  <2>1. Len(B) \in Nat /\ Len(B) > 0
    BY <1>2 DEF LaidOut
  <2> QED BY <2>1, <1>2, NumCompleteIs
<1>4. P \in Nat
  BY <1>1, PackagesInOrder
<1> HIDE DEF complete, P
<1>5. n \in Nat /\ n <= complete /\ n <= P /\ (n = complete \/ n = P)
  <2>1. n = Min({complete, P})
    BY DEF Writes, B, complete, P
  <2>2. complete \in Nat
    BY <1>3
  <2> QED BY <2>1, <2>2, <1>4, LeastOfTwo
<1>6. mAES3Blocks' = Remaining(B, n)
  BY DEF Writes, B
<1> DEFINE rest == mAES3Blocks'
<1> HIDE DEF rest
<1>7. AreTheRest(rest, B, j, f, n)
  <2>1. rest = Remaining(B, n) /\ MayWrite(B, j, f, n)
    BY <1>2, <1>5, <1>6 DEF rest, complete, MayWrite
  <2> QED BY <2>1, <1>2, RemainingGives
<1>8. n <= Len(B) /\ \A k \in 1 .. n :
        /\ BlockAt(B[k], (j + k) - 1, f) /\ B[k].samples = SamplesAt((j + k) - 1)
        /\ B[k].zeros > 0 => k = Len(B)
  BY <1>7 DEF AreTheRest
<1>9. ASSUME NEW k \in 1 .. n PROVE B[k] \in Block /\ B[k].samples <= mMaxAudioSamples
  <2> DEFINE p == (j + k) - 1
  <2>1. p \in Nat
    BY <1>2, <1>5
  <2> HIDE DEF p
  <2>2. SamplesAt(p) <= mMaxAudioSamples
    BY <2>1, <1>2, SamplesIn
  <2>3. BlockAt(B[k], p, f) /\ B[k].samples = SamplesAt(p)
      BY <1>8 DEF p
  <2> QED BY <2>2, <2>3 DEF BlockAt
<1>10. /\ units' \in Seq(Unit) /\ Len(units') = Len(units) + n
       /\ \A k \in 1 .. Len(units) : units'[k] = units[k]
       /\ \A i \in 1 .. n : /\ units'[Len(units) + i].block = B[i]
                            /\ \A k \in DOMAIN units'[Len(units) + i].fills :
                                 units'[Len(units) + i].fills[k] >= KLSize
       /\ mBufferedContentPackages' \in Seq(Package)
       /\ Len(mBufferedContentPackages') = P - n
       /\ mDuration' \in 0 .. configuration.packages
       /\ UnitsInOrder'
  <2>1. Writes(package, B, n) /\ n <= Len(mBufferedContentPackages \o package)
    BY <1>5 DEF B, P
  <2> QED BY <2>1, <1>1, <1>5, <1>9, UnitsWritten DEF P
<1>11. mAudioSequenceIndex' = (j + n) % mAudioSequenceCount
  <2>1. mAudioSequenceIndex' = ((j % mAudioSequenceCount) + n) % mAudioSequenceCount
    BY DEF Writes, IndexAfter
  <2>2. n + 1 \in Nat /\ n + 1 > 0
    BY <1>5
  <2> DEFINE m == n + 1
  <2> HIDE DEF m
  <2>3. ((j % mAudioSequenceCount) + m - 1) % mAudioSequenceCount = ((j + m) - 1) % mAudioSequenceCount
    <3>1. m \in Nat /\ m > 0
      BY <2>2 DEF m
    <3> QED BY <3>1, <1>2, IndexIs
  <2>4. (j + m) - 1 = j + n
    BY <1>2, <1>5 DEF m
  <2>5. (j % mAudioSequenceCount) + m - 1 = (j % mAudioSequenceCount) + n
    <3> DEFINE i == j % mAudioSequenceCount
    <3>1. i \in 0 .. 4
      BY <1>2, IndexInSequence
    <3> HIDE DEF i
    <3>2. i + m - 1 = i + n
      BY <3>1, <1>5 DEF m
    <3> QED BY <3>2 DEF i
  <2> QED BY <2>1, <2>3, <2>4, <2>5
<1>12. mBufferedContentPackages' # <<>> => n = Len(B) \/ (n = Len(B) - 1 /\ RoomAt(B, j) # 0)
  <2> SUFFICES ASSUME mBufferedContentPackages' # <<>>
               PROVE  n = Len(B) \/ (n = Len(B) - 1 /\ RoomAt(B, j) # 0)
    OBVIOUS
  <2>1. P - n # 0
    BY <1>10
  <2>2. n = complete
    BY <2>1, <1>4, <1>5
  <2> QED BY <2>2, <1>3
<1> QED BY <1>3, <1>5, <1>7, <1>8, <1>10, <1>11, <1>12 DEF WrittenAre, B, rest


\* The step, the block it writes from and how many it writes.
WrittenBy(package, n, j, f) ==
  /\ IsStep(package) /\ WritesFrom(package, j, f)
  /\ WrittenAre(package, n, j, f) /\ AreTheRest(mAES3Blocks', Blocks(package), j, f, n)

LEMMA UnitsStayFull ==
  ASSUME HasAudio, NEW package, NEW n, NEW j, NEW f, WrittenBy(package, n, j, f)
  PROVE  /\ UnitsAreFull'
         /\ Padding' = IF n = Len(Blocks(package)) THEN Blocks(package)[n].zeros ELSE 0
<1> DEFINE B == Blocks(package)
           U == Len(units)
<1>1. /\ IInv /\ mMXFFile = "open" /\ configuration' = configuration
      /\ mMXFFile' = IF package = <<>> THEN "completed" ELSE "open"
  BY DEF WrittenBy, IsStep
<1>2. /\ IsConfigured /\ j \in Nat /\ f \in Nat /\ j = f + U
      /\ units \in Seq(Unit) /\ U \in Nat
      /\ FirstIndex' = f /\ (units # <<>> => FirstIndex = f)
      /\ AreToWrite(B, j, f, package)
  BY DEF WrittenBy, WritesFrom
<1>3. /\ n \in Nat /\ n <= Len(B) /\ Len(B) \in Nat
      /\ units' \in Seq(Unit) /\ Len(units') = U + n
      /\ \A k \in 1 .. U : units'[k] = units[k]
      /\ \A i \in 1 .. n : /\ units'[U + i].block = B[i]
                           /\ \A k \in DOMAIN units'[U + i].fills :
                                units'[U + i].fills[k] >= KLSize
      /\ \A i \in 1 .. n : /\ BlockAt(B[i], (j + i) - 1, f) /\ B[i].samples = SamplesAt((j + i) - 1)
                           /\ B[i].zeros > 0 => i = Len(B)
  BY DEF WrittenBy, WrittenAre
<1>4. /\ LaidOut(B, j, f) /\ B[Len(B)].zeros <= Rate.maxFinalPadding
      /\ B[Len(B)].zeros > 0 => package = <<>>
  BY <1>2 DEF AreToWrite
<1>5. Padding = 0 /\ \A k \in 1 .. U : units[k].block.zeros = 0
  BY <1>1, NoPaddingYet
<1>6. \A i \in 1 .. n : B[i].zeros \in Nat
  BY <1>3, BlockFields DEF BlockAt
<1> HIDE DEF B, U
<1>7. /\ (mAudioSequenceCount)' = mAudioSequenceCount /\ (Rate)' = Rate /\ ((HasAudio)' <=> HasAudio)
      /\ \A p : (SamplesAt(p))' = SamplesAt(p)
      /\ \A b, p, q : (BlockAt(b, p, q))' <=> BlockAt(b, p, q)
  BY <1>1, Same
<1>8. ASSUME NEW k \in 1 .. Len(units') PROVE UnitIsFull(k)'
  <2> DEFINE block == units'[k].block
             p == (f + k) - 1
  <2>1. k \in Nat /\ k \in 1 .. U + n
    BY <1>3
  <2>2. CASE k \in 1 .. U
    <3>1. UnitIsFull(k) /\ units'[k] = units[k] /\ FirstIndex = f /\ block.zeros = 0
      <4>1. UnitIsFull(k) /\ units # <<>>
        BY <1>1, <1>2, <2>2 DEF IInv, UnitsAreFull, U
      <4> QED BY <4>1, <1>2, <1>3, <1>5, <2>2
    <3>2. /\ block.sequence = p % mAudioSequenceCount
          /\ block.samples = SamplesAt(p)
          /\ \A i \in DOMAIN units'[k].fills : units'[k].fills[i] >= KLSize
          /\ BlockAt(block, p, f)
      BY <3>1 DEF UnitIsFull
    <3>3. Rate.maxFinalPadding \in {0, 4}
      BY <1>2, BlocksHaveSamples
    <3>4. 0 <= Rate.maxFinalPadding /\ ~(0 > 0)
      BY <3>3
    <3> HIDE DEF block, p
    <3>5. block.zeros <= Rate.maxFinalPadding /\ ~(block.zeros > 0)
      BY <3>1, <3>4
    <3> QED BY <3>2, <3>5, <1>2, <1>7 DEF UnitIsFull, block, p
  <2>3. CASE ~(k \in 1 .. U)
    <3> DEFINE i == k - U
    <3>1. i \in 1 .. n /\ k = U + i /\ p = (j + i) - 1 /\ p \in Nat
      <4>1. U \in Nat /\ n \in Nat /\ f \in Nat /\ j = f + U /\ k \in Nat
        BY <2>1, <1>2, <1>3 DEF U
      <4>2. k > U /\ k <= U + n
        BY <2>1, <2>3, <4>1
      <4>3. k = U + i /\ i \in Nat /\ i > 0 /\ i <= n
        BY <4>1, <4>2
      <4>4. p = (j + i) - 1 /\ p \in Nat
        BY <4>1, <4>3
      <4> QED BY <4>1, <4>3, <4>4
    <3> HIDE DEF i, p
    <3>2. block = B[i] /\ BlockAt(block, p, f) /\ block.samples = SamplesAt(p)
          /\ \A m \in DOMAIN units'[k].fills : units'[k].fills[m] >= KLSize
      BY <3>1, <1>3
    <3>3. block.sequence = p % mAudioSequenceCount
      BY <3>1, <3>2, <1>2, FullHasIndex
    <3>4. block.zeros > 0 => k = Len(units') /\ mMXFFile' = "completed"
      <4> SUFFICES ASSUME B[i].zeros > 0 PROVE k = Len(units') /\ mMXFFile' = "completed"
        BY <3>2
      <4>1. i = Len(B)
        BY <3>1, <1>3
      <4>2. i = n
        BY <4>1, <3>1, <1>3
      <4> QED BY <4>1, <4>2, <3>1, <1>1, <1>3, <1>4
    <3>5. block.zeros <= Rate.maxFinalPadding
      <4>1. CASE i = Len(B)
        BY <4>1, <3>2, <1>4
      <4>2. CASE i # Len(B)
        <5>1. B[i].zeros = 0
          BY <4>2, <3>1, <1>3, <1>6
        <5>2. Rate.maxFinalPadding \in {0, 4}
          BY <1>2, BlocksHaveSamples
        <5>3. 0 <= Rate.maxFinalPadding
          BY <5>2
        <5> QED BY <5>1, <5>3, <3>2
      <4> QED BY <4>1, <4>2
    <3> HIDE DEF block
    <3> QED BY <3>2, <3>3, <3>4, <3>5, <1>2, <1>7 DEF UnitIsFull, block, p
  <2> QED BY <2>2, <2>3
<1>9. Padding' = IF n = Len(B) THEN B[n].zeros ELSE 0
  <2>1. Len(B) > 0
    BY <1>4 DEF LaidOut
  <2>2. CASE n = 0
    <3>1. units' = units
      <4>1. Len(units') = U
        BY <2>2, <1>2, <1>3
      <4> QED BY <4>1, <1>2, <1>3 DEF U
    <3>2. Padding' = 0
      BY <3>1, <1>5 DEF Padding
    <3> QED BY <3>2, <2>1, <2>2
  <2>3. CASE n # 0
    <3>1. n \in 1 .. n /\ U + n # 0
      BY <2>3, <1>2, <1>3
    <3>2. units' # <<>> /\ units'[Len(units')].block = B[n]
      BY <3>1, <1>3
    <3>3. Padding' = B[n].zeros
      BY <3>2 DEF Padding
    <3>4. n # Len(B) => B[n].zeros = 0
      BY <3>1, <1>3, <1>6
    <3> QED BY <3>3, <3>4
  <2> QED BY <2>2, <2>3
<1> QED BY <1>8, <1>9 DEF UnitsAreFull, B

LEMMA MemoryStillFollows ==
  ASSUME HasAudio, NEW package, NEW n, NEW j, NEW f, WrittenBy(package, n, j, f)
  PROVE  MemoryFollows' /\ BufferedForWant'
<1> DEFINE B == Blocks(package)
           rest == mAES3Blocks'
           last == B[Len(B)]
<1>1. /\ IInv /\ mMXFFile = "open" /\ configuration' = configuration
      /\ given' = GivenWith(package)
      /\ mMXFFile' = IF package = <<>> THEN "completed" ELSE "open"
  BY DEF WrittenBy, IsStep
<1>2. /\ IsConfigured /\ j \in Nat /\ f \in Nat /\ f <= j /\ j = f + Len(units) /\ Len(units) \in Nat
      /\ FirstIndex' = f /\ AreToWrite(B, j, f, package)
  BY DEF WrittenBy, WritesFrom
<1>3. /\ n \in Nat /\ n <= Len(B) /\ Len(B) \in Nat /\ Len(units') = Len(units) + n
      /\ mAudioSequenceIndex' = (j + n) % mAudioSequenceCount
      /\ mBufferedContentPackages' # <<>> => n = Len(B) \/ (n = Len(B) - 1 /\ RoomAt(B, j) # 0)
  BY DEF WrittenBy, WrittenAre
<1>4. /\ LaidOut(B, j, f) /\ EndOf(B, j, f) = SumTo(given', Len(given'))
      /\ last.zeros > 0 => package = <<>>
      /\ package = <<>> => RoomAt(B, j) = 0 \/ RoomAt(B, j) > Rate.maxFinalPadding
  BY <1>1, <1>2 DEF AreToWrite
<1>5. AreTheRest(rest, B, j, f, n)
  BY DEF WrittenBy
<1>6. Padding' = IF n = Len(B) THEN B[n].zeros ELSE 0
  BY UnitsStayFull
<1>7. /\ (mAudioSequenceCount)' = mAudioSequenceCount /\ (Rate)' = Rate
      /\ \A bs, p, q : /\ (LaidOut(bs, p, q))' <=> LaidOut(bs, p, q)
                       /\ (EndOf(bs, p, q))' = EndOf(bs, p, q)
                       /\ (Room(p, bs))' = Room(p, bs)
  BY <1>1, Same
<1>8. SamplesGiven' = EndOf(B, j, f) /\ EndOf(B, j, f) \in Nat
  BY <1>2, <1>4, SamplesGivenIs, EndIsNatural
<1>9. f + Len(units') = j + n /\ j + n \in Nat /\ f <= j + n
  BY <1>2, <1>3
<1>10. last.zeros \in Nat
  <2>1. last \in Block
    BY <1>4 DEF LaidOut
  <2> HIDE DEF last
  <2> QED BY <2>1, BlockFields
<1> HIDE DEF B, rest
<1> DEFINE p == j + n
<1>11. LaidOut(rest, p, f)
  BY <1>5 DEF AreTheRest
<1> HIDE DEF p, last
<1>12. /\ SamplesGiven' = EndOf(rest, p, f) - Padding'
       /\ Padding' > 0 => Len(rest) = 1 /\ rest[Len(rest)].runs = <<>> /\ rest[Len(rest)].samples = 0
       /\ rest[Len(rest)].zeros > 0 => mMXFFile' = "completed"
  <2>1. CASE n < Len(B)
    <3>1. EndOf(rest, p, f) = EndOf(B, j, f) /\ rest[Len(rest)] = last
      BY <2>1, <1>5 DEF AreTheRest, p, last
    <3>2. Padding' = 0
      BY <2>1, <1>3, <1>6
    <3> QED BY <3>1, <3>2, <1>1, <1>4, <1>8
  <2>2. CASE n = Len(B)
    <3>1. /\ EndOf(rest, p, f) = EndOf(B, j, f) + B[n].zeros
          /\ Len(rest) = 1 /\ rest[1].runs = <<>> /\ rest[1].samples = 0 /\ rest[1].zeros = 0
      BY <2>2, <1>5 DEF AreTheRest, p
    <3>2. Padding' = B[n].zeros /\ B[n].zeros \in Nat
      BY <2>2, <1>6, <1>10 DEF last
    <3>3. SamplesGiven' = EndOf(rest, p, f) - Padding'
      BY <3>1, <3>2, <1>8
    <3> QED BY <3>1, <3>3
  <2> QED BY <2>1, <2>2, <1>3
<1>13. MemoryFollows'
  BY <1>2, <1>7, <1>9, <1>11, <1>12 DEF MemoryFollows, p, rest
<1>14. ASSUME mBufferedContentPackages' # <<>>
       PROVE  /\ Len(rest) = 1
              /\ RoomAt(rest, p) > IF mMXFFile' = "completed" THEN Rate.maxFinalPadding ELSE 0
  <2>1. CASE n = Len(B)
    <3>1. Len(rest) = 1 /\ RoomAt(rest, p) = SamplesAt(p)
      BY <2>1, <1>5 DEF AreTheRest, p
    <3>2. p \in Nat /\ IsConfigured
      BY <1>2, <1>9 DEF p
    <3>3. SamplesAt(p) \in Nat /\ 1601 <= SamplesAt(p)
      BY <3>2, SamplesIn
    <3>4. Rate.maxFinalPadding \in {0, 4}
      BY <1>2, BlocksHaveSamples
    <3>5. SamplesAt(p) > Rate.maxFinalPadding /\ SamplesAt(p) > 0
      BY <3>3, <3>4
    <3> QED BY <3>1, <3>5
  <2>2. CASE n # Len(B)
    <3>1. n = Len(B) - 1 /\ RoomAt(B, j) # 0
      BY <2>2, <1>3, <1>14
    <3>2. n < Len(B) /\ Len(B) - n = 1
      BY <3>1, <1>3
    <3>3. Len(rest) = 1 /\ RoomAt(rest, p) = RoomAt(B, j)
      BY <3>2, <1>5 DEF AreTheRest, p
    <3>4. RoomAt(B, j) \in Nat
      BY <1>2, <1>4, RoomAtIs
    <3>5. RoomAt(B, j) > 0
      BY <3>1, <3>4
    <3>6. mMXFFile' = "completed" => package = <<>>
      BY <1>1
    <3> QED BY <3>1, <3>3, <3>5, <3>6, <1>4
  <2> QED BY <2>1, <2>2
<1>15. Room(p % mAudioSequenceCount, rest) = RoomAt(rest, p)
  BY <1>2, <1>9, <1>11, RoomAtIs DEF p
<1>16. BufferedForWant'
  <2>1. (Room(mAudioSequenceIndex, mAES3Blocks))' = Room(p % mAudioSequenceCount, rest)
    BY <1>3, <1>7 DEF p, rest
  <2> QED BY <2>1, <1>7, <1>14, <1>15 DEF BufferedForWant, rest
<1> QED BY <1>13, <1>16


\* While the offset is unknown, the packages of the call are all that were given.
LEMMA UnknownAreGiven ==
  ASSUME IInv, OffsetIsUnknown, NEW package, IsGiven(package)
  PROVE  LET packages == mBufferedContentPackages \o package
         IN /\ packages \in Seq(Package) /\ GivenWith(package) \in Seq(Nat)
            /\ Len(packages) = Len(GivenWith(package))
            /\ Len(packages) = Len(mBufferedContentPackages) + Len(package)
            /\ \A k \in 1 .. Len(packages) :
                 /\ packages[k].samples = GivenWith(package)[k]
                 /\ HasAudio => packages[k].first = SumTo(GivenWith(package), k - 1)
<1> DEFINE buffer == mBufferedContentPackages
           packages == buffer \o package
           new == GivenWith(package)
           L == Len(buffer)
           m == Len(package)
<1>1. /\ buffer \in Seq(Package) /\ given \in Seq(Nat) /\ Len(units) + L = Len(given)
  BY UnitsTyped
<1>2. /\ units = <<>>
      /\ \A k \in 1 .. L : buffer[k].samples = given[k] /\ buffer[k].first = SumTo(given, k - 1)
  BY DEF IInv, WhileUnknown
<1>3. L = Len(given) /\ L \in Nat
  BY <1>1, <1>2
<1>4. package \in Seq(Package) /\ new \in Seq(Nat) /\ m \in {0, 1} /\ Len(new) = L + m
  BY <1>1, <1>3, GivenIs
<1>5. packages \in Seq(Package) /\ Len(packages) = L + m
  BY <1>1, <1>4, Concatenated
<1>6. (\A k \in 1 .. L : packages[k] = buffer[k]) /\ \A k \in 1 .. m : packages[L + k] = package[k]
  BY <1>1, <1>4, Concatenated
<1> HIDE DEF packages, new, L, m
<1>7. CASE package = <<>>
  <2>1. m = 0 /\ new = given
    BY <1>7 DEF m, new, GivenWith
  <2>2. L + m = L
    BY <2>1, <1>3
  <2> QED BY <2>1, <2>2, <1>2, <1>4, <1>5, <1>6 DEF packages, new, L, m
<1>8. CASE package # <<>>
  <2>1. PICK p \in Package : package = <<p>> /\ (HasAudio => p.first = SamplesGiven)
    BY <1>8 DEF IsGiven
  <2>2. p.samples \in Nat /\ new = Append(given, p.samples) /\ m = 1 /\ package[1] = p
    BY <1>8, <2>1, PackageFields DEF new, GivenWith, m
  <2>3. /\ \A k \in 0 .. Len(given) : SumTo(new, k) = SumTo(given, k)
        /\ \A k \in 1 .. Len(given) : new[k] = given[k]
        /\ new[Len(given) + 1] = p.samples
    <3>1. \A k \in 0 .. Len(given) : SumTo(new, k) = SumTo(given, k)
      BY <1>1, <2>2, SumsOfAppended
    <3>2. new[Len(given) + 1] = p.samples /\ \A k \in 1 .. Len(given) : new[k] = given[k]
      BY <1>1, <2>2
    <3> QED BY <3>1, <3>2
  <2>4. ASSUME NEW k \in 1 .. Len(packages)
        PROVE  packages[k].samples = new[k] /\ (HasAudio => packages[k].first = SumTo(new, k - 1))
    <3>1. CASE k \in 1 .. L
      <4>1. k - 1 \in 0 .. Len(given) /\ k \in 1 .. Len(given)
        BY <3>1, <1>3
      <4>2. packages[k] = buffer[k]
        BY <3>1, <1>6
      <4>3. new[k] = given[k] /\ SumTo(new, k - 1) = SumTo(given, k - 1)
        BY <4>1, <2>3
      <4>4. buffer[k].samples = given[k] /\ buffer[k].first = SumTo(given, k - 1)
        BY <3>1, <1>2 DEF L
      <4> QED BY <4>2, <4>3, <4>4
    <3>2. CASE ~(k \in 1 .. L)
      <4>1. k = L + 1 /\ k - 1 = L /\ 1 \in 1 .. m
        BY <3>2, <1>3, <1>5, <2>2
      <4>2. packages[k] = p /\ new[k] = p.samples
        BY <4>1, <1>3, <1>6, <2>2, <2>3
      <4>3. L \in 0 .. Len(given)
        BY <1>3
      <4>4. SumTo(new, k - 1) = SumTo(given, Len(given))
        BY <4>1, <4>3, <1>3, <2>3
      <4>5. HasAudio => p.first = SumTo(given, Len(given))
        BY <2>1, SamplesGivenIs
      <4> QED BY <4>2, <4>4, <4>5
    <3> QED BY <3>1, <3>2
  <2> QED BY <2>4, <1>4, <1>5 DEF packages, new, L, m
<1> QED BY <1>7, <1>8

\* The first packages stay the same.
LEMMA GivenStays ==
  ASSUME given \in Seq(Nat), NEW package, IsGiven(package)
  PROVE  \A k \in 1 .. Len(given) : k \in 1 .. Len(GivenWith(package)) /\ GivenWith(package)[k] = given[k]
<1>1. CASE package = <<>>
  BY <1>1 DEF GivenWith
<1>2. CASE package # <<>>
  <2>1. PICK p \in Package : package = <<p>>
    BY <1>2 DEF IsGiven
  <2>2. p.samples \in Nat /\ GivenWith(package) = Append(given, p.samples)
    BY <1>2, <2>1, PackageFields DEF GivenWith
  <2>3. ASSUME NEW s \in Nat, NEW k \in 1 .. Len(given)
        PROVE  k \in 1 .. Len(Append(given, s)) /\ Append(given, s)[k] = given[k]
    OBVIOUS
  <2> QED BY <2>2, <2>3
<1> QED BY <1>1, <1>2

SearchesOffset ==
  HasAudio /\ mAudioSequenceCount > 1 /\ configuration.offset = UNKNOWN_SEQUENCE_OFFSET

LEMMA OffsetStays ==
  ASSUME NEW package, IsStep(package), ~OffsetIsUnknown,
         mAudioSequenceOffset' = mAudioSequenceOffset
  PROVE  OffsetIsFound' /\ OffsetIsKept'
<1> DEFINE new == GivenWith(package)
           c == mAudioSequenceCount
<1>1. IInv /\ mMXFFile = "open" /\ configuration' = configuration /\ IsGiven(package) /\ given' = new
  BY DEF IsStep
<1>2. IsConfigured /\ given \in Seq(Nat)
  BY <1>1, UnitsTyped
<1>3. /\ (mAudioSequenceCount)' = c /\ ((HasAudio)' <=> HasAudio)
      /\ \A p : (SamplesAt(p))' = SamplesAt(p)
  BY <1>1, Same
<1>4. c \in {1, 5}
  BY <1>2, BlocksHaveSamples
<1>5. Len(new) \in Nat /\ Len(given) \in Nat /\ Len(new) >= Len(given)
      /\ \A k \in 1 .. Len(given) : k \in 1 .. Len(new) /\ new[k] = given[k]
  <2>1. /\ Len(new) = Len(given) + Len(package) /\ Len(package) \in {0, 1} /\ Len(given) \in Nat
        /\ new \in Seq(Nat)
    BY <1>1, <1>2, GivenIs
  <2> HIDE DEF new
  <2>2. Len(new) \in Nat /\ Len(new) >= Len(given)
    BY <2>1
  <2> QED BY <2>1, <2>2, <1>1, <1>2, GivenStays DEF new
<1> HIDE DEF new, c
<1>6. OffsetIsKept'
  BY <1>1, <1>3 DEF OffsetIsKept, IInv, c
<1>7. ASSUME SearchesOffset PROVE OffsetIsFound'
  <2>1. PICK n : n = c + 1
    OBVIOUS
  <2>2. /\ mAudioSequenceOffset \in 0 .. c - 1
        /\ Len(given) >= n
        /\ (\E o \in 0 .. c - 1 : Match(n, o)) => Match(n, mAudioSequenceOffset)
    BY <1>1, <1>7, <2>1 DEF OffsetIsFound, SearchesOffset, IInv, c
  <2>3. n \in Nat /\ Len(new) >= n
    BY <2>1, <2>2, <1>4, <1>5
  <2>4. ASSUME NEW o PROVE (\A k \in 1 .. Len(new) : k <= n => new[k] = SamplesAt((k - 1) + o)) <=> Match(n, o)
    <3>1. ASSUME NEW k \in 1 .. Len(new), k <= n PROVE k \in 1 .. Len(given) /\ new[k] = given[k]
      <4>1. k \in 1 .. Len(given)
        BY <3>1, <2>2, <2>3, <1>5
      <4> QED BY <4>1, <1>5
    <3>2. ASSUME NEW k \in 1 .. Len(given) PROVE k \in 1 .. Len(new) /\ new[k] = given[k]
      BY <1>5
    <3>3. (\A k \in 1 .. Len(new) : k <= n => new[k] = SamplesAt((k - 1) + o)) => Match(n, o)
      BY <3>2 DEF Match
    <3>4. Match(n, o) => (\A k \in 1 .. Len(new) : k <= n => new[k] = SamplesAt((k - 1) + o))
      BY <3>1 DEF Match
    <3> QED BY <3>3, <3>4
  <2>5. \A o : (Match(n, o))' <=> Match(n, o)
    <3> SUFFICES ASSUME NEW o PROVE (Match(n, o))' <=> Match(n, o)
      OBVIOUS
    <3>1. (Match(n, o))' <=> (\A k \in 1 .. Len(new) : k <= n => new[k] = SamplesAt((k - 1) + o))
      BY <1>1, <1>3 DEF Match
    <3> QED BY <3>1, <2>4
  <2>6. n = mAudioSequenceCount' + 1 /\ n = mAudioSequenceCount + 1
    BY <2>1, <1>3 DEF c
  <2> QED BY <2>2, <2>3, <2>5, <2>6, <1>1, <1>3 DEF OffsetIsFound, c
<1>8. ASSUME ~SearchesOffset PROVE OffsetIsFound'
  BY <1>1, <1>3, <1>8 DEF OffsetIsFound, SearchesOffset, c
<1> QED BY <1>6, <1>7, <1>8


LEMMA OffsetGetsFound ==
  ASSUME NEW package, IsStep(package), OffsetIsUnknown,
         package = <<>> \/ Len(mBufferedContentPackages) + 1 > mAudioSequenceCount,
         mAudioSequenceOffset' = Offset(package)
  PROVE  OffsetIsFound' /\ OffsetIsKept'
<1> DEFINE new == GivenWith(package)
           packages == mBufferedContentPackages \o package
           c == mAudioSequenceCount
<1>1. /\ IInv /\ mMXFFile = "open" /\ configuration' = configuration /\ IsGiven(package) /\ given' = new
      /\ mMXFFile' = IF package = <<>> THEN "completed" ELSE "open"
  BY DEF IsStep
<1>2. IsConfigured /\ given \in Seq(Nat) /\ mBufferedContentPackages \in Seq(Package)
  BY <1>1, UnitsTyped
<1>3. /\ (mAudioSequenceCount)' = c /\ ((HasAudio)' <=> HasAudio)
      /\ \A p : (SamplesAt(p))' = SamplesAt(p)
  BY <1>1, Same
<1>4. c \in {1, 5} /\ HasAudio /\ c > 1
  BY <1>2, BlocksHaveSamples DEF OffsetIsUnknown
<1>5. configuration.offset = UNKNOWN_SEQUENCE_OFFSET
  BY <1>1 DEF IInv, OffsetIsKept, OffsetIsUnknown
<1>6. /\ packages \in Seq(Package) /\ new \in Seq(Nat) /\ Len(packages) = Len(new)
      /\ Len(packages) = Len(mBufferedContentPackages) + Len(package)
      /\ \A k \in 1 .. Len(packages) : packages[k].samples = new[k]
  BY <1>1, UnknownAreGiven
<1>7. Len(mBufferedContentPackages) <= c /\ Len(mBufferedContentPackages) \in Nat
      /\ Len(package) \in {0, 1} /\ (Len(package) = 0 => package = <<>>)
  <2>1. Len(mBufferedContentPackages) <= c
    BY <1>1 DEF IInv, WhileUnknown
  <2>2. package \in Seq(Package) /\ Len(package) \in {0, 1}
    BY <1>1, <1>2, GivenIs
  <2> QED BY <2>1, <2>2, <1>2
<1>8. mAudioSequenceOffset' = GetAudioSequenceOffset(packages)
  BY DEF Offset
<1> HIDE DEF new, packages, c
<1>9. PICK n : n = c + 1
  OBVIOUS
<1>10. n \in Nat /\ Len(new) \in Nat /\ Len(new) <= n /\ (package = <<>> \/ Len(new) >= n)
  <2> DEFINE L == Len(mBufferedContentPackages)
             m == Len(package)
             N == Len(new)
  <2>1. L <= c /\ L \in Nat /\ m \in {0, 1} /\ (m = 0 => package = <<>>)
    BY <1>7
  <2>2. package = <<>> \/ L + 1 > c
    BY DEF c
  <2>3. N = L + m
    BY <1>6
  <2> HIDE DEF L, m, N
  <2>4. N \in Nat /\ N <= n /\ n \in Nat
    BY <2>1, <2>3, <1>4, <1>9
  <2>5. package # <<>> => N >= n
    BY <2>1, <2>2, <2>3, <1>4, <1>9
  <2> QED BY <2>4, <2>5 DEF N
<1>11. ASSUME NEW o \in 0 .. c - 1 PROVE PackagesMatch(packages, o) <=> (Match(n, o))'
  <2>1. DOMAIN packages = 1 .. Len(new)
    BY <1>6
  <2>2. (Match(n, o))' <=> \A k \in 1 .. Len(new) : k <= n => new[k] = SamplesAt((k - 1) + o)
    BY <1>1, <1>3 DEF Match
  <2>3. PackagesMatch(packages, o) <=> \A k \in 1 .. Len(new) : new[k] = SamplesAt(k - 1 + o)
    BY <2>1, <1>6 DEF PackagesMatch, SamplesAt
  <2>4. \A k \in 1 .. Len(new) : k <= n
    BY <1>10
  <2> QED BY <2>2, <2>3, <2>4
<1>12. LET found == GetAudioSequenceOffset(packages)
       IN /\ found \in 0 .. c - 1
          /\ (\E o \in 0 .. c - 1 : PackagesMatch(packages, o)) => PackagesMatch(packages, found)
  BY <1>2, OffsetsMatch DEF c
<1>13. PICK found : found = GetAudioSequenceOffset(packages)
  OBVIOUS
<1>14. found \in 0 .. c - 1 /\ ((\E o \in 0 .. c - 1 : (Match(n, o))') => (Match(n, found))')
  BY <1>11, <1>12, <1>13
<1>15. mAudioSequenceOffset' = found
  BY <1>8, <1>13
<1>16. n = mAudioSequenceCount' + 1
  BY <1>3, <1>9
<1>17. Len(given') >= n \/ mMXFFile' = "completed"
  BY <1>1, <1>10
<1>18. OffsetIsFound'
  <2>1. (Match(n, mAudioSequenceOffset))' <=> (Match(n, found))'
    BY <1>15 DEF Match
  <2> QED BY <2>1, <1>3, <1>14, <1>15, <1>16, <1>17 DEF OffsetIsFound
<1>19. OffsetIsKept'
  BY <1>1, <1>3, <1>4, <1>5 DEF OffsetIsKept, c
<1> QED BY <1>18, <1>19

\* The variables of memory and of the file have their types.
MemoryTyped ==
  /\ mBufferedContentPackages \in Seq(Package)
  /\ mAES3Blocks \in Seq(Block) /\ mAES3Blocks # <<>>
  /\ mAudioSequenceOffset \in 0 .. 255
  /\ mAudioSequenceIndex \in 0 .. mAudioSequenceCount - 1
  /\ mDuration \in 0 .. configuration.packages
  /\ units \in Seq(Unit)

InMemory ==
  /\ MemoryTyped /\ UnitsInOrder /\ WhileUnknown /\ WithoutAudio
  /\ IndexIsNext /\ UnitsAreFull /\ MemoryFollows /\ BufferedForWant
  /\ OffsetIsFound /\ OffsetIsKept

LEMMA OffsetIn ==
  ASSUME IInv, NEW package
  PROVE  Offset(package) \in 0 .. 255
<1>1. IsConfigured /\ mAudioSequenceOffset \in 0 .. 255
  BY UnitsTyped
<1>2. CASE OffsetIsUnknown
  <2>1. Offset(package) \in 0 .. mAudioSequenceCount - 1
    BY <1>1, <1>2, OffsetsMatch DEF Offset
  <2>2. mAudioSequenceCount \in {1, 5}
    BY <1>1, BlocksHaveSamples
  <2> HIDE DEF mAudioSequenceCount
  <2> QED BY <2>1, <2>2
<1>3. CASE ~OffsetIsUnknown
  BY <1>1, <1>3 DEF Offset
<1> QED BY <1>2, <1>3

LEMMA AudioIsWritten ==
  ASSUME NEW package, IsStep(package), HasAudio, WriteFullBlocks(package),
         OffsetIsUnknown => package = <<>> \/ Len(mBufferedContentPackages) + 1 > mAudioSequenceCount
  PROVE  InMemory'
<1>1. IInv /\ configuration' = configuration /\ IsGiven(package)
  BY DEF IsStep
<1>2. PICK n : Writes(package, Blocks(package), n)
  BY FullBlocksAreWritten
<1>3. mAudioSequenceOffset' = Offset(package)
  BY <1>2 DEF Writes
<1> DEFINE j == StartAt(package)
           f == FirstOf(package)
<1>4. WritesFrom(package, j, f) /\ Index(package) = j % mAudioSequenceCount
  BY <1>3, StepWritesFrom
<1> HIDE DEF j, f
<1>5. WrittenAre(package, n, j, f) /\ AreTheRest(mAES3Blocks', Blocks(package), j, f, n)
  BY <1>2, <1>4, StepWrites
<1>6. WrittenBy(package, n, j, f)
  BY <1>4, <1>5 DEF WrittenBy
<1>7. UnitsAreFull' /\ MemoryFollows' /\ BufferedForWant'
  BY <1>6, UnitsStayFull, MemoryStillFollows
<1>8. OffsetIsFound' /\ OffsetIsKept'
  <2>1. CASE OffsetIsUnknown
    BY <2>1, <1>3, OffsetGetsFound
  <2>2. CASE ~OffsetIsUnknown
    <3>1. mAudioSequenceOffset' = mAudioSequenceOffset
      BY <2>2, <1>3 DEF Offset
    <3> QED BY <3>1, <2>2, OffsetStays
  <2> QED BY <2>1, <2>2
<1>9. /\ ~OffsetIsUnknown' /\ IsConfigured /\ j \in Nat /\ f \in Nat /\ j = f + Len(units)
      /\ Len(units) \in Nat /\ FirstIndex' = f
  BY <1>4 DEF WritesFrom
<1>10. WhileUnknown' /\ WithoutAudio'
  <2>1. HasAudio'
    BY <1>1, Same
  <2> QED BY <2>1, <1>9 DEF WhileUnknown, WithoutAudio
<1>11. /\ n \in Nat /\ mAudioSequenceIndex' = (j + n) % mAudioSequenceCount
       /\ units' \in Seq(Unit) /\ Len(units') = Len(units) + n
       /\ mBufferedContentPackages' \in Seq(Package)
       /\ mDuration' \in 0 .. configuration.packages
       /\ UnitsInOrder'
  BY <1>5 DEF WrittenAre
<1>12. (mAudioSequenceCount)' = mAudioSequenceCount /\ (Package)' = Package
  BY <1>1, Same
<1>13. IndexIsNext'
  <2>1. FirstIndex' + Len(units') = j + n
    BY <1>9, <1>11
  <2> QED BY <2>1, <1>11, <1>12 DEF IndexIsNext
<1>14. MemoryTyped'
  <2>1. mAudioSequenceIndex' \in 0 .. mAudioSequenceCount - 1
    <3> DEFINE p == j + n
    <3>1. p \in Nat
      BY <1>9, <1>11
    <3> HIDE DEF p
    <3>2. (p % mAudioSequenceCount) \in 0 .. mAudioSequenceCount - 1
      BY <3>1, <1>9, IndexInSequence
    <3> QED BY <3>2, <1>11 DEF p
  <2>2. mAudioSequenceOffset' \in 0 .. 255
    BY <1>1, <1>3, OffsetIn
  <2>3. mAES3Blocks' \in Seq(Block) /\ mAES3Blocks' # <<>>
    <3>1. LaidOut(mAES3Blocks', j + n, f)
      BY <1>5 DEF AreTheRest
    <3> QED BY <3>1 DEF LaidOut
  <2>4. (Unit)' = Unit
    BY <1>1 DEF Unit
  <2> QED BY <2>1, <2>2, <2>3, <2>4, <1>1, <1>11, <1>12 DEF MemoryTyped
<1> QED BY <1>7, <1>8, <1>10, <1>11, <1>13, <1>14 DEF InMemory


\* The package is kept until the offset can be found.
LEMMA PackageIsBuffered ==
  ASSUME NEW package, IsStep(package), OffsetIsUnknown, package # <<>>,
         Len(mBufferedContentPackages) + 1 <= mAudioSequenceCount,
         mBufferedContentPackages' = mBufferedContentPackages \o package,
         UNCHANGED <<mAES3Blocks, mAudioSequenceOffset, mAudioSequenceIndex, mDuration, units>>
  PROVE  InMemory'
<1> DEFINE new == GivenWith(package)
           packages == mBufferedContentPackages \o package
<1>1. /\ IInv /\ mMXFFile = "open" /\ configuration' = configuration /\ IsGiven(package) /\ given' = new
      /\ mMXFFile' = "open"
  BY DEF IsStep
<1>2. /\ (mAudioSequenceCount)' = mAudioSequenceCount /\ ((HasAudio)' <=> HasAudio) /\ (Package)' = Package
      /\ (Unit)' = Unit
  BY <1>1, Same DEF Unit
<1>3. HasAudio /\ OffsetIsUnknown'
  BY <1>2 DEF OffsetIsUnknown
<1>4. /\ packages \in Seq(Package) /\ new \in Seq(Nat) /\ Len(packages) = Len(new)
      /\ Len(packages) = Len(mBufferedContentPackages) + Len(package)
      /\ \A k \in 1 .. Len(packages) :
           packages[k].samples = new[k] /\ packages[k].first = SumTo(new, k - 1)
  BY <1>1, <1>3, UnknownAreGiven
<1>5. /\ Len(units) + Len(packages) = Len(new)
      /\ \A k \in 1 .. Len(packages) : packages[k].video = Len(units) + k
  BY <1>1, PackagesInOrder
<1>6. /\ units = <<>> /\ mAES3Blocks = <<NewBlock>> /\ mAudioSequenceIndex = 0
  BY <1>1 DEF IInv, WhileUnknown
<1>7. /\ mAES3Blocks' = mAES3Blocks /\ mAudioSequenceOffset' = mAudioSequenceOffset
      /\ mAudioSequenceIndex' = mAudioSequenceIndex /\ mDuration' = mDuration /\ units' = units
      /\ mBufferedContentPackages' = packages
  OBVIOUS
<1>8. Len(packages) <= mAudioSequenceCount
  <2>1. package \in Seq(Package) /\ Len(package) \in {0, 1} /\ Len(mBufferedContentPackages) \in Nat
    BY <1>1, GivenIs, UnitsTyped
  <2>2. IsConfigured
    BY <1>1, UnitsTyped
  <2>3. mAudioSequenceCount \in {1, 5}
    BY <2>2, BlocksHaveSamples
  <2> DEFINE L == Len(mBufferedContentPackages)
             m == Len(package)
             c == mAudioSequenceCount
             P == Len(packages)
  <2>4. L \in Nat /\ m \in {0, 1} /\ c \in {1, 5} /\ P = L + m /\ L + 1 <= c
    BY <2>1, <2>3, <1>4
  <2> HIDE DEF L, m, c, P
  <2>5. P <= c
    BY <2>4
  <2> QED BY <2>5 DEF P, c
<1> HIDE DEF packages, new
<1>9. MemoryTyped'
  BY <1>1, <1>2, <1>4, <1>7 DEF MemoryTyped, IInv, TypeOK
<1>10. UnitsInOrder'
  <2>1. mDuration = Len(units) /\ \A k \in DOMAIN units : units[k].video = k /\ units[k].continuity = (k - 1) % 65536
    BY <1>1 DEF IInv, EditUnitsInOrder
  <2>2. DOMAIN packages = 1 .. Len(packages)
    BY <1>4
  <2> QED BY <2>1, <2>2, <1>1, <1>5, <1>7 DEF UnitsInOrder
<1>11. WhileUnknown'
  BY <1>1, <1>2, <1>4, <1>6, <1>7, <1>8 DEF WhileUnknown
<1>12. WithoutAudio' /\ IndexIsNext' /\ MemoryFollows' /\ BufferedForWant' /\ OffsetIsFound'
  BY <1>2, <1>3 DEF WithoutAudio, IndexIsNext, MemoryFollows, BufferedForWant, OffsetIsFound
<1>13. UnitsAreFull'
  <2>1. 1 .. Len(units') = {}
    BY <1>6, <1>7
  <2> QED BY <2>1 DEF UnitsAreFull
<1>14. OffsetIsKept'
  BY <1>1, <1>2, <1>7 DEF OffsetIsKept, IInv
<1> QED BY <1>9, <1>10, <1>11, <1>12, <1>13, <1>14 DEF InMemory

\* A file without audio gets a block of null samples with each package.
LEMMA NullsAreWritten ==
  ASSUME NEW package, IsStep(package), ~HasAudio, package # <<>>, WriteFullBlocks(package)
  PROVE  InMemory'
<1> DEFINE U == Len(units)
           j == FirstIndex + U
           c == mAudioSequenceCount
           top == mMaxAudioSamples
           z == SamplesAt(j)
           b == [sequence |-> j % c, samples |-> z, runs |-> <<>>, zeros |-> z, left |-> top]
           B == <<b>>
           packages == mBufferedContentPackages \o package
<1>1. /\ IInv /\ mMXFFile = "open" /\ configuration' = configuration /\ IsGiven(package)
      /\ given' = GivenWith(package) /\ Len(given') <= configuration.packages
  BY DEF IsStep
<1>2. /\ IsConfigured /\ U \in Nat /\ mDuration = U /\ FirstIndex \in Nat /\ j \in Nat
      /\ given \in Seq(Nat) /\ units \in Seq(Unit)
  BY <1>1, UnitsTyped DEF IInv, TypeOK
<1>3. ~OffsetIsUnknown /\ mBufferedContentPackages = <<>>
      /\ mAES3Blocks = <<[NewBlock EXCEPT !.left = IF mDuration = 0 THEN 0 ELSE top]>>
  BY <1>1 DEF OffsetIsUnknown, IInv, WithoutAudio
<1>4. mAudioSequenceIndex = j % c
  BY <1>1, <1>3 DEF IInv, IndexIsNext
<1>5. Index(package) = j % c /\ Offset(package) = mAudioSequenceOffset
  BY <1>3, <1>4 DEF Index, Offset
<1>6. z \in Nat /\ z <= top /\ top \in Nat /\ (j % c) \in 0 .. 4 /\ j % c # None /\ z = mAudioSequence(j % c)
  <2>1. z = mAudioSequence(j % c)
    BY DEF SamplesAt
  <2>2. z \in Nat /\ z <= top
    <3> j \in Nat /\ IsConfigured
      BY <1>2
    <3> HIDE DEF j
    <3>1. SamplesAt(j) \in Nat /\ SamplesAt(j) <= mMaxAudioSamples
      BY SamplesIn
    <3> QED BY <3>1
  <2>3. top \in {1602, 1920}
    BY <1>2, BlocksHaveSamples
  <2>4. top \in Nat
    BY <2>3
  <2>5. (j % c) \in 0 .. 4 /\ j % c # None
    BY <1>2, IndexInSequence
  <2> QED BY <2>1, <2>2, <2>4, <2>5
<1> HIDE DEF j, U, z, c, top
<1>7. b \in Block
  <2> DEFINE s == j % c
             r == <<>>
  <2>1. s \in {None} \cup 0 .. 4 /\ r \in Seq(Nat \X Nat) /\ z \in Nat /\ top \in Nat
    BY <1>6
  <2>2. b = [sequence |-> s, samples |-> z, runs |-> r, zeros |-> z, left |-> top]
    OBVIOUS
  <2> HIDE DEF s, r, b
  <2> QED BY <2>1, <2>2 DEF Block
<1>8. Blocks(package) = B
  <2>1. NullBlocks = B
    <3> DEFINE i == mAudioSequenceIndex
               h == Head(mAES3Blocks)
               k == InitAES3Block(h, i)
    <3>1. h = [NewBlock EXCEPT !.left = IF mDuration = 0 THEN 0 ELSE top]
      BY <1>3
    <3>2. h.left = IF mDuration = 0 THEN 0 ELSE top
      BY <3>1 DEF NewBlock
    <3>3. k = [sequence |-> i, samples |-> 0, runs |-> <<>>, zeros |-> 0,
               left |-> IF ~HasAudio /\ mDuration = 0 THEN top ELSE h.left]
      <4> DEFINE l == IF ~HasAudio /\ mDuration = 0 THEN top ELSE h.left
      <4>1. k = [NewBlock EXCEPT !.sequence = i, !.left = l]
        BY DEF InitAES3Block, top
      <4> HIDE DEF l, k, i, h
      <4>2. k = [sequence |-> i, samples |-> 0, runs |-> <<>>, zeros |-> 0, left |-> l]
        BY <4>1 DEF NewBlock
      <4> QED BY <4>2 DEF l
    <3>4. (IF ~HasAudio /\ mDuration = 0 THEN top ELSE h.left) = top
      BY <3>2
    <3>5. k = [sequence |-> i, samples |-> 0, runs |-> <<>>, zeros |-> 0, left |-> top]
      BY <3>3, <3>4
    <3> DEFINE w == [k EXCEPT !.zeros = z, !.samples = z]
    <3> HIDE DEF i, h, k, w
    <3>6. Min({k.left, mAudioSequence(i)}) = z
      <4>1. k.left = top /\ mAudioSequence(i) = z
        BY <3>5, <1>4, <1>6 DEF i
      <4>2. Min({top, z}) = z
        BY <1>6, LeastOfTwo
      <4> QED BY <4>1, <4>2
    <3>7. w = b
      <4> DEFINE s == j % c
      <4>1. i = s
        BY <1>4 DEF i
      <4> HIDE DEF s
      <4>3. k = [sequence |-> s, samples |-> 0, runs |-> <<>>, zeros |-> 0, left |-> top]
        BY <3>5, <4>1
      <4>2. w = [sequence |-> s, samples |-> z, runs |-> <<>>, zeros |-> z, left |-> top]
        <5>1. w = [[sequence |-> s, samples |-> 0, runs |-> <<>>, zeros |-> 0, left |-> top]
                    EXCEPT !.zeros = z, !.samples = z]
          BY <4>3 DEF w
        <5> QED BY <5>1
      <4> QED BY <4>2 DEF s, b
    <3>8. NullBlocks = <<[k EXCEPT !.zeros = Min({k.left, mAudioSequence(i)}),
                                   !.samples = Min({k.left, mAudioSequence(i)})]>>
      BY DEF NullBlocks, k, h, i
    <3>9. NullBlocks = <<w>>
      BY <3>6, <3>8 DEF w
    <3> QED BY <3>7, <3>9
  <2> QED BY <2>1 DEF Blocks
<1>9. b.samples = z /\ b.sequence = j % c /\ b.runs = <<>> /\ b.zeros = z /\ b.left = top
  OBVIOUS
<1> HIDE DEF b
<1>10. B \in Seq(Block) /\ B # <<>> /\ Len(B) = 1 /\ B[1] = b /\ Last(B) = b
  BY <1>7 DEF Last
<1> HIDE DEF B
<1>11. NumCompleteBlocks(j % c, B) = 1
  <2>1. Room(j % c, B) = SamplesAt((j + 1) - 1) - b.samples
    BY <1>2, <1>10, LastIndexIs DEF c
  <2>2. (j + 1) - 1 = j
    BY <1>2
  <2>3. Room(j % c, B) = 0
    BY <2>1, <2>2, <1>6, <1>9 DEF z
  <2> QED BY <2>3, <1>6, <1>9, <1>10 DEF NumCompleteBlocks
<1>12. Len(packages) = 1 /\ Len(package) = 1
  <2>1. PICK p \in Package : package = <<p>>
    BY <1>1 DEF IsGiven
  <2> QED BY <2>1, <1>3
<1>13. PICK n : Writes(package, B, n)
  BY <1>8, FullBlocksAreWritten
<1>14. n = 1
  <2>1. n = Min({1, 1})
    BY <1>5, <1>11, <1>12, <1>13 DEF Writes
  <2> QED BY <2>1, LeastOfTwo
<1>15. /\ mAudioSequenceOffset' = mAudioSequenceOffset
       /\ mAudioSequenceIndex' = ((j % c) + 1) % c
       /\ mDuration' = U + 1
       /\ mAES3Blocks' = Remaining(B, 1)
  BY <1>2, <1>5, <1>13, <1>14 DEF Writes, IndexAfter, c
<1>16. /\ units' \in Seq(Unit) /\ Len(units') = U + 1
       /\ \A k \in 1 .. U : units'[k] = units[k]
       /\ units'[U + 1].block = b
       /\ \A f \in DOMAIN units'[U + 1].fills : units'[U + 1].fills[f] >= KLSize
       /\ mBufferedContentPackages' \in Seq(Package)
       /\ Len(mBufferedContentPackages') = 0
       /\ mDuration' \in 0 .. configuration.packages
       /\ UnitsInOrder'
  <2>1. \A k \in 1 .. 1 : B[k] \in Block /\ B[k].samples <= mMaxAudioSamples
    BY <1>6, <1>7, <1>9, <1>10 DEF top
  <2> HIDE DEF packages
  <2>2. 1 <= Len(mBufferedContentPackages \o package) /\ Writes(package, B, 1)
    BY <1>12, <1>13, <1>14 DEF packages
  <2>3. /\ units' \in Seq(Unit) /\ Len(units') = Len(units) + 1
        /\ \A k \in 1 .. Len(units) : units'[k] = units[k]
        /\ \A i \in 1 .. 1 : /\ units'[Len(units) + i].block = B[i]
                             /\ \A f \in DOMAIN units'[Len(units) + i].fills :
                                  units'[Len(units) + i].fills[f] >= KLSize
        /\ mBufferedContentPackages' \in Seq(Package)
        /\ Len(mBufferedContentPackages') = Len(mBufferedContentPackages \o package) - 1
        /\ mDuration' \in 0 .. configuration.packages
        /\ UnitsInOrder'
    BY <2>1, <2>2, <1>1, UnitsWritten
  <2> QED BY <2>3, <1>10, <1>12 DEF U, packages
<1>17. /\ (mAudioSequenceCount)' = c /\ ((HasAudio)' <=> HasAudio) /\ (mMaxAudioSamples)' = top
       /\ \A p : (SamplesAt(p))' = SamplesAt(p)
       /\ (Package)' = Package /\ (Unit)' = Unit
  BY <1>1, Same DEF Unit, c, top
<1>18. FirstIndex' = FirstIndex
  BY <1>15, <1>17 DEF FirstIndex, c
<1>19. WithoutAudio'
  <2>1. mAES3Blocks' = <<[NewBlock EXCEPT !.left = top]>>
    <3>1. mAES3Blocks' = <<Emptied(b)>>
      BY <1>10, <1>15 DEF Remaining
    <3>2. Max({b.zeros, b.left}) = top
      <4> DEFINE T == {z, top}
      <4>1. T \in SUBSET Nat /\ T # {} /\ \A y \in T : y <= top
        BY <1>6
      <4>2. \A x \in T : top \in T
        OBVIOUS
      <4> HIDE DEF T
      <4>3. Max(T) \in T /\ \A y \in T : y <= Max(T)
        BY <4>1, <1>6, MaxIsGreatest
      <4>4. Max(T) <= top /\ top <= Max(T) /\ Max(T) \in Nat
        BY <4>1, <4>2, <4>3
      <4>5. Max(T) = top
        BY <4>4, <1>6
      <4> QED BY <4>5, <1>9 DEF T
    <3> QED BY <3>1, <3>2 DEF Emptied
  <2>2. mDuration' # 0
    BY <1>2, <1>15
  <2>3. mBufferedContentPackages' = <<>>
    BY <1>16
  <2> QED BY <2>1, <2>2, <2>3, <1>17 DEF WithoutAudio
<1>20. WhileUnknown' /\ MemoryFollows' /\ BufferedForWant'
  BY <1>17 DEF WhileUnknown, OffsetIsUnknown, MemoryFollows, BufferedForWant
<1>21. OffsetIsFound' /\ OffsetIsKept'
  BY <1>3, <1>15, OffsetStays
<1>22. mAudioSequenceIndex' = (j + 1) % c
  <2>1. PICK m \in Nat : m = 2
    OBVIOUS
  <2>2. ((j % c) + (m - 1)) % c = ((j + m) - 1) % c
    <3> j \in Nat /\ IsConfigured /\ m > 0
      BY <1>2, <2>1
    <3> HIDE DEF j
    <3>1. ((j % mAudioSequenceCount) + (m - 1)) % mAudioSequenceCount = ((j + m) - 1) % mAudioSequenceCount
      BY IndexIs
    <3> QED BY <3>1 DEF c
  <2>3. m - 1 = 1 /\ (j + m) - 1 = j + 1
    BY <1>2, <2>1
  <2> QED BY <2>2, <2>3, <1>15
<1>23. IndexIsNext'
  <2>1. FirstIndex' + Len(units') = j + 1
    BY <1>2, <1>16, <1>18 DEF j
  <2> QED BY <2>1, <1>17, <1>22 DEF IndexIsNext
<1>24. UnitsAreFull'
  <2>1. ASSUME NEW k \in 1 .. Len(units') PROVE UnitIsFull(k)'
    <3>1. CASE k \in 1 .. U
      <4>1. UnitIsFull(k) /\ units'[k] = units[k]
        BY <3>1, <1>1, <1>16 DEF IInv, UnitsAreFull, U
      <4> QED BY <4>1, <1>17, <1>18 DEF UnitIsFull, c
    <3>2. CASE ~(k \in 1 .. U)
      <4>1. k = U + 1 /\ (FirstIndex + k) - 1 = j
        BY <3>2, <1>2, <1>16 DEF j
      <4>2. units'[k].block = b /\ \A f \in DOMAIN units'[k].fills : units'[k].fills[f] >= KLSize
        BY <4>1, <1>16
      <4> QED BY <4>1, <4>2, <1>9, <1>17, <1>18 DEF UnitIsFull, z
    <3> QED BY <3>1, <3>2
  <2> QED BY <2>1 DEF UnitsAreFull
<1>25. MemoryTyped'
  <2>1. mAudioSequenceIndex' \in 0 .. c - 1
    <3> DEFINE p == j + 1
    <3>1. p \in Nat
      BY <1>2
    <3> HIDE DEF p
    <3>2. (p % c) \in 0 .. c - 1
      BY <3>1, <1>2, IndexInSequence DEF c
    <3> QED BY <3>2, <1>22 DEF p
  <2>2. mAES3Blocks' \in Seq(Block) /\ mAES3Blocks' # <<>>
    <3>1. mAES3Blocks' = <<[NewBlock EXCEPT !.left = top]>>
      BY <1>2, <1>15, <1>17, <1>19 DEF WithoutAudio
    <3>2. [NewBlock EXCEPT !.left = top] \in Block
      <4> DEFINE r == <<>>
                 o == 0
                 N == None
                 w == [NewBlock EXCEPT !.left = top]
      <4>1. NewBlock = [sequence |-> N, samples |-> o, runs |-> r, zeros |-> o, left |-> o]
        BY DEF NewBlock
      <4>2. N \in {None} \cup 0 .. 4 /\ r \in Seq(Nat \X Nat) /\ o \in Nat /\ top \in Nat
        BY <1>6
      <4> HIDE DEF r, o, N
      <4>3. w = [sequence |-> N, samples |-> o, runs |-> r, zeros |-> o, left |-> top]
        BY <4>1
      <4> HIDE DEF w
      <4>4. w \in Block
        BY <4>2, <4>3 DEF Block
      <4> QED BY <4>4 DEF w
    <3> QED BY <3>1, <3>2
  <2>3. mAudioSequenceOffset' \in 0 .. 255
    BY <1>1, <1>15 DEF IInv, TypeOK
  <2> QED BY <2>1, <2>2, <2>3, <1>1, <1>16, <1>17 DEF MemoryTyped
<1> QED BY <1>16, <1>19, <1>20, <1>21, <1>23, <1>24, <1>25 DEF InMemory

LEMMA WriteGives ==
  ASSUME NEW package, IsStep(package), Write(package),
         package = <<>> => mBufferedContentPackages # <<>>
  PROVE  InMemory'
<1>1. IInv
  BY DEF IsStep
<1>2. CASE OffsetIsUnknown /\ package # <<>> /\ Len(mBufferedContentPackages) + 1 <= mAudioSequenceCount
  BY <1>2, PackageIsBuffered DEF Write
<1>3. CASE ~(OffsetIsUnknown /\ package # <<>> /\ Len(mBufferedContentPackages) + 1 <= mAudioSequenceCount)
  <2>1. WriteFullBlocks(package)
    BY <1>3 DEF Write
  <2>2. CASE HasAudio
    <3>1. OffsetIsUnknown => package = <<>> \/ Len(mBufferedContentPackages) + 1 > mAudioSequenceCount
      <4>1. IsConfigured /\ Len(mBufferedContentPackages) \in Nat
        BY <1>1, UnitsTyped
      <4>2. mAudioSequenceCount \in {1, 5}
        BY <4>1, BlocksHaveSamples
      <4> QED BY <4>1, <4>2, <1>3
    <3> QED BY <3>1, <2>1, <2>2, AudioIsWritten
  <2>3. CASE ~HasAudio
    <3>1. package # <<>>
      BY <1>1, <2>3 DEF IInv, WithoutAudio
    <3> QED BY <3>1, <2>1, <2>3, NullsAreWritten
  <2> QED BY <2>2, <2>3
<1> QED BY <1>2, <1>3


-----------------------------------------------------------------------------
(* Timecodes.  Adding the numbers that are skipped settles at the least      *)
(* number that is skipped before the count with it.                          *)

\* From s on, the numbers that are added settle.
IsSettling(f, g) == f = [s \in Nat |-> IF g[s] = s THEN g[s] ELSE f[g[s]]]

\* The numbers added grow with those added before, and not without end.
IsGrowing(g) ==
  /\ g \in [Nat -> Nat]
  /\ \A x, y \in Nat : x <= y => g[x] <= g[y]
  /\ \A s \in Nat : \E x \in Nat : s <= x /\ g[x] <= x

\* The loop ends, wherever it begins.
LEMMA SettlingExists ==
  ASSUME NEW g, IsGrowing(g)
  PROVE  \E f : IsSettling(f, g)
<1> DEFINE Up(s) == {x \in Nat : s <= x /\ g[x] <= x}
           Down(s) == {x \in Nat : x <= s /\ x <= g[x]}
           f == [s \in Nat |-> IF s <= g[s] THEN Min(Up(s)) ELSE Max(Down(s))]
<1>1. /\ \A s \in Nat : g[s] \in Nat
      /\ \A x, y \in Nat : x <= y => g[x] <= g[y]
      /\ \A s \in Nat : \E x \in Nat : s <= x /\ g[x] <= x
  BY DEF IsGrowing
<1>2. ASSUME NEW s \in Nat, s < g[s] PROVE f[s] = f[g[s]]
  <2>1. g[s] \in Nat /\ g[s] <= g[g[s]]
    BY <1>1, <1>2
  <2>2. Up(s) = Up(g[s])
    <3>1. ASSUME NEW x \in Nat, s <= x, g[x] <= x PROVE g[s] <= x
      <4>1. g[s] <= g[x] /\ g[s] \in Nat /\ g[x] \in Nat
        BY <1>1, <3>1
      <4> QED BY <4>1, <3>1
    <3>2. ASSUME NEW x \in Nat, g[s] <= x PROVE s <= x
      BY <2>1, <1>2, <3>2
    <3> QED BY <3>1, <3>2
  <2> QED BY <2>1, <2>2, <1>2
<1>3. ASSUME NEW s \in Nat, g[s] = s PROVE f[s] = s
  <2>1. s \in Up(s) /\ \A x \in Up(s) : s <= x
    BY <1>3
  <2>2. Min(Up(s)) \in Up(s) /\ \A y \in Up(s) : Min(Up(s)) <= y
    <3> Up(s) \in SUBSET Nat
      OBVIOUS
    <3> HIDE DEF Up
    <3> QED BY <2>1, MinIsLeast
  <2>3. Min(Up(s)) = s
    <3>1. Min(Up(s)) \in Nat /\ Min(Up(s)) <= s /\ s <= Min(Up(s))
      BY <2>1, <2>2
    <3> QED BY <3>1
  <2> QED BY <2>3, <1>3
<1>4. ASSUME NEW s \in Nat, g[s] < s PROVE f[s] = f[g[s]]
  <2>1. g[s] \in Nat /\ g[g[s]] \in Nat /\ g[g[s]] <= g[s]
    BY <1>1, <1>4
  <2>2. Down(s) = Down(g[s])
    <3>1. ASSUME NEW x \in Nat, x <= s, x <= g[x] PROVE x <= g[s]
      <4>1. g[x] <= g[s] /\ g[s] \in Nat /\ g[x] \in Nat
        BY <1>1, <3>1
      <4> QED BY <4>1, <3>1
    <3>2. ASSUME NEW x \in Nat, x <= g[s] PROVE x <= s
      BY <2>1, <1>4, <3>2
    <3> QED BY <3>1, <3>2
  <2>3. f[s] = Max(Down(s))
    BY <1>4, <2>1
  <2>4. CASE g[g[s]] = g[s]
    <3> DEFINE t == g[s]
    <3>1. f[t] = t
      BY <1>3, <2>1, <2>4
    <3>2. t \in Nat /\ t \in Down(t) /\ Down(t) \in SUBSET Nat /\ \A x \in Down(t) : x <= t
      BY <2>1, <2>4
    <3>3. Max(Down(t)) \in Down(t) /\ \A y \in Down(t) : y <= Max(Down(t))
      <4> HIDE DEF Down, t
      <4> QED BY <3>2, MaxIsGreatest
    <3>4. Max(Down(t)) = t
      <4>1. Max(Down(t)) \in Nat /\ Max(Down(t)) <= t /\ t <= Max(Down(t))
        BY <3>2, <3>3
      <4> QED BY <4>1, <3>2
    <3> QED BY <3>1, <3>4, <2>2, <2>3
  <2>5. CASE g[g[s]] # g[s]
    <3>1. ~(g[s] <= g[g[s]])
      BY <2>1, <2>5
    <3> QED BY <3>1, <2>1, <2>2, <2>3
  <2> QED BY <2>4, <2>5
<1>5. f = [s \in Nat |-> IF g[s] = s THEN g[s] ELSE f[g[s]]]
  <2>1. ASSUME NEW s \in Nat PROVE f[s] = IF g[s] = s THEN g[s] ELSE f[g[s]]
    <3>1. g[s] \in Nat
      BY <1>1
    <3>2. s < g[s] \/ g[s] = s \/ g[s] < s
      BY <3>1
    <3> HIDE DEF f
    <3> QED BY <3>2, <1>2, <1>3, <1>4
  <2>2. f = [s \in Nat |-> f[s]]
    OBVIOUS
  <2> HIDE DEF f
  <2> QED BY <2>1, <2>2
<1> HIDE DEF f
<1> QED BY <1>5 DEF IsSettling

\* From 0 it ends with the least number at which it can.
LEMMA SettlesAtLeast ==
  ASSUME NEW g, IsGrowing(g), NEW f, IsSettling(f, g)
  PROVE  /\ f[0] \in Nat /\ g[f[0]] = f[0]
         /\ \A x \in Nat : g[x] = x => f[0] <= x
<1> DEFINE Ends == {x \in Nat : g[x] <= x}
<1>1. /\ \A s \in Nat : g[s] \in Nat
      /\ \A x, y \in Nat : x <= y => g[x] <= g[y]
      /\ \A s \in Nat : \E x \in Nat : s <= x /\ g[x] <= x
  BY DEF IsGrowing
<1>2. Ends # {}
  BY <1>1
<1>3. PICK l \in Ends : \A y \in Ends : l <= y
  BY <1>2, LeastNatural
<1>4. l \in Nat /\ g[l] = l
  <2>1. l \in Nat /\ g[l] \in Nat /\ g[l] <= l /\ g[g[l]] \in Nat
    BY <1>1, <1>3
  <2>2. g[g[l]] <= g[l]
    BY <1>1, <2>1
  <2>3. g[l] \in Ends
    BY <2>1, <2>2
  <2>4. l <= g[l]
    BY <1>3, <2>3
  <2> QED BY <2>1, <2>4
<1>5. \A x \in Nat : g[x] = x => l <= x
  BY <1>3
<1> HIDE DEF Ends
<1> DEFINE S == {d \in Nat : \A x \in Nat : x + d = l /\ x <= g[x] => f[x] = l}
<1>6. ASSUME NEW d \in Nat, \A e \in Nat : e < d => e \in S PROVE d \in S
  <2> SUFFICES ASSUME NEW x \in Nat, x + d = l, x <= g[x] PROVE f[x] = l
    OBVIOUS
  <2>1. f[x] = IF g[x] = x THEN g[x] ELSE f[g[x]]
    BY DEF IsSettling
  <2>2. g[x] \in Nat /\ x <= l
    BY <1>1
  <2>3. CASE g[x] = x
    <3>1. l <= x
      BY <1>5, <2>3
    <3> QED BY <3>1, <2>1, <2>2, <2>3, <1>4
  <2>4. CASE g[x] # x
    <3> DEFINE t == g[x]
    <3>1. t \in Nat /\ x < t /\ t <= g[t]
      BY <1>1, <2>2, <2>4
    <3>2. t <= l
      BY <1>1, <1>4, <2>2
    <3>3. l - t \in Nat /\ l - t < d /\ t + (l - t) = l
      BY <3>1, <3>2, <1>4
    <3>4. f[t] = l
      BY <3>1, <3>3, <1>6
    <3> QED BY <3>4, <2>1, <2>4
  <2> QED BY <2>3, <2>4
<1>7. \A d \in Nat : d \in S
  <2> HIDE DEF S
  <2> QED BY <1>6, StrongInductionOnNat
<1>8. 0 + l = l /\ 0 <= g[0]
  BY <1>1, <1>4
<1>9. f[0] = l
  BY <1>4, <1>7, <1>8
<1> QED BY <1>4, <1>5, <1>9


\* The numbers skipped before minute m after midnight, of those of drop-frame timecode.
SkippedTo(m) == 2 * (m - (m \div 10))

LEMMA MinutesAre ==
  ASSUME NEW c \in Nat
  PROVE  /\ c \div (60 * 1800) \in Nat /\ c \div 1800 \in Nat
         /\ (c % (60 * 1800)) \div 1800 = (c \div 1800) % 60
         /\ 60 * (c \div (60 * 1800)) + ((c \div 1800) % 60) = c \div 1800
<1>1. PICK h \in Nat, r \in Nat : r < (60 * 1800) /\ c = (60 * 1800) * h + r /\ h = c \div (60 * 1800) /\ r = c % (60 * 1800)
  BY SMTT(30)
<1>2. PICK m \in Nat, q \in Nat : q < 1800 /\ r = 1800 * m + q /\ m = r \div 1800
  BY SMTT(30)
<1>3. m < 60
  BY <1>1, <1>2
<1>4. c \div 1800 = 60 * h + m
  BY <1>1, <1>2
<1>5. (60 * h + m) % 60 = m
  BY <1>3
<1> QED BY <1>1, <1>2, <1>4, <1>5

LEMMA SkippedIs ==
  ASSUME NEW c \in Nat
  PROVE  SkippedBefore(c \div (60 * 1800), (c % (60 * 1800)) \div 1800) = SkippedTo(c \div 1800)
<1> DEFINE m == c \div 1800
           h == c \div (60 * 1800)
           u == m % 60
<1>1. h \in Nat /\ m \in Nat /\ (c % (60 * 1800)) \div 1800 = u /\ 60 * h + u = m /\ u \in Nat
  BY MinutesAre
<1> HIDE DEF m, h, u
<1>2. PICK t \in Nat, d \in 0 .. 9 : u = 10 * t + d /\ t = u \div 10 /\ d = u % 10
  BY <1>1
<1>3. m \div 10 = 6 * h + t
  BY <1>1, <1>2
<1>4. SkippedBefore(h, u) = 108 * h + 18 * t + 2 * d
  BY <1>1, <1>2 DEF SkippedBefore
<1>5. SkippedTo(m) = 2 * ((60 * h + (10 * t + d)) - (6 * h + t))
  BY <1>1, <1>2, <1>3 DEF SkippedTo
<1> QED BY <1>1, <1>2, <1>4, <1>5 DEF m, h

LEMMA SkippedGrows ==
  ASSUME NEW m \in Nat, NEW n \in Nat, m <= n
  PROVE  SkippedTo(m) \in Nat /\ SkippedTo(m) <= SkippedTo(n) /\ SkippedTo(m) <= 2 * m
<1>1. PICK a \in Nat, d \in 0 .. 9 : m = 10 * a + d /\ a = m \div 10
  OBVIOUS
<1>2. PICK b \in Nat, e \in 0 .. 9 : n = 10 * b + e /\ b = n \div 10
  OBVIOUS
<1>3. SkippedTo(m) = 18 * a + 2 * d /\ SkippedTo(n) = 18 * b + 2 * e
  BY <1>1, <1>2 DEF SkippedTo
<1> QED BY <1>1, <1>2, <1>3

\* The numbers that are skipped before the count with s others.
Skips(count) == [s \in Nat |-> SkippedTo((count + s) \div 1800)]

LEMMA SkipsGrow ==
  ASSUME NEW count \in Nat
  PROVE  IsGrowing(Skips(count))
<1> DEFINE g == Skips(count)
<1>1. ASSUME NEW s \in Nat PROVE (count + s) \div 1800 \in Nat /\ g[s] = SkippedTo((count + s) \div 1800)
  BY DEF Skips
<1>2. g \in [Nat -> Nat]
  <2>1. ASSUME NEW s \in Nat PROVE SkippedTo((count + s) \div 1800) \in Nat
    BY SMTT(60), <1>1, SkippedGrows
  <2> QED BY SMTT(60), <2>1 DEF Skips
<1> HIDE DEF g
<1>3. ASSUME NEW x \in Nat, NEW y \in Nat, x <= y PROVE g[x] <= g[y]
  <2>1. (count + x) \div 1800 <= (count + y) \div 1800
    BY <1>3
  <2> QED BY <2>1, <1>1, SkippedGrows
<1>4. ASSUME NEW s \in Nat PROVE \E x \in Nat : s <= x /\ g[x] <= x
  <2> DEFINE x == count + s
             m == (count + x) \div 1800
  <2>1. x \in Nat /\ s <= x /\ 2 * m <= x
    OBVIOUS
  <2>2. m \in Nat /\ g[x] = SkippedTo(m)
    BY <1>1
  <2> HIDE DEF m, x
  <2>3. g[x] <= 2 * m /\ g[x] \in Nat
    BY <2>2, SkippedGrows
  <2>4. g[x] <= x
    BY <2>1, <2>2, <2>3
  <2> QED BY <2>1, <2>4
<1> QED BY <1>2, <1>3, <1>4 DEF IsGrowing, g

\* The least number of frames that are skipped before the count with them.
IsLeastSkipped(count, l) ==
  /\ SkippedTo((count + l) \div 1800) = l
  /\ \A x \in Nat : SkippedTo((count + x) \div 1800) = x => l <= x

\* At 60i the loop ends with the least number of frames skipped before the count with them.
LEMMA DropFrameCountIs ==
  ASSUME NEW count \in Nat, Is60I
  PROVE  \E l \in Nat : DropFrameCount(count) = count + l /\ IsLeastSkipped(count, l)
<1> DEFINE g == Skips(count)
           perMinute == 60 * Rate.timecodeBase
           Skipped(c) == SkippedBefore(c \div (60 * perMinute), (c % (60 * perMinute)) \div perMinute)
           Settle[skipped \in Nat] ==
             LET next == Skipped(count + skipped)
             IN IF next = skipped THEN next ELSE Settle[next]
<1>1. DropFrameCount(count) = count + Settle[0]
  BY DEF DropFrameCount
<1>2. \A s \in Nat : Skipped(count + s) = g[s]
  <2>1. perMinute = 1800
    BY DEF Is60I
  <2> HIDE DEF perMinute
  <2> QED BY <2>1, SkippedIs DEF Skips
<1>3. IsGrowing(g)
  BY SkipsGrow
<1>4. \E f : IsSettling(f, g)
  BY <1>3, SettlingExists
<1> HIDE DEF g, perMinute
<1>5. \A f : IsSettling(f, g) <=>
        f = [s \in Nat |-> LET next == Skipped(count + s) IN IF next = s THEN next ELSE f[next]]
  BY <1>2 DEF IsSettling
<1> DEFINE Settles(f) == f = [s \in Nat |-> LET next == Skipped(count + s) IN IF next = s THEN next ELSE f[next]]
<1>6. Settle = CHOOSE f : Settles(f)
  OBVIOUS
<1> HIDE DEF Settle, Settles
<1>7. Settles(Settle)
  <2>1. \E f : Settles(f)
    BY <1>4, <1>5 DEF Settles
  <2> QED BY <2>1, <1>6
<1>8. IsSettling(Settle, g)
  BY <1>5, <1>7 DEF Settles
<1>9. /\ Settle[0] \in Nat /\ g[Settle[0]] = Settle[0]
      /\ \A x \in Nat : g[x] = x => Settle[0] <= x
  BY <1>3, <1>8, SettlesAtLeast
<1>10. \A x \in Nat : g[x] = SkippedTo((count + x) \div 1800)
  BY DEF g, Skips
<1> DEFINE l == Settle[0]
<1> HIDE DEF l
<1>11. DropFrameCount(count) = count + l /\ l \in Nat /\ g[l] = l /\ \A x \in Nat : g[x] = x => l <= x
  BY <1>1, <1>9 DEF l
<1>12. IsLeastSkipped(count, l)
  BY <1>10, <1>11 DEF IsLeastSkipped
<1> QED BY <1>11, <1>12


\* The numbers of a timecode are those of its count of frames.
LEMMA NumbersOfCount ==
  ASSUME NEW n \in Nat, NEW base \in {25, 30}
  PROVE  /\ n \div (60 * 60 * base) \in Nat /\ (n \div (60 * base)) % 60 \in Nat
         /\ (n \div base) % 60 \in Nat /\ n % base \in Nat
         /\ 60 * (n \div (60 * 60 * base)) + ((n \div (60 * base)) % 60) = n \div (60 * base)
         /\ (60 * (n \div (60 * base)) + ((n \div base) % 60)) * base + (n % base) = n
<1>1. PICK s \in Nat, f \in Nat : f < base /\ n = base * s + f /\ s = n \div base /\ f = n % base
  <2>1. CASE base = 25
    BY <2>1
  <2>2. CASE base = 30
    BY <2>2
  <2> QED BY <2>1, <2>2
<1>2. PICK m \in Nat, q \in Nat : q < 60 /\ s = 60 * m + q /\ q = s % 60
  OBVIOUS
<1>3. PICK h \in Nat, r \in Nat : r < 60 /\ m = 60 * h + r /\ r = m % 60
  OBVIOUS
<1>4. n \div (60 * base) = m
  <2>1. CASE base = 25
    BY <1>1, <1>2, <2>1
  <2>2. CASE base = 30
    BY <1>1, <1>2, <2>2
  <2> QED BY <2>1, <2>2
<1>5. n \div (60 * 60 * base) = h
  <2>1. CASE base = 25
    <3>1. n = 25 * (60 * (60 * h + r) + q) + f /\ 25 * (60 * r + q) + f < 60 * 60 * 25
      BY <1>1, <1>2, <1>3, <2>1
    <3> QED BY <1>1, <1>2, <1>3, <2>1, <3>1
  <2>2. CASE base = 30
    <3>1. n = 30 * (60 * (60 * h + r) + q) + f /\ 30 * (60 * r + q) + f < 60 * 60 * 30
      BY <1>1, <1>2, <1>3, <2>2
    <3> QED BY <1>1, <1>2, <1>3, <2>2, <3>1
  <2> QED BY <2>1, <2>2
<1>6. (60 * m + q) * base + f = n
  <2>1. CASE base = 25
    BY <1>1, <1>2, <2>1
  <2>2. CASE base = 30
    BY <1>1, <1>2, <2>2
  <2> QED BY <2>1, <2>2
<1>7. /\ n \div (60 * 60 * base) = h /\ (n \div (60 * base)) % 60 = r
      /\ (n \div base) % 60 = q /\ n % base = f
  BY ZenonT(60), <1>1, <1>2, <1>3, <1>4, <1>5
<1> QED BY ZenonT(60), <1>1, <1>2, <1>3, <1>4, <1>6, <1>7

\* The frame of a timecode made of n, at the rate's base.
TimecodeOf(n) ==
  << n \div (60 * 60 * Rate.timecodeBase), (n \div (60 * Rate.timecodeBase)) % 60,
     (n \div Rate.timecodeBase) % 60, n % Rate.timecodeBase >>

LEMMA TimecodeOfIs ==
  ASSUME IsConfigured, NEW n \in Nat
  PROVE  /\ TimecodeOf(n) \in Timecode
         /\ FrameOf(TimecodeOf(n)) =
              n - IF DropsFrames THEN SkippedTo(n \div (60 * Rate.timecodeBase)) ELSE 0
<1> DEFINE base == Rate.timecodeBase
           h == n \div (60 * 60 * base)
           m == (n \div (60 * base)) % 60
           s == (n \div base) % 60
           f == n % base
           M == n \div (60 * base)
<1>1. base \in {25, 30}
  BY RateIs DEF Is50I, Is60I
<1>2. /\ h \in Nat /\ m \in Nat /\ s \in Nat /\ f \in Nat
      /\ 60 * h + m = M /\ (60 * M + s) * base + f = n
  <2> HIDE DEF base
  <2> QED BY <1>1, NumbersOfCount
<1>3. TimecodeOf(n) = <<h, m, s, f>>
  BY DEF TimecodeOf
<1> HIDE DEF h, m, s, f, M
<1>4. FrameOf(TimecodeOf(n)) =
        (60 * (60 * h + m) + s) * base + f - (IF DropsFrames THEN 2 * ((60 * h + m) - (60 * h + m) \div 10) ELSE 0)
  BY <1>3 DEF FrameOf
<1>5. TimecodeOf(n) \in Timecode
  BY <1>2, <1>3 DEF Timecode
<1> DEFINE x == IF DropsFrames THEN SkippedTo(M) ELSE 0
           k == (60 * M + s) * base
<1>6. FrameOf(TimecodeOf(n)) = k + (f - x)
  BY <1>2, <1>4 DEF SkippedTo
<1>7. x \in Int /\ k + f = n /\ k \in Int
  <2>1. M \in Nat /\ M \div 10 \in Nat
    BY <1>2
  <2>2. SkippedTo(M) \in Int
    BY <2>1 DEF SkippedTo
  <2>3. k \in Int
    BY <1>1, <1>2, <2>1
  <2> HIDE DEF k
  <2>4. x \in Int
    BY <2>2
  <2> QED BY <1>2, <2>3, <2>4 DEF k
<1> HIDE DEF x, k
<1>8. k + (f - x) = n - x
  BY <1>2, <1>7
<1> QED BY <1>5, <1>6, <1>8 DEF x, M

LEMMA UserTimecodeIs ==
  ASSUME IsConfigured, mDuration \in Nat
  PROVE  GenerateUserTimecode \in Timecode /\ TimecodeIsExact
<1> DEFINE count == configuration.start + mDuration
           number == IF DropsFrames THEN DropFrameCount(count) ELSE count
<1>1. count \in Nat
  BY ConfigurationAssumption DEF IsConfigured
<1>2. GenerateUserTimecode = TimecodeOf(number)
  BY DEF GenerateUserTimecode, TimecodeOf
<1>3. CASE ~DropsFrames
  <2>1. number = count
    BY <1>3
  <2> HIDE DEF count, number
  <2>2. TimecodeOf(number) \in Timecode /\ FrameOf(TimecodeOf(number)) = count
    BY <1>1, <1>3, <2>1, TimecodeOfIs
  <2> QED BY <1>2, <1>3, <2>2 DEF TimecodeIsExact, IsDropped, count
<1>4. CASE DropsFrames
  <2>1. Is60I
    BY <1>4, RateIs DEF DropsFrames, Is50I
  <2> HIDE DEF count
  <2>a. PICK l \in Nat : DropFrameCount(count) = count + l /\ IsLeastSkipped(count, l)
    BY ONLY <1>1, <2>1, DropFrameCountIs
  <2>2. /\ DropFrameCount(count) = count + l
        /\ SkippedTo((count + l) \div 1800) = l
        /\ \A x \in Nat : SkippedTo((count + x) \div 1800) = x => l <= x
    BY ONLY <2>a DEF IsLeastSkipped
  <2> DEFINE M == number \div 1800
  <2>3. number = count + l /\ number \in Nat /\ M \in Nat
    BY <1>1, <1>4, <2>2
  <2> HIDE DEF number
  <2>4. Rate.timecodeBase = 30
    BY <2>1 DEF Is60I
  <2>5. number \div (60 * Rate.timecodeBase) = M
    BY <2>4
  <2>6. TimecodeOf(number) \in Timecode /\ FrameOf(TimecodeOf(number)) = count
    <3>1. SkippedTo(M) = l
      BY <2>2, <2>3
    <3>2. FrameOf(TimecodeOf(number)) = number - l
      BY <1>4, <2>3, <2>5, <3>1, TimecodeOfIs
    <3>3. TimecodeOf(number) \in Timecode
      BY <2>3, TimecodeOfIs
    <3> HIDE DEF M
    <3> QED BY <1>1, <2>3, <3>2, <3>3
  <2>7. ~IsDropped(TimecodeOf(number))
    <3> SUFFICES ASSUME IsDropped(TimecodeOf(number)) PROVE FALSE
      OBVIOUS
    <3>1. (M % 60) % 10 # 0 /\ (number \div 30) % 60 = 0 /\ number % 30 < 2
      BY <2>4, <2>5 DEF IsDropped, TimecodeOf
    <3>2. M \in Nat /\ number = 1800 * M + (number % 30)
      BY <2>3, <3>1
    <3> DEFINE r == number % 30
    <3>3. r \in Nat /\ r < 2 /\ number = 1800 * M + r
      BY <2>3, <3>1, <3>2
    <3>4. PICK a \in Nat, d \in 1 .. 9 : M = 10 * a + d
      <4>1. M \in Nat /\ (M % 60) % 10 # 0
        BY <3>1, <3>2
      <4> HIDE DEF M
      <4>2. PICK b \in Nat, u \in Nat : u < 60 /\ M = 60 * b + u /\ u = M % 60
        BY <4>1
      <4>3. PICK c \in Nat, e \in Nat : e < 10 /\ u = 10 * c + e /\ e = u % 10
        BY <4>2
      <4>4. M = 10 * (6 * b + c) + e /\ 6 * b + c \in Nat /\ e \in 1 .. 9
        <5>4. b \in Nat /\ c \in Nat /\ e \in Nat /\ u = 10 * c + e
          BY <4>2, <4>3
        <5>5. M = 60 * b + u
          BY <4>2
        <5>6. M = 60 * b + (10 * c + e)
          BY <5>4, <5>5
        <5>7. 6 * b + c \in Nat
          BY <5>4
        <5>1. M = 60 * b + (10 * c + e) /\ 6 * b + c \in Nat
          BY <5>6, <5>7
        <5>2. M = 10 * (6 * b + c) + e
          BY <5>1
        <5>3. e # 0
          BY <4>1, <4>2, <4>3
        <5> QED BY <5>1, <5>2, <5>3, <4>3
      <4> QED BY <4>4
    <3>5. SkippedTo(M) = 2 * (M - a) /\ SkippedTo(M - 1) = 2 * ((M - 1) - a)
      BY <3>4 DEF SkippedTo
    <3> HIDE DEF r, M
    <3>6. l = 2 * (M - a) /\ l - 2 \in Nat /\ SkippedTo(M - 1) = l - 2
      BY <2>2, <2>3, <3>4, <3>5 DEF M
    <3>7. (count + (l - 2)) \div 1800 = M - 1
      <4>1. count + (l - 2) = 1800 * (M - 1) + (r + 1798)
        BY <1>1, <2>3, <3>3, <3>2
      <4>2. M - 1 \in Nat /\ r + 1798 \in Nat /\ r + 1798 < 1800
        BY <3>3, <3>4
      <4> QED BY <4>1, <4>2
    <3>8. l <= l - 2
      BY <2>2, <3>6, <3>7
    <3> QED BY <2>2, <3>8
  <2> QED BY <1>2, <2>6, <2>7 DEF TimecodeIsExact, count
<1> QED BY <1>3, <1>4


-----------------------------------------------------------------------------
(* The invariant holds at first, and every action preserves it *)

\* No package has been given.
NothingGiven ==
  /\ IsConfigured
  /\ given = <<>> /\ units = <<>> /\ mDuration = 0
  /\ mBufferedContentPackages = <<>> /\ mAES3Blocks = <<NewBlock>>
  /\ mAudioSequenceOffset = configuration.offset
  /\ mAudioSequenceIndex \in 0 .. mAudioSequenceCount - 1
  /\ OffsetIsUnknown => mAudioSequenceIndex = 0
  /\ mMXFFile \in {"none", "open"}
  /\ mMXFFile # "none" /\ ~OffsetIsUnknown => mAudioSequenceIndex = FirstIndex % mAudioSequenceCount

LEMMA NothingGivenGives == NothingGiven => InMemory
<1> SUFFICES ASSUME NothingGiven PROVE InMemory
  OBVIOUS
<1>1. /\ IsConfigured
      /\ given = <<>> /\ units = <<>> /\ mDuration = 0
      /\ mBufferedContentPackages = <<>> /\ mAES3Blocks = <<NewBlock>>
      /\ mAudioSequenceOffset = configuration.offset
      /\ mAudioSequenceIndex \in 0 .. mAudioSequenceCount - 1
      /\ OffsetIsUnknown => mAudioSequenceIndex = 0
      /\ mMXFFile \in {"none", "open"}
      /\ mMXFFile # "none" /\ ~OffsetIsUnknown => mAudioSequenceIndex = FirstIndex % mAudioSequenceCount
  BY DEF NothingGiven
<1>2. /\ configuration.offset \in 0 .. 255 /\ configuration.packages \in Nat
      /\ NewBlock \in Block /\ Len(units) = 0 /\ Len(given) = 0
  BY <1>1, NewBlockFits, ConfigurationAssumption DEF IsConfigured
<1>3. mAudioSequenceOffset \in 0 .. 255 /\ FirstIndex \in Nat
  BY <1>1, <1>2, FirstIndexIn
<1>4. MemoryTyped
  <2>1. mBufferedContentPackages \in Seq(Package) /\ units \in Seq(Unit)
        /\ mAES3Blocks \in Seq(Block) /\ mAES3Blocks # <<>>
    BY <1>1, <1>2
  <2> QED BY <2>1, <1>1, <1>2, <1>3 DEF MemoryTyped
<1>5. UnitsInOrder
  BY <1>1 DEF UnitsInOrder
<1>6. WhileUnknown
  <2>1. mAudioSequenceCount \in {1, 5}
    BY <1>1, BlocksHaveSamples
  <2> HIDE DEF mAudioSequenceCount
  <2> QED BY <1>1, <2>1 DEF WhileUnknown
<1>7. WithoutAudio
  <2>1. [NewBlock EXCEPT !.left = 0] = NewBlock
    BY DEF NewBlock
  <2> QED BY <1>1, <2>1 DEF WithoutAudio
<1>8. IndexIsNext
  <2>1. FirstIndex + Len(units) = FirstIndex
    BY <1>2, <1>3
  <2> QED BY <1>1, <2>1 DEF IndexIsNext
<1>9. UnitsAreFull
  <2>1. 1 .. Len(units) = {}
    BY <1>2
  <2> QED BY <2>1 DEF UnitsAreFull
<1>10. MemoryFollows
  <2> DEFINE f == FirstIndex
             next == f + Len(units)
  <2>1. next = f
    BY <1>2, <1>3
  <2>2. Padding = 0
    BY <1>1 DEF Padding
  <2>3. SamplesGiven = 0
    <3>1. given \in Seq(Nat)
      BY <1>1
    <3>2. SumTo(given, 0) = 0
      BY <3>1, SumsAre
    <3> QED BY <3>2, <1>2, SamplesGivenIs
  <2>4. mAES3Blocks[Len(mAES3Blocks)] = NewBlock /\ Len(mAES3Blocks) = 1
    BY <1>1
  <2>5. NewBlock.samples = 0 /\ NewBlock.zeros = 0 /\ NewBlock.runs = <<>>
    BY DEF NewBlock
  <2> HIDE DEF f, next
  <2>6. f \in Nat /\ f <= f
    BY <1>3 DEF f
  <2>7. BlockAt(NewBlock, f, f) /\ Total(f) \in Nat
    BY <1>1, <2>6, NewBlockFits, TotalGrows
  <2>8. LaidOut(mAES3Blocks, f, f)
    <3>1. \A k \in 1 .. 1 : mAES3Blocks[k] = NewBlock /\ (f + k) - 1 = f
      BY <1>1, <2>6
    <3>2. 1 .. 1 - 1 = {}
      OBVIOUS
    <3>3. mAES3Blocks \in Seq(Block) /\ mAES3Blocks # <<>>
      BY <1>1, <1>2
    <3> QED BY <2>4, <2>7, <3>1, <3>2, <3>3 DEF LaidOut
  <2>9. EndOf(mAES3Blocks, f, f) = 0
    <3>1. (f + 1) - 1 = f
      BY <2>6
    <3> QED BY <3>1, <2>4, <2>5, <2>7 DEF EndOf
  <2>10. SamplesGiven = EndOf(mAES3Blocks, f, f) - Padding
    BY <2>2, <2>3, <2>9
  <2> QED BY <2>1, <2>2, <2>4, <2>5, <2>8, <2>10 DEF MemoryFollows, f, next
<1>11. BufferedForWant
  BY <1>1 DEF BufferedForWant
<1>12. OffsetIsFound /\ OffsetIsKept
  BY <1>1 DEF OffsetIsFound, OffsetIsKept, OffsetIsUnknown
<1> QED BY <1>4, <1>5, <1>6, <1>7, <1>8, <1>9, <1>10, <1>11, <1>12 DEF InMemory

\* What is not in memory or in the file of the audio.
Around ==
  /\ configuration \in Configurations
  /\ mMXFFile \in {"none", "open", "completed"}
  /\ mContentPackage \in Package
  /\ durations \in [SetsWithDuration \cup {IndexTable} -> -1 .. configuration.packages]
  /\ given \in Seq(Nat)
  /\ mMXFFile = "completed" => \A s \in DOMAIN durations : durations[s] = Len(units)
  /\ NextIsAssembled
  /\ NotCreated

LEMMA PartsOfInvariant == IInv <=> InMemory /\ Around
BY DEF IInv, InMemory, Around, TypeOK, EditUnitsInOrder, MemoryTyped, UnitsInOrder

LEMMA InitGives == Init => IInv
<1> SUFFICES ASSUME Init PROVE IInv
  OBVIOUS
<1>1. IsConfigured /\ configuration.packages \in Nat
  BY ConfigurationAssumption DEF Init, IsConfigured
<1>2. mAudioSequenceCount \in {1, 5}
  BY <1>1, BlocksHaveSamples
<1>3. NothingGiven
  <2>1. 0 \in 0 .. mAudioSequenceCount - 1
    <3> HIDE DEF mAudioSequenceCount
    <3> QED BY <1>2
  <2> QED BY <1>1, <2>1 DEF Init, NothingGiven
<1>4. NoPackage \in Package /\ NoPackage.video = None /\ NoPackage.tracks = {} /\ NoPackage.samples = 0
  BY DEF NoPackage, Package, NoTimecode, Timecode, None
<1>5. Around
  <2>1. durations \in [SetsWithDuration \cup {IndexTable} -> -1 .. configuration.packages]
    <3>1. None \in -1 .. configuration.packages
      BY <1>1 DEF None
    <3> QED BY <3>1 DEF Init
  <2>2. NextIsAssembled
    BY <1>4 DEF Init, NextIsAssembled
  <2>3. NotCreated
    BY DEF Init, NotCreated
  <2>4. given \in Seq(Nat)
    BY DEF Init
  <2> QED BY <1>4, <2>1, <2>2, <2>3, <2>4 DEF Around, Init
<1> QED BY <1>3, <1>5, NothingGivenGives, PartsOfInvariant


LEMMA CreateFileGives ==
  ASSUME IInv, CreateFile
  PROVE  IInv'
<1>1. /\ mMXFFile = "none" /\ mMXFFile' = "open"
      /\ mAudioSequenceIndex' =
           IF mAudioSequenceCount > 1 /\ mAudioSequenceOffset # UNKNOWN_SEQUENCE_OFFSET
             THEN mAudioSequenceOffset % mAudioSequenceCount ELSE mAudioSequenceIndex
      /\ durations' = [durations EXCEPT ![IndexTable] = 0]
      /\ UNCHANGED <<configuration, mContentPackage, mBufferedContentPackages, mAES3Blocks,
                     mAudioSequenceOffset, mDuration, units, given>>
  BY DEF CreateFile
<1>2. /\ given = <<>> /\ units = <<>> /\ mBufferedContentPackages = <<>>
      /\ mAES3Blocks = <<NewBlock>>
      /\ mAudioSequenceIndex = 0 /\ mAudioSequenceOffset = configuration.offset
      /\ mContentPackage = NoPackage
  BY <1>1 DEF IInv, NotCreated
<1>3. /\ IsConfigured /\ mDuration = 0 /\ configuration.packages \in Nat
      /\ mAudioSequenceOffset \in Nat
  <2>1. IsConfigured /\ mDuration = Len(units) /\ mAudioSequenceOffset \in 0 .. 255
    BY UnitsTyped
  <2>2. configuration.packages \in Nat
    BY <2>1, ConfigurationAssumption DEF IsConfigured
  <2>3. Len(units) = 0
    BY <1>2
  <2> QED BY <2>1, <2>2, <2>3
<1>4. (IsConfigured' <=> IsConfigured) /\ (HasAudio' <=> HasAudio)
      /\ (mAudioSequenceCount)' = mAudioSequenceCount /\ (Package)' = Package
  BY <1>1, Same
<1>5. (OffsetIsUnknown' <=> OffsetIsUnknown) /\ FirstIndex' = FirstIndex
  BY <1>1, <1>4 DEF OffsetIsUnknown, FirstIndex
<1>6. NothingGiven'
  <2> DEFINE c == mAudioSequenceCount
             o == mAudioSequenceOffset
             i == mAudioSequenceIndex'
  <2>1. c \in {1, 5} /\ o \in Nat
    BY <1>3, BlocksHaveSamples
  <2>2. i = IF c > 1 /\ o # UNKNOWN_SEQUENCE_OFFSET THEN o % c ELSE 0
    BY <1>1, <1>2
  <2>3. OffsetIsUnknown => o = UNKNOWN_SEQUENCE_OFFSET
    BY DEF OffsetIsUnknown
  <2>4. FirstIndex = IF o = UNKNOWN_SEQUENCE_OFFSET THEN 0 ELSE o % c
    BY DEF FirstIndex
  <2>5. configuration' = configuration
    BY <1>1
  <2> HIDE DEF c, o, i
  <2>6. i \in 0 .. c - 1
    <3>1. o % c \in 0 .. c - 1 /\ 0 \in 0 .. c - 1
      BY <2>1
    <3> QED BY <2>2, <3>1
  <2>7. OffsetIsUnknown => i = 0
    BY <2>2, <2>3
  <2>8. i = FirstIndex % c
    <3>1. CASE c = 1
      <4>1. FirstIndex % c = 0
        BY <2>1, <2>4, <3>1
      <4> QED BY <2>2, <3>1, <4>1
    <3>2. CASE c = 5
      <4>1. (o % 5) % 5 = o % 5 /\ 0 % 5 = 0
        BY <2>1
      <4> QED BY <2>2, <2>4, <3>2, <4>1
    <3> QED BY <2>1, <3>1, <3>2
  <2>9. /\ mAudioSequenceIndex' \in 0 .. (mAudioSequenceCount)' - 1
        /\ OffsetIsUnknown' => mAudioSequenceIndex' = 0
        /\ mAudioSequenceIndex' = FirstIndex' % (mAudioSequenceCount)'
    BY <1>4, <1>5, <2>6, <2>7, <2>8 DEF c, i
  <2>10. IsConfigured'
    BY <1>3, <1>4
  <2> QED BY <1>1, <1>2, <1>3, <2>9, <2>10, <2>5 DEF NothingGiven
<1>7. InMemory'
  BY <1>6, NothingGivenGives, PTL
<1>8. Around'
  <2>1. Around
    BY PartsOfInvariant
  <2>2. durations' \in [SetsWithDuration \cup {IndexTable} -> -1 .. configuration.packages]
    <3>1. 0 \in -1 .. configuration.packages
      BY <1>3
    <3> QED BY <1>1, <2>1, <3>1 DEF Around
  <2>3. NextIsAssembled'
    BY <1>1, <2>1 DEF Around, NextIsAssembled, NextPackage, SamplesGiven
  <2> QED BY <1>1, <1>4, <2>1, <2>2, <2>3 DEF Around, NotCreated
<1> QED BY <1>7, <1>8, PartsOfInvariant, PTL

\* What a step leaves alone goes on to hold, also when the file is completed
\* with no package buffered.
LEMMA MemoryStays ==
  ASSUME IInv, configuration' = configuration, UNCHANGED <<memory, given>>,
         \/ mMXFFile' = mMXFFile
         \/ mMXFFile = "open" /\ mMXFFile' = "completed" /\ mBufferedContentPackages = <<>>
  PROVE  InMemory'
<1>1. /\ mBufferedContentPackages' = mBufferedContentPackages /\ mAES3Blocks' = mAES3Blocks
      /\ mAudioSequenceOffset' = mAudioSequenceOffset /\ mAudioSequenceIndex' = mAudioSequenceIndex
      /\ mDuration' = mDuration /\ units' = units /\ given' = given
  BY DEF memory
<1>2. /\ (IsConfigured)' <=> IsConfigured
      /\ (HasAudio)' <=> HasAudio
      /\ (mAudioSequenceCount)' = mAudioSequenceCount
      /\ (mMaxAudioSamples)' = mMaxAudioSamples
      /\ (Rate)' = Rate
      /\ \A j : (SamplesAt(j))' = SamplesAt(j) /\ (Total(j))' = Total(j)
      /\ \A b, j, f : (BlockAt(b, j, f))' <=> BlockAt(b, j, f)
      /\ \A bs, j, f : /\ (LaidOut(bs, j, f))' <=> LaidOut(bs, j, f)
                       /\ (EndOf(bs, j, f))' = EndOf(bs, j, f)
                       /\ (Room(j, bs))' = Room(j, bs)
      /\ (Package)' = Package
  BY Same
<1>3. (Unit)' = Unit /\ (OffsetIsUnknown' <=> OffsetIsUnknown) /\ FirstIndex' = FirstIndex
      /\ Padding' = Padding /\ SamplesGiven' = SamplesGiven
  BY <1>1, <1>2, SamplesGivenIs DEF Unit, OffsetIsUnknown, FirstIndex, Padding
<1>4. MemoryTyped'
  BY <1>1, <1>2, <1>3 DEF MemoryTyped, IInv, TypeOK
<1>5. UnitsInOrder'
  BY <1>1 DEF UnitsInOrder, IInv, EditUnitsInOrder
<1>6. WhileUnknown'
  <2>1. WhileUnknown /\ given \in Seq(Nat) /\ Len(units) + Len(mBufferedContentPackages) = Len(given)
    BY UnitsTyped DEF IInv
  <2>2. mBufferedContentPackages = <<>> /\ units = <<>> => given = <<>>
    <3> SUFFICES ASSUME mBufferedContentPackages = <<>>, units = <<>> PROVE Len(given) = 0
      BY <2>1
    <3> QED BY <2>1
  <2> QED BY <1>1, <1>2, <1>3, <2>1, <2>2 DEF WhileUnknown
<1>7. WithoutAudio'
  BY <1>1, <1>2 DEF WithoutAudio, IInv
<1>8. IndexIsNext'
  BY <1>1, <1>2, <1>3 DEF IndexIsNext, IInv
<1>9. UnitsAreFull'
  <2>1. ASSUME NEW k \in 1 .. Len(units) PROVE UnitIsFull(k)'
    <3>1. UnitIsFull(k)
      BY DEF IInv, UnitsAreFull
    <3> QED BY <1>1, <1>2, <1>3, <3>1 DEF UnitIsFull
  <2> QED BY <1>1, <2>1 DEF UnitsAreFull
<1>10. MemoryFollows'
  BY <1>1, <1>2, <1>3 DEF MemoryFollows, IInv
<1>11. BufferedForWant'
  BY <1>1, <1>2, <1>3 DEF BufferedForWant, IInv
<1>12. OffsetIsFound' /\ OffsetIsKept'
  <2>1. \A n, f : Match(n, f)' <=> Match(n, f)
    BY <1>1, <1>2 DEF Match
  <2> QED BY <1>1, <1>2, <1>3, <2>1 DEF OffsetIsFound, OffsetIsKept, IInv
<1> QED BY <1>4, <1>5, <1>6, <1>7, <1>8, <1>9, <1>10, <1>11, <1>12 DEF InMemory


\* What Around' takes, in steps that neither create nor complete the file.
LEMMA AroundStays ==
  ASSUME IInv, mMXFFile = "open", mMXFFile' = "open", UNCHANGED <<configuration, durations>>,
         mContentPackage' \in Package, given' \in Seq(Nat), NextIsAssembled'
  PROVE  Around'
<1>1. Around
  BY PartsOfInvariant
<1>2. (Package)' = Package
  BY Same
<1> QED BY <1>1, <1>2 DEF Around, NotCreated


LEMMA GivenIsTyped ==
  ASSUME IInv
  PROVE  /\ IsConfigured /\ mDuration \in Nat /\ given \in Seq(Nat) /\ Len(given) \in Nat
         /\ SamplesGiven \in Nat /\ configuration.packages \in Nat
         /\ configuration.channels \in 0 .. 8 /\ configuration.counts \subseteq Nat
         /\ mContentPackage \in Package /\ NextIsAssembled
         /\ mContentPackage.timecode \in Timecode
         /\ mContentPackage.video \in {None} \cup 1 .. configuration.packages
         /\ mContentPackage.first \in Nat
         /\ mContentPackage.samples \in Nat
         /\ mContentPackage.tracks \in SUBSET (0 .. 7)
<1>1. IsConfigured /\ mDuration = Len(units) /\ Len(units) \in Nat /\ given \in Seq(Nat)
  BY UnitsTyped
<1>2. Len(given) \in Nat /\ Len(given) \in 0 .. Len(given)
  BY <1>1
<1>3. SamplesGiven \in Nat
  BY <1>1, <1>2, SumsAre, SamplesGivenIs
<1>4. /\ configuration.packages \in Nat /\ configuration.channels \in 0 .. 8
      /\ configuration.counts \subseteq Nat
  BY <1>1, ConfigurationAssumption DEF IsConfigured
<1>5. mContentPackage \in Package /\ NextIsAssembled
  BY DEF IInv, TypeOK
<1>6. /\ mContentPackage.timecode \in Timecode
      /\ mContentPackage.video \in {None} \cup 1 .. configuration.packages
      /\ mContentPackage.first \in Nat
      /\ mContentPackage.samples \in Nat
      /\ mContentPackage.tracks \in SUBSET (0 .. 7)
  BY <1>5 DEF Package
<1> QED BY <1>1, <1>2, <1>3, <1>4, <1>5, <1>6

LEMMA SetUserTimecodeGives ==
  ASSUME IInv, SetUserTimecode
  PROVE  IInv'
<1>1. /\ mMXFFile = "open"
      /\ mContentPackage' = [mContentPackage EXCEPT !.timecode = GenerateUserTimecode]
      /\ UNCHANGED <<configuration, mMXFFile, memory, durations, given>>
  BY DEF SetUserTimecode, MayAssemble, MayGive
<1>2. mContentPackage \in Package /\ NextIsAssembled /\ given \in Seq(Nat)
  BY GivenIsTyped
<1>3. GenerateUserTimecode \in Timecode
  BY GivenIsTyped, UserTimecodeIs
<1>4. mContentPackage' \in Package
  BY <1>1, <1>2, <1>3 DEF Package
<1>5. /\ mContentPackage'.video = mContentPackage.video
      /\ mContentPackage'.first = mContentPackage.first
      /\ mContentPackage'.samples = mContentPackage.samples
      /\ mContentPackage'.tracks = mContentPackage.tracks
  BY <1>1, <1>2 DEF Package
<1>6. NextIsAssembled'
  BY <1>1, <1>2, <1>5, SamplesGivenIs DEF NextIsAssembled, NextPackage
<1>7. InMemory'
  BY <1>1, MemoryStays
<1>8. Around'
  BY <1>1, <1>2, <1>4, <1>6, AroundStays
<1> QED BY <1>7, <1>8, PartsOfInvariant, PTL

LEMMA SetVideoGives ==
  ASSUME IInv, SetVideo
  PROVE  IInv'
<1>1. /\ mMXFFile = "open" /\ Len(given) < configuration.packages
      /\ mContentPackage' = [mContentPackage EXCEPT !.video = NextPackage]
      /\ UNCHANGED <<configuration, mMXFFile, memory, durations, given>>
  BY DEF SetVideo, MayAssemble, MayGive
<1>2. /\ mContentPackage \in Package /\ NextIsAssembled /\ given \in Seq(Nat)
      /\ Len(given) \in Nat /\ configuration.packages \in Nat
  BY GivenIsTyped
<1>3. NextPackage \in 1 .. configuration.packages
  BY <1>1, <1>2 DEF NextPackage
<1>4. mContentPackage' \in Package
  BY <1>1, <1>2, <1>3 DEF Package
<1>5. /\ mContentPackage'.video = NextPackage
      /\ mContentPackage'.first = mContentPackage.first
      /\ mContentPackage'.samples = mContentPackage.samples
      /\ mContentPackage'.tracks = mContentPackage.tracks
  BY <1>1, <1>2 DEF Package
<1>6. NextIsAssembled'
  BY <1>1, <1>2, <1>5, SamplesGivenIs DEF NextIsAssembled, NextPackage
<1>7. InMemory'
  BY <1>1, MemoryStays
<1>8. Around'
  BY <1>1, <1>2, <1>4, <1>6, AroundStays
<1> QED BY <1>7, <1>8, PartsOfInvariant, PTL

LEMMA SetAudioGives ==
  ASSUME IInv, NEW n \in Counts, NEW channel \in 0 .. 7, SetAudio(channel, n)
  PROVE  IInv'
<1> DEFINE tracks == IF n = 0 THEN mContentPackage.tracks \ {channel}
                     ELSE mContentPackage.tracks \cup {channel}
<1>1. /\ mMXFFile = "open"
      /\ mContentPackage' = [mContentPackage EXCEPT
           !.first = SamplesGiven, !.samples = n, !.tracks = tracks]
      /\ UNCHANGED <<configuration, mMXFFile, memory, durations, given>>
  BY DEF SetAudio, MayAssemble, MayGive
<1>2. /\ mContentPackage \in Package /\ NextIsAssembled /\ given \in Seq(Nat)
      /\ mContentPackage.tracks \in SUBSET (0 .. 7) /\ SamplesGiven \in Nat /\ n \in Nat
  BY GivenIsTyped DEF Counts
<1>3. tracks \in SUBSET (0 .. 7) /\ (tracks = {} => n = 0)
  BY <1>2
<1> HIDE DEF tracks
<1>4. mContentPackage' \in Package
  BY <1>1, <1>2, <1>3 DEF Package
<1>5. /\ mContentPackage'.video = mContentPackage.video
      /\ mContentPackage'.first = SamplesGiven
      /\ mContentPackage'.samples = n
      /\ mContentPackage'.tracks = tracks
  BY <1>1, <1>2 DEF Package
<1>6. NextIsAssembled'
  BY <1>1, <1>2, <1>3, <1>5, SamplesGivenIs DEF NextIsAssembled, NextPackage
<1>7. InMemory'
  BY <1>1, MemoryStays
<1>8. Around'
  BY <1>1, <1>2, <1>4, <1>6, AroundStays
<1> QED BY <1>7, <1>8, PartsOfInvariant, PTL


\* What a package that is written leaves.
LEMMA PackageGives ==
  ASSUME IInv, NEW p \in Package, mMXFFile = "open", Len(given) < configuration.packages,
         p.video = NextPackage, HasAudio => p.first = SamplesGiven,
         Write(<<p>>), given' = Append(given, p.samples),
         UNCHANGED <<configuration, mMXFFile, durations>>,
         mContentPackage' = NoPackage
  PROVE  IInv'
<1> DEFINE package == <<p>>
<1>1. given \in Seq(Nat) /\ Len(given) \in Nat /\ p.samples \in Nat /\ configuration.packages \in Nat
  BY GivenIsTyped, PackageFields
<1>2. package # <<>> /\ package[1] = p
  OBVIOUS
<1>3. IsGiven(package) /\ GivenWith(package) = Append(given, p.samples)
  BY <1>2 DEF IsGiven, GivenWith
<1>4. given' \in Seq(Nat) /\ Len(given') <= configuration.packages
  BY <1>1
<1>5. IsStep(package)
  BY <1>2, <1>3, <1>4 DEF IsStep
<1> HIDE DEF package
<1>6. InMemory'
  BY <1>2, <1>5, WriteGives DEF package
<1>7. NoPackage \in Package /\ NoPackage.video = None /\ NoPackage.tracks = {} /\ NoPackage.samples = 0
  BY DEF NoPackage, Package, NoTimecode, Timecode, None
<1>8. NextIsAssembled'
  BY <1>7 DEF NextIsAssembled
<1>9. Around'
  BY <1>4, <1>7, <1>8, AroundStays
<1> QED BY <1>6, <1>9, PartsOfInvariant, PTL

LEMMA WriteAssembledGives ==
  ASSUME IInv, WriteAssembledContentPackage
  PROVE  IInv'
<1> DEFINE p == mContentPackage
<1>1. /\ mMXFFile = "open" /\ Len(given) < configuration.packages
      /\ p.video # None /\ GetNumAudioTracks(p) >= configuration.channels
      /\ Write(<<p>>) /\ mContentPackage' = NoPackage
      /\ given' = Append(given, p.samples)
      /\ UNCHANGED <<configuration, mMXFFile, durations>>
  BY DEF WriteAssembledContentPackage, MayAssemble, MayGive, IsComplete
<1>2. p \in Package /\ NextIsAssembled /\ p.tracks \in SUBSET (0 .. 7) /\ configuration.channels \in 0 .. 8
  BY GivenIsTyped
<1>3. p.video = NextPackage
  BY <1>1, <1>2 DEF NextIsAssembled
<1>4. HasAudio => p.first = SamplesGiven
  <2> SUFFICES ASSUME HasAudio, p.tracks = {} PROVE FALSE
    BY <1>2 DEF NextIsAssembled
  <2> DEFINE T == {t \in 0 .. 8 : t \notin p.tracks}
  <2>1. 0 \in T /\ T \in SUBSET Nat /\ T # {}
    OBVIOUS
  <2>2. GetNumAudioTracks(p) = Min(T)
    BY DEF GetNumAudioTracks
  <2> HIDE DEF T
  <2>3. Min(T) \in Nat /\ Min(T) <= 0
    BY <2>1, MinIsLeast
  <2> QED BY <1>1, <1>2, <2>2, <2>3 DEF HasAudio
<1> HIDE DEF p
<1> QED BY <1>1, <1>2, <1>3, <1>4, PackageGives

LEMMA WriteContentPackageGives ==
  ASSUME IInv, NEW n \in Counts, WriteContentPackage(n)
  PROVE  IInv'
<1> DEFINE tracks == IF n = 0 THEN {} ELSE 0 .. configuration.channels - 1
           p == [timecode |-> GenerateUserTimecode, video |-> NextPackage,
                 first |-> SamplesGiven, samples |-> n, tracks |-> tracks]
<1>1. /\ mMXFFile = "open" /\ Len(given) < configuration.packages
      /\ mContentPackage = NoPackage /\ mContentPackage' = mContentPackage
      /\ Write(<<p>>) /\ given' = Append(given, n)
      /\ UNCHANGED <<configuration, mMXFFile, durations>>
  BY DEF WriteContentPackage, MayGive
<1>2. /\ Len(given) \in Nat /\ configuration.packages \in Nat
      /\ SamplesGiven \in Nat /\ n \in Nat /\ configuration.channels \in 0 .. 8
      /\ GenerateUserTimecode \in Timecode
  BY GivenIsTyped, UserTimecodeIs DEF Counts
<1>3. tracks \in SUBSET (0 .. 7)
  BY <1>2
<1>4. NextPackage \in {None} \cup 1 .. configuration.packages
  BY <1>1, <1>2 DEF NextPackage
<1> HIDE DEF tracks
<1>5. p \in Package
  BY <1>2, <1>3, <1>4 DEF Package
<1>6. p.video = NextPackage /\ p.first = SamplesGiven /\ p.samples = n
  OBVIOUS
<1> HIDE DEF p
<1> QED BY <1>1, <1>5, <1>6, PackageGives

LEMMA CompleteFileGives ==
  ASSUME IInv, CompleteFile
  PROVE  IInv'
<1>1. /\ mMXFFile = "open" /\ mMXFFile' = "completed"
      /\ IF mBufferedContentPackages = <<>> THEN UNCHANGED memory ELSE Write(<<>>)
      /\ durations' = [s \in DOMAIN durations |-> mDuration']
      /\ UNCHANGED <<configuration, mContentPackage, given>>
  BY DEF CompleteFile
<1>2. Around
  BY PartsOfInvariant
<1>3. InMemory'
  <2>1. CASE mBufferedContentPackages = <<>>
    BY <1>1, <2>1, MemoryStays
  <2>2. CASE mBufferedContentPackages # <<>>
    <3> DEFINE L == Len(mBufferedContentPackages)
               package == <<>>
    <3>1. /\ mBufferedContentPackages \in Seq(Package) /\ Len(units) \in Nat /\ L \in Nat
          /\ Len(units) + L = Len(given) /\ configuration.packages \in Nat
      BY UnitsTyped, GivenIsTyped
    <3>2. L \in 1 .. L /\ mBufferedContentPackages[L] \in Package
      BY <2>2, <3>1
    <3>3. mBufferedContentPackages[L].video = Len(units) + L
      BY <3>2 DEF IInv, EditUnitsInOrder
    <3>4. mBufferedContentPackages[L].video \in {None} \cup 1 .. configuration.packages
      BY <3>2, PackageFields
    <3>5. Len(given) <= configuration.packages
      <4> DEFINE u == Len(units)
                 P == configuration.packages
                 g == Len(given)
      <4>1. u \in Nat /\ L \in Nat /\ L >= 1 /\ u + L = g /\ P \in Nat /\ u + L \in {None} \cup 1 .. P
        BY <3>1, <3>2, <3>3, <3>4
      <4> HIDE DEF u, L, P, g
      <4>2. g <= P
        BY <4>1 DEF None
      <4> QED BY <4>2 DEF g, P
    <3>6. IsGiven(package) /\ GivenWith(package) = given
      BY DEF IsGiven, GivenWith
    <3>7. IsStep(package)
      BY <1>1, <3>5, <3>6 DEF IsStep
    <3>8. Write(package)
      BY <1>1, <2>2
    <3> HIDE DEF package
    <3> QED BY <2>2, <3>7, <3>8, WriteGives
  <2> QED BY <2>1, <2>2
<1>4. (Package)' = Package
  BY <1>1, Same
<1>5. /\ mDuration' \in 0 .. configuration.packages /\ mDuration' = Len(units')
      /\ configuration.packages \in Nat
  BY <1>1, <1>3, GivenIsTyped DEF InMemory, MemoryTyped, UnitsInOrder
<1>6. /\ durations' \in [SetsWithDuration \cup {IndexTable} -> -1 .. configuration.packages]
      /\ \A s \in DOMAIN durations' : durations'[s] = Len(units')
  <2>1. DOMAIN durations = SetsWithDuration \cup {IndexTable}
    BY <1>2 DEF Around
  <2>2. mDuration' \in -1 .. configuration.packages
    BY <1>5
  <2> HIDE DEF SetsWithDuration, IndexTable
  <2> QED BY <1>1, <1>5, <2>1, <2>2
<1>7. NextIsAssembled'
  BY <1>1, <1>2, SamplesGivenIs DEF Around, NextIsAssembled, NextPackage
<1>8. Around'
  BY <1>1, <1>2, <1>4, <1>6, <1>7 DEF Around, NotCreated
<1> QED BY <1>3, <1>8, PartsOfInvariant, PTL

LEMMA NextGives == IInv /\ [Next]_vars => IInv'
<1> SUFFICES ASSUME IInv, [Next]_vars PROVE IInv'
  OBVIOUS
<1>1. CASE CreateFile
  BY <1>1, CreateFileGives
<1>2. CASE SetUserTimecode
  BY <1>2, SetUserTimecodeGives
<1>3. CASE SetVideo
  BY <1>3, SetVideoGives
<1>4. CASE WriteAssembledContentPackage
  BY <1>4, WriteAssembledGives
<1>5. CASE CompleteFile
  BY <1>5, CompleteFileGives
<1>6. CASE \E n \in Counts : WriteContentPackage(n)
  BY <1>6, WriteContentPackageGives
<1>7. CASE \E n \in Counts : \E channel \in 0 .. 7 : SetAudio(channel, n)
  BY <1>7, SetAudioGives
<1>8. CASE UNCHANGED vars
  <2>1. /\ UNCHANGED <<configuration, mMXFFile, memory, durations, given, mContentPackage>>
        /\ configuration' = configuration /\ mMXFFile' = mMXFFile /\ UNCHANGED <<memory, given>>
    BY <1>8 DEF vars, memory
  <2>2. InMemory'
    BY <2>1, MemoryStays
  <2>3. Around /\ (Package)' = Package /\ units' = units
        /\ mBufferedContentPackages' = mBufferedContentPackages
        /\ mAES3Blocks' = mAES3Blocks /\ mAudioSequenceIndex' = mAudioSequenceIndex
        /\ mAudioSequenceOffset' = mAudioSequenceOffset
    BY <2>1, Same, PartsOfInvariant DEF memory
  <2>4. NextIsAssembled' /\ NotCreated'
    BY <2>1, <2>3, SamplesGivenIs DEF Around, NextIsAssembled, NextPackage, NotCreated
  <2>5. Around'
    BY <2>1, <2>3, <2>4 DEF Around
  <2> QED BY <2>2, <2>5, PartsOfInvariant, PTL
<1> QED BY <1>1, <1>2, <1>3, <1>4, <1>5, <1>6, <1>7, <1>8 DEF Next

-----------------------------------------------------------------------------
(* Theorems *)

\* Invariance: in every state the invariant holds: the blocks of audio in the file
\* and in memory are those of the sequence from its offset on, one after the other,
\* with the samples of the packages given and at most the last one padded
\* (WriteContentPackage, UpdateAES3Blocks, FinalUpdateAES3Blocks).
THEOREM Invariance == Spec => []IInv
<1>1. Init => IInv
  BY InitGives
<1>2. IInv /\ [Next]_vars => IInv'
  BY NextGives
<1> QED BY <1>1, <1>2, PTL DEF Spec

\* TypeCorrect: every variable keeps its type; there is always a block in memory,
\* and the sequence index is one of the sequence's.
THEOREM TypeCorrect == Spec => []TypeOK
<1>1. IInv => TypeOK
  BY DEF IInv
<1> QED BY <1>1, Invariance, PTL

\* WrittenInOrder: the file's edit units are the first packages given, each once
\* and in their order, and the completed file's durations are the number of its
\* edit units, for any numbers of samples that the packages have.
THEOREM WrittenInOrder == Spec => []EditUnitsInOrder
<1>1. IInv => EditUnitsInOrder
  BY DEF IInv
<1> QED BY <1>1, Invariance, PTL

\* ExactTimecode: the loop of GenerateUserTimecode ends for every count of frames,
\* with the drop-frame timecode of that frame, and no timecode that is not used.
THEOREM ExactTimecode == Spec => []TimecodeIsExact
<1>1. IInv => TimecodeIsExact
  BY GivenIsTyped, UserTimecodeIs
<1> QED BY <1>1, Invariance, PTL


\* The ends of the samples in blocks that follow each other.
AreEnds(ends, blocks) ==
  ends = [k \in 0 .. Len(blocks) |->
            IF k = 0 THEN 0
            ELSE IF blocks[k].runs = <<>> THEN ends[k - 1] ELSE Last(blocks[k].runs)[2]]

\* The runs of each block are those between two of the bounds.
FitBetween(blocks, bounds) ==
  /\ blocks \in Seq(Block)
  /\ bounds \in [0 .. Len(blocks) -> Nat] /\ bounds[0] = 0
  /\ \A k \in 1 .. Len(blocks) :
       /\ IsRun(blocks[k].runs, bounds[k - 1], bounds[k])
       /\ blocks[k].samples = blocks[k].zeros + (bounds[k] - bounds[k - 1])

LEMMA BoundsAreEnds ==
  ASSUME NEW blocks, NEW bounds, FitBetween(blocks, bounds)
  PROVE  /\ AreEnds(bounds, blocks)
         /\ \A ends : AreEnds(ends, blocks) => \A k \in 0 .. Len(blocks) : ends[k] = bounds[k]
<1> DEFINE N == Len(blocks)
<1>1. /\ N \in Nat /\ bounds \in [0 .. N -> Nat] /\ bounds[0] = 0
      /\ \A k \in 1 .. N : IsRun(blocks[k].runs, bounds[k - 1], bounds[k])
  BY DEF FitBetween
<1>2. ASSUME NEW k \in 1 .. N
      PROVE  bounds[k] = IF blocks[k].runs = <<>> THEN bounds[k - 1] ELSE Last(blocks[k].runs)[2]
  BY <1>1 DEF IsRun, Last
<1>3. AreEnds(bounds, blocks)
  <2>1. \A k \in 0 .. N : k = 0 \/ k \in 1 .. N
    BY <1>1
  <2>2. \A k \in 0 .. N :
          bounds[k] = IF k = 0 THEN 0
                      ELSE IF blocks[k].runs = <<>> THEN bounds[k - 1] ELSE Last(blocks[k].runs)[2]
    BY <1>1, <1>2, <2>1
  <2>3. bounds = [k \in 0 .. N |-> bounds[k]]
    BY <1>1
  <2> HIDE DEF N
  <2>4. bounds = [k \in 0 .. N |-> IF k = 0 THEN 0
                      ELSE IF blocks[k].runs = <<>> THEN bounds[k - 1] ELSE Last(blocks[k].runs)[2]]
    BY <2>2, <2>3
  <2> QED BY <2>4 DEF AreEnds, N
<1>4. ASSUME NEW ends, AreEnds(ends, blocks) PROVE \A k \in 0 .. N : ends[k] = bounds[k]
  <2> DEFINE S == {k \in Nat : k <= N => ends[k] = bounds[k]}
  <2>1. \A k \in 0 .. N :
          ends[k] = IF k = 0 THEN 0
                    ELSE IF blocks[k].runs = <<>> THEN ends[k - 1] ELSE Last(blocks[k].runs)[2]
    <3> HIDE DEF N
    <3> QED BY <1>4, Zenon DEF AreEnds, N
  <2>2. 0 \in S
    BY <1>1, <2>1
  <2>3. ASSUME NEW k \in Nat, k \in S PROVE k + 1 \in S
    <3> SUFFICES ASSUME k + 1 <= N PROVE ends[k + 1] = bounds[k + 1]
      OBVIOUS
    <3> DEFINE m == k + 1
    <3>1. m \in 1 .. N /\ m \in 0 .. N /\ m # 0 /\ m - 1 = k /\ ends[k] = bounds[k]
      BY <1>1, <2>3
    <3> HIDE DEF m
    <3>2. ends[m] = IF blocks[m].runs = <<>> THEN ends[k] ELSE Last(blocks[m].runs)[2]
      BY <2>1, <3>1
    <3>3. bounds[m] = IF blocks[m].runs = <<>> THEN bounds[k] ELSE Last(blocks[m].runs)[2]
      BY <1>2, <3>1
    <3> QED BY <3>1, <3>2, <3>3 DEF m
  <2>4. \A k \in Nat : k \in S
    <3> HIDE DEF S
    <3> QED BY <2>2, <2>3, InductionOnNat
  <2> QED BY <1>1, <2>4
<1> QED BY <1>3, <1>4


\* The blocks in the file and in memory.
AllBlocks == UnitBlocks \o mAES3Blocks

LEMMA AllBlocksAre ==
  ASSUME IInv
  PROVE  /\ AllBlocks \in Seq(Block)
         /\ Len(units) \in Nat /\ Len(mAES3Blocks) \in Nat /\ Len(mAES3Blocks) > 0
         /\ Len(AllBlocks) = Len(units) + Len(mAES3Blocks)
         /\ \A k \in 1 .. Len(units) : AllBlocks[k] = units[k].block
         /\ \A k \in 1 .. Len(mAES3Blocks) : AllBlocks[Len(units) + k] = mAES3Blocks[k]
<1> DEFINE n == Len(units)
<1>1. units \in Seq(Unit) /\ n \in Nat /\ mAES3Blocks \in Seq(Block) /\ mAES3Blocks # <<>>
  BY UnitsTyped DEF IInv, TypeOK
<1>2. Len(mAES3Blocks) \in Nat /\ Len(mAES3Blocks) > 0
  BY <1>1
<1>3. UnitBlocks \in Seq(Block) /\ Len(UnitBlocks) = n /\ \A k \in 1 .. n : UnitBlocks[k] = units[k].block
  <2>1. DOMAIN units = 1 .. n
    BY <1>1
  <2>2. \A k \in 1 .. n : units[k] \in Unit
    BY <1>1
  <2>3. \A k \in 1 .. n : units[k].block \in Block
    BY <2>2 DEF Unit
  <2>4. UnitBlocks = [k \in 1 .. n |-> units[k].block]
    BY <2>1 DEF UnitBlocks
  <2> HIDE DEF n
  <2> QED BY <1>1, <2>3, <2>4
<1>4. /\ AllBlocks \in Seq(Block) /\ Len(AllBlocks) = n + Len(mAES3Blocks)
      /\ \A k \in 1 .. n : AllBlocks[k] = UnitBlocks[k]
      /\ \A k \in 1 .. Len(mAES3Blocks) : AllBlocks[n + k] = mAES3Blocks[k]
  <2> HIDE DEF n
  <2> DEFINE u == UnitBlocks
             m == mAES3Blocks
  <2>1. u \in Seq(Block) /\ m \in Seq(Block)
    BY <1>1, <1>3
  <2> HIDE DEF u, m
  <2>2. /\ u \o m \in Seq(Block) /\ Len(u \o m) = Len(u) + Len(m)
        /\ \A k \in 1 .. Len(u) : (u \o m)[k] = u[k]
        /\ \A k \in 1 .. Len(m) : (u \o m)[Len(u) + k] = m[k]
    BY <2>1, Concatenated
  <2>3. AllBlocks = u \o m /\ Len(u) = n
    BY <1>3 DEF AllBlocks, u, m
  <2> QED BY <2>2, <2>3 DEF u, m
<1> QED BY <1>1, <1>2, <1>3, <1>4

\* With audio, block k of the file or in memory is at its place; the padding of the
\* file's last block is that of no other.
LEMMA BlocksAreAtPlace ==
  ASSUME IInv, HasAudio, ~OffsetIsUnknown
  PROVE  LET n == Len(units)
             N == Len(AllBlocks)
         IN /\ \A k \in 1 .. N : BlockAt(AllBlocks[k], (FirstIndex + k) - 1, FirstIndex)
            /\ \A k \in 1 .. N - 1 :
                 /\ AllBlocks[k].samples = SamplesAt((FirstIndex + k) - 1)
                 /\ AllBlocks[k].zeros = IF k = n THEN Padding ELSE 0
            /\ Padding \in Nat /\ (n = 0 => Padding = 0)
            /\ Padding > 0 => /\ N = n + 1
                              /\ AllBlocks[N].runs = <<>> /\ AllBlocks[N].samples = 0
            /\ SamplesGiven = ((Total((FirstIndex + N) - 1) - Total(FirstIndex))
                                 + (AllBlocks[N].samples - AllBlocks[N].zeros)) - Padding
<1> DEFINE n == Len(units)
           M == Len(mAES3Blocks)
           N == Len(AllBlocks)
           f == FirstIndex
           P == Padding
<1>1. /\ n \in Nat /\ M \in Nat /\ M > 0 /\ N = n + M /\ f \in Nat
      /\ \A k \in 1 .. n : AllBlocks[k] = units[k].block
      /\ \A k \in 1 .. M : AllBlocks[n + k] = mAES3Blocks[k]
  BY AllBlocksAre, UnitsTyped
<1>2. /\ LaidOut(mAES3Blocks, f + n, f)
      /\ SamplesGiven = EndOf(mAES3Blocks, f + n, f) - P
      /\ P > 0 => M = 1 /\ mAES3Blocks[M].runs = <<>> /\ mAES3Blocks[M].samples = 0
  BY DEF IInv, MemoryFollows
<1>3. \A k \in 1 .. n : UnitIsFull(k)
  BY DEF IInv, UnitsAreFull
<1>4. units = <<>> <=> n = 0
  <2>1. units \in Seq(Unit)
    BY DEF IInv, TypeOK
  <2> QED BY <2>1
<1>5. P = IF n = 0 THEN 0 ELSE AllBlocks[n].zeros
  <2>1. CASE n = 0
    BY <2>1, <1>4 DEF Padding
  <2>2. CASE n # 0
    <3>1. n \in 1 .. n
      BY <1>1, <2>2
    <3>2. AllBlocks[n] = units[n].block
      BY <1>1, <3>1
    <3>3. P = units[n].block.zeros
      BY <1>4, <2>2 DEF Padding
    <3> QED BY <2>2, <3>2, <3>3
  <2> QED BY <2>1, <2>2
<1> HIDE DEF n, M, N, f, P
<1>6. ASSUME NEW k \in 1 .. n
      PROVE  /\ BlockAt(AllBlocks[k], (f + k) - 1, f)
             /\ AllBlocks[k].samples = SamplesAt((f + k) - 1)
             /\ AllBlocks[k].zeros \in Nat /\ (AllBlocks[k].zeros > 0 => k = n)
  <2>1. UnitIsFull(k) /\ AllBlocks[k] = units[k].block
    BY <1>1, <1>3
  <2>2. /\ BlockAt(AllBlocks[k], (f + k) - 1, f)
        /\ AllBlocks[k].samples = SamplesAt((f + k) - 1)
        /\ (AllBlocks[k].zeros > 0 => k = n)
    BY <2>1 DEF UnitIsFull, f, n
  <2>3. AllBlocks[k] \in Block
    BY <2>2 DEF BlockAt
  <2> QED BY <2>2, <2>3, BlockFields
<1>7. ASSUME NEW m \in 1 .. M
      PROVE  /\ BlockAt(AllBlocks[n + m], (f + (n + m)) - 1, f)
             /\ m # M => /\ AllBlocks[n + m].samples = SamplesAt((f + (n + m)) - 1)
                         /\ AllBlocks[n + m].zeros = 0
  <2>1. AllBlocks[n + m] = mAES3Blocks[m] /\ ((f + n) + m) - 1 = (f + (n + m)) - 1
    BY <1>1
  <2>2. BlockAt(mAES3Blocks[m], ((f + n) + m) - 1, f)
    BY <1>2 DEF LaidOut, M
  <2>3. m # M => /\ mAES3Blocks[m].samples = SamplesAt(((f + n) + m) - 1)
                 /\ mAES3Blocks[m].zeros = 0
    <3> SUFFICES ASSUME m # M
                 PROVE  /\ mAES3Blocks[m].samples = SamplesAt(((f + n) + m) - 1)
                        /\ mAES3Blocks[m].zeros = 0
      OBVIOUS
    <3>1. m \in 1 .. M - 1
      BY <1>1
    <3> QED BY <1>2, <3>1 DEF LaidOut, M
  <2> QED BY <2>1, <2>2, <2>3
<1>8. ASSUME NEW k \in 1 .. N, k \notin 1 .. n
      PROVE  k - n \in 1 .. M /\ n + (k - n) = k /\ (k # N => k - n # M)
  BY <1>1, <1>8
<1>9. \A k \in 1 .. N : BlockAt(AllBlocks[k], (f + k) - 1, f)
  <2> SUFFICES ASSUME NEW k \in 1 .. N PROVE BlockAt(AllBlocks[k], (f + k) - 1, f)
    OBVIOUS
  <2>1. CASE k \in 1 .. n
    BY <1>6, <2>1
  <2>2. CASE k \notin 1 .. n
    <3> DEFINE m == k - n
    <3>1. m \in 1 .. M /\ n + m = k
      BY <1>8, <2>2
    <3> HIDE DEF m
    <3> QED BY <1>7, <3>1
  <2> QED BY <2>1, <2>2
<1>10. P \in Nat /\ (n = 0 => P = 0)
  <2>1. CASE n = 0
    BY <2>1, <1>5
  <2>2. CASE n # 0
    <3>1. n \in 1 .. n
      BY <1>1, <2>2
    <3> QED BY <1>5, <1>6, <2>2, <3>1
  <2> QED BY <2>1, <2>2
<1>11. \A k \in 1 .. N - 1 : /\ AllBlocks[k].samples = SamplesAt((f + k) - 1)
                             /\ AllBlocks[k].zeros = IF k = n THEN P ELSE 0
  <2> SUFFICES ASSUME NEW k \in 1 .. N - 1
               PROVE  /\ AllBlocks[k].samples = SamplesAt((f + k) - 1)
                      /\ AllBlocks[k].zeros = IF k = n THEN P ELSE 0
    OBVIOUS
  <2>1. k \in 1 .. N /\ k # N
    BY <1>1
  <2>2. CASE k \in 1 .. n
    <3>1. n # 0
      BY <1>1, <2>2
    <3>2. k = n => AllBlocks[k].zeros = P
      BY <1>5, <3>1
    <3>3. k # n => AllBlocks[k].zeros = 0
      BY <1>6, <2>2
    <3> QED BY <1>6, <2>2, <3>2, <3>3
  <2>3. CASE k \notin 1 .. n
    <3> DEFINE m == k - n
    <3>1. m \in 1 .. M /\ n + m = k /\ m # M
      BY <1>8, <2>1, <2>3
    <3>2. k # n
      BY <1>1, <2>1, <2>3
    <3> HIDE DEF m
    <3> QED BY <1>7, <3>1, <3>2
  <2> QED BY <2>2, <2>3
<1>12. M \in 1 .. M /\ AllBlocks[N] = mAES3Blocks[M]
  BY <1>1
<1>13. P > 0 => N = n + 1 /\ AllBlocks[N].runs = <<>> /\ AllBlocks[N].samples = 0
  BY <1>1, <1>2, <1>12
<1>14. SamplesGiven = ((Total((f + N) - 1) - Total(f)) + (AllBlocks[N].samples - AllBlocks[N].zeros)) - P
  <2>1. ((f + n) + M) - 1 = (f + N) - 1
    BY <1>1
  <2>2. EndOf(mAES3Blocks, f + n, f) =
          (Total(((f + n) + M) - 1) - Total(f)) + (mAES3Blocks[M].samples - mAES3Blocks[M].zeros)
    BY DEF EndOf, M
  <2> QED BY <1>2, <1>12, <2>1, <2>2
<1> QED BY <1>9, <1>10, <1>11, <1>13, <1>14 DEF n, N, f, P


\* The bounds of the samples in the blocks, up to those given that are not buffered
\* for the offset.
AreBounds(bounds) ==
  /\ FitBetween(AllBlocks, bounds)
  /\ bounds[Len(AllBlocks)] = IF ~HasAudio \/ OffsetIsUnknown THEN 0 ELSE SamplesGiven

\* Blocks without runs have no samples but null samples.
LEMMA NoSamplesFit ==
  ASSUME IInv, \A k \in 1 .. Len(AllBlocks) :
                 AllBlocks[k].runs = <<>> /\ AllBlocks[k].samples = AllBlocks[k].zeros
  PROVE  FitBetween(AllBlocks, [k \in 0 .. Len(AllBlocks) |-> 0])
<1> DEFINE N == Len(AllBlocks)
           bounds == [k \in 0 .. N |-> 0]
<1>1. AllBlocks \in Seq(Block) /\ N \in Nat
  BY AllBlocksAre
<1>2. \A k \in 1 .. N : AllBlocks[k] \in Block
  BY <1>1
<1> HIDE DEF N
<1>3. bounds \in [0 .. N -> Nat] /\ bounds[0] = 0 /\ \A k \in 1 .. N : bounds[k] = 0 /\ bounds[k - 1] = 0
  BY <1>1
<1> HIDE DEF bounds
<1>4. ASSUME NEW k \in 1 .. N
      PROVE  /\ IsRun(AllBlocks[k].runs, bounds[k - 1], bounds[k])
             /\ AllBlocks[k].samples = AllBlocks[k].zeros + (bounds[k] - bounds[k - 1])
  <2>1. AllBlocks[k].runs = <<>> /\ AllBlocks[k].samples = AllBlocks[k].zeros
    BY DEF N
  <2>2. AllBlocks[k].zeros \in Nat
    BY <1>2, BlockFields
  <2> QED BY <1>3, <2>1, <2>2 DEF IsRun
<1> QED BY <1>1, <1>3, <1>4 DEF FitBetween, N, bounds

LEMMA SilenceFits ==
  ASSUME IInv, ~HasAudio \/ OffsetIsUnknown
  PROVE  \E bounds : AreBounds(bounds)
<1> DEFINE bounds == [k \in 0 .. Len(AllBlocks) |-> 0]
<1>1. /\ Len(units) \in Nat /\ Len(mAES3Blocks) = 1 /\ Len(AllBlocks) = Len(units) + 1
      /\ \A k \in 1 .. Len(units) : AllBlocks[k] = units[k].block
      /\ AllBlocks[Len(units) + 1] = mAES3Blocks[1]
      /\ mAES3Blocks[1].runs = <<>> /\ mAES3Blocks[1].samples = 0 /\ mAES3Blocks[1].zeros = 0
  <2>1. Len(mAES3Blocks) = 1 /\ mAES3Blocks[1].runs = <<>> /\ mAES3Blocks[1].samples = 0
        /\ mAES3Blocks[1].zeros = 0
    <3>1. CASE OffsetIsUnknown
      <4>1. mAES3Blocks = <<NewBlock>>
        BY <3>1 DEF IInv, WhileUnknown
      <4> QED BY <4>1 DEF NewBlock
    <3>2. CASE ~HasAudio
      <4>1. PICK l : mAES3Blocks = <<[NewBlock EXCEPT !.left = l]>>
        BY <3>2 DEF IInv, WithoutAudio
      <4> QED BY <4>1 DEF NewBlock
    <3> QED BY <3>1, <3>2
  <2>2. 1 \in 1 .. 1
    OBVIOUS
  <2> QED BY <2>1, <2>2, AllBlocksAre
<1>2. ASSUME NEW k \in 1 .. Len(AllBlocks)
      PROVE  AllBlocks[k].runs = <<>> /\ AllBlocks[k].samples = AllBlocks[k].zeros
  <2>1. k \in 1 .. Len(units) \/ k = Len(units) + 1
    BY <1>1
  <2>2. CASE k \in 1 .. Len(units)
    <3>1. UnitIsFull(k)
      BY <2>2 DEF IInv, UnitsAreFull
    <3>2. ~HasAudio
      <4> SUFFICES ASSUME OffsetIsUnknown PROVE FALSE
        OBVIOUS
      <4>1. units = <<>>
        BY DEF IInv, WhileUnknown
      <4>2. Len(units) = 0
        BY <4>1
      <4> QED BY <2>2, <4>2
    <3> QED BY <1>1, <2>2, <3>1, <3>2 DEF UnitIsFull
  <2>3. CASE k = Len(units) + 1
    BY <1>1, <2>3
  <2> QED BY <2>1, <2>2, <2>3
<1>3. FitBetween(AllBlocks, bounds)
  BY <1>2, NoSamplesFit
<1>4. bounds[Len(AllBlocks)] = 0
  <2>1. Len(AllBlocks) \in 0 .. Len(AllBlocks)
    BY <1>1
  <2> QED BY <2>1
<1> HIDE DEF bounds
<1> QED BY <1>3, <1>4 DEF AreBounds

LEMMA AudioFits ==
  ASSUME IInv, HasAudio, ~OffsetIsUnknown
  PROVE  \E bounds : AreBounds(bounds)
<1> DEFINE n == Len(units)
           N == Len(AllBlocks)
           f == FirstIndex
           P == Padding
           T(k) == Total(f + k) - Total(f)
           copied(k) == AllBlocks[k].samples - AllBlocks[k].zeros
           bound(k) == IF k = 0 THEN 0
                       ELSE T(k - 1) + copied(k) - (IF k > n THEN P ELSE 0)
           bounds == [k \in 0 .. N |-> bound(k)]
<1>1. /\ IsConfigured /\ n \in Nat /\ N \in Nat /\ N > n /\ f \in Nat /\ AllBlocks \in Seq(Block)
  <2>1. Len(mAES3Blocks) \in Nat /\ Len(mAES3Blocks) > 0 /\ N = n + Len(mAES3Blocks) /\ n \in Nat
    BY AllBlocksAre
  <2> HIDE DEF n, N
  <2>2. N \in Nat /\ N > n
    BY <2>1
  <2> QED BY <2>1, <2>2, UnitsTyped, AllBlocksAre
<1>2. /\ \A k \in 1 .. N : BlockAt(AllBlocks[k], (f + k) - 1, f)
      /\ \A k \in 1 .. N - 1 : /\ AllBlocks[k].samples = SamplesAt((f + k) - 1)
                               /\ AllBlocks[k].zeros = IF k = n THEN P ELSE 0
      /\ P \in Nat /\ (n = 0 => P = 0)
      /\ P > 0 => N = n + 1 /\ AllBlocks[N].runs = <<>> /\ AllBlocks[N].samples = 0
      /\ SamplesGiven = ((Total((f + N) - 1) - Total(f)) + (AllBlocks[N].samples - AllBlocks[N].zeros)) - P
  BY BlocksAreAtPlace
<1> HIDE DEF n, N, f, P
<1>3. ASSUME NEW k \in 1 .. N
      PROVE  /\ T(k - 1) \in Nat /\ T(k) = T(k - 1) + SamplesAt((f + k) - 1)
             /\ SamplesAt((f + k) - 1) \in Nat
             /\ copied(k) \in Nat /\ AllBlocks[k].zeros \in Nat /\ AllBlocks[k].samples \in Nat
             /\ IsRun(AllBlocks[k].runs, T(k - 1), T(k - 1) + copied(k))
  <2> DEFINE p == (f + k) - 1
             b == AllBlocks[k]
  <2>1. p \in Nat /\ f + (k - 1) = p /\ f + k = p + 1 /\ f <= p
    BY <1>1
  <2>2. BlockAt(b, p, f)
    BY <1>2
  <2> HIDE DEF p, b
  <2>3. Total(p) \in Nat /\ Total(f) \in Nat /\ Total(f) <= Total(p)
    BY <1>1, <2>1, TotalGrows
  <2>4. Total(p + 1) = Total(p) + SamplesAt(p) /\ SamplesAt(p) \in Nat
    <3>1. p \in Nat /\ IsConfigured
      BY <1>1, <2>1
    <3>2. Total(p + 1) = Total(p) + SamplesAt(p)
      BY <3>1, TotalAdds
    <3>3. SamplesAt(p) \in Nat
      BY <3>1, BlocksHaveSamples
    <3> QED BY <3>2, <3>3
  <2>5. /\ b \in Block /\ b.zeros <= b.samples
        /\ IsRun(b.runs, Total(p) - Total(f), (Total(p) - Total(f)) + (b.samples - b.zeros))
    BY <2>2 DEF BlockAt
  <2>6. b.zeros \in Nat /\ b.samples \in Nat
    BY <2>5, BlockFields
  <2>7. b.samples - b.zeros \in Nat
    BY <2>5, <2>6
  <2>8. Total(p) - Total(f) \in Nat
    BY <2>3
  <2>9. T(k - 1) = Total(p) - Total(f) /\ T(k) = Total(p + 1) - Total(f)
    BY <2>1
  <2>10. T(k) = T(k - 1) + SamplesAt(p)
    <3> DEFINE a == Total(p)
               c == Total(f)
               d == SamplesAt(p)
    <3>1. (a + d) - c = (a - c) + d
      <4> a \in Nat /\ c \in Nat /\ d \in Nat
        BY <2>3, <2>4
      <4> HIDE DEF a, c, d
      <4> QED OBVIOUS
    <3> QED BY <2>4, <2>9, <3>1
  <2> HIDE DEF T
  <2> QED BY <2>4, <2>5, <2>6, <2>7, <2>8, <2>9, <2>10 DEF p, b
<1>4. T(0) = 0
  <2>1. f + 0 = f /\ Total(f) \in Nat
    BY <1>1, TotalGrows
  <2> QED BY <2>1
<1> HIDE DEF T
\* what a block begins with is what the one before ends with
<1>5. ASSUME NEW k \in 1 .. N
      PROVE  bound(k - 1) = T(k - 1) - (IF k > n THEN P ELSE 0)
  <2>1. T(k - 1) \in Nat
    BY <1>3
  <2>2. CASE k = 1
    <3>1. k > n => P = 0
      BY <1>1, <1>2, <2>2
    <3>2. k - 1 = 0 /\ T(k - 1) = 0 /\ bound(k - 1) = 0
      BY <1>4, <2>2
    <3> QED BY <1>2, <3>1, <3>2
  <2>3. CASE k # 1
    <3> DEFINE m == k - 1
    <3>1. m \in 1 .. N - 1 /\ m \in 1 .. N /\ m # 0 /\ m \in Nat /\ k = m + 1
      BY <1>1, <2>3
    <3> HIDE DEF m
    <3>2. /\ T(m - 1) \in Nat /\ T(m) = T(m - 1) + SamplesAt((f + m) - 1)
          /\ SamplesAt((f + m) - 1) \in Nat
      BY <1>3, <3>1
    <3>3. copied(m) = SamplesAt((f + m) - 1) - (IF m = n THEN P ELSE 0)
      BY <1>2, <3>1
    <3>4. bound(m) = T(m - 1) + copied(m) - (IF m > n THEN P ELSE 0)
      BY <3>1
    <3>5. m > n => P = 0
      <4> SUFFICES ASSUME m > n, P > 0 PROVE FALSE
        BY <1>2
      <4>1. N = n + 1
        BY <1>2
      <4> QED BY <1>1, <3>1, <4>1
    <3> HIDE DEF bound, copied
    <3> DEFINE s == SamplesAt((f + m) - 1)
               t == T(m - 1)
    <3>6. s \in Nat /\ t \in Nat /\ T(m) = t + s /\ copied(m) = s - (IF m = n THEN P ELSE 0)
          /\ bound(m) = t + copied(m) - (IF m > n THEN P ELSE 0)
      BY <3>2, <3>3, <3>4
    <3> HIDE DEF s, t
    <3>7. bound(m) = T(m) - (IF m + 1 > n THEN P ELSE 0)
      <4>1. CASE m = n
        BY <1>1, <1>2, <3>1, <3>6, <4>1
      <4>2. CASE m < n
        BY <1>1, <1>2, <3>1, <3>6, <4>2
      <4>3. CASE m > n
        BY <1>1, <1>2, <3>1, <3>5, <3>6, <4>3
      <4> QED BY <1>1, <3>1, <4>1, <4>2, <4>3
    <3> QED BY <3>1, <3>7 DEF m
  <2> QED BY <2>2, <2>3
<1>6. ASSUME NEW k \in 1 .. N
      PROVE  /\ bound(k) = bound(k - 1) + copied(k)
             /\ bound(k - 1) \in Int
  <2>1. bound(k) = T(k - 1) + copied(k) - (IF k > n THEN P ELSE 0)
    OBVIOUS
  <2>2. bound(k - 1) = T(k - 1) - (IF k > n THEN P ELSE 0)
    BY <1>5
  <2>3. T(k - 1) \in Nat /\ copied(k) \in Nat
    BY <1>3
  <2> DEFINE x == IF k > n THEN P ELSE 0
             b == bound(k)
             a == bound(k - 1)
             t == T(k - 1)
             c == copied(k)
  <2>4. x \in Nat
    BY <1>2
  <2>5. b = t + c - x /\ a = t - x /\ t \in Nat /\ c \in Nat
    BY <2>1, <2>2, <2>3
  <2> HIDE DEF x, a, b, t, c
  <2>6. b = a + c /\ a \in Int
    BY <2>4, <2>5
  <2> QED BY <2>6 DEF a, b, c
<1>7. bound(0) = 0
  OBVIOUS
<1> HIDE DEF bound
<1>8. ASSUME NEW k \in 1 .. N
      PROVE  IsRun(AllBlocks[k].runs, bound(k - 1), bound(k))
  <2>1. CASE k > n /\ P > 0
    <3>1. k = N /\ AllBlocks[k].runs = <<>> /\ AllBlocks[k].samples = 0
      BY <1>1, <1>2, <2>1
    <3>2. copied(k) = 0
      BY SMTT(60), <1>3, <3>1
    <3>3. bound(k) = bound(k - 1)
      BY <1>6, <3>2
    <3> QED BY <3>1, <3>3 DEF IsRun
  <2>2. CASE ~(k > n /\ P > 0)
    <3>1. bound(k - 1) = T(k - 1)
      <4>1. T(k - 1) \in Nat /\ (k > n => P = 0)
        BY <1>2, <1>3, <2>2
      <4> QED BY <1>5, <4>1
    <3>2. bound(k) = T(k - 1) + copied(k)
      BY <1>6, <3>1
    <3> QED BY <1>3, <3>1, <3>2
  <2> QED BY <2>1, <2>2
<1>9. ASSUME NEW k \in 1 .. N
      PROVE  AllBlocks[k].samples = AllBlocks[k].zeros + (bound(k) - bound(k - 1))
  <2> DEFINE s == AllBlocks[k].samples
             z == AllBlocks[k].zeros
             a == bound(k - 1)
             b == bound(k)
  <2>1. s \in Nat /\ z \in Nat /\ a \in Int /\ b = a + (s - z)
    BY <1>3, <1>6
  <2> HIDE DEF s, z, a, b
  <2>2. s = z + (b - a)
    BY <2>1
  <2> QED BY <2>2 DEF s, z, a, b
<1>10. \A k \in 0 .. N : bound(k) \in Nat
  <2> DEFINE S == {k \in Nat : k <= N => bound(k) \in Nat}
  <2>1. 0 \in S
    BY <1>7
  <2>2. ASSUME NEW k \in Nat, k \in S PROVE k + 1 \in S
    <3> SUFFICES ASSUME k + 1 <= N PROVE bound(k + 1) \in Nat
      OBVIOUS
    <3> DEFINE m == k + 1
    <3>1. m \in 1 .. N /\ m - 1 = k /\ bound(k) \in Nat
      BY <1>1, <2>2
    <3> HIDE DEF m
    <3>2. bound(m) = bound(k) + copied(m) /\ copied(m) \in Nat
      BY <1>3, <1>6, <3>1
    <3> HIDE DEF copied
    <3>3. bound(m) \in Nat
      BY <3>1, <3>2
    <3> QED BY <3>3 DEF m
  <2>3. \A k \in Nat : k \in S
    <3> HIDE DEF S
    <3> QED BY <2>1, <2>2, InductionOnNat
  <2> QED BY <1>1, <2>3
<1>11. FitBetween(AllBlocks, bounds)
  <2>1. bounds \in [0 .. N -> Nat] /\ \A k \in 0 .. N : bounds[k] = bound(k)
    BY <1>10
  <2>2. 0 \in 0 .. N /\ \A k \in 1 .. N : k \in 0 .. N /\ k - 1 \in 0 .. N
    BY <1>1
  <2> HIDE DEF bounds
  <2>3. bounds[0] = 0
    BY <1>7, <2>1, <2>2
  <2>4. ASSUME NEW k \in 1 .. N
        PROVE  /\ IsRun(AllBlocks[k].runs, bounds[k - 1], bounds[k])
               /\ AllBlocks[k].samples = AllBlocks[k].zeros + (bounds[k] - bounds[k - 1])
    BY <1>8, <1>9, <2>1, <2>2
  <2> QED BY <1>1, <2>1, <2>3, <2>4 DEF FitBetween, N
<1>12. bounds[N] = SamplesGiven
  <2>1. N \in 0 .. N /\ N # 0 /\ N > n /\ N \in 1 .. N
    BY <1>1
  <2>2. bounds[N] = bound(N)
    BY <2>1
  <2>3. bound(N) = T(N - 1) + copied(N) - P
    BY <2>1 DEF bound
  <2>4. T(N - 1) = Total((f + N) - 1) - Total(f)
    <3>1. f + (N - 1) = (f + N) - 1
      BY <1>1
    <3> QED BY <3>1 DEF T
  <2>5. T(N - 1) \in Nat /\ copied(N) \in Nat
    BY <1>3, <2>1
  <2>6. SamplesGiven = (T(N - 1) + copied(N)) - P
    BY <1>2, <2>4
  <2> DEFINE t == T(N - 1)
             c == copied(N)
  <2>7. t + c - P = (t + c) - P
    <3> t \in Nat /\ c \in Nat
      BY SMTT(60), <2>5
    <3> HIDE DEF t, c
    <3> QED BY <1>2
  <2> QED BY <2>2, <2>3, <2>6, <2>7
<1> HIDE DEF bounds
<1> QED BY <1>11, <1>12 DEF AreBounds, N


LEMMA AudioFollows == IInv => AudioIsContinuous
<1> SUFFICES ASSUME IInv PROVE AudioIsContinuous
  OBVIOUS
<1> DEFINE blocks == UnitBlocks \o mAES3Blocks
           End[k \in 0 .. Len(blocks)] ==
             IF k = 0 THEN 0
             ELSE IF blocks[k].runs = <<>> THEN End[k - 1] ELSE Last(blocks[k].runs)[2]
           Ends(e) == e = [k \in 0 .. Len(blocks) |->
             IF k = 0 THEN 0
             ELSE IF blocks[k].runs = <<>> THEN e[k - 1] ELSE Last(blocks[k].runs)[2]]
           N == Len(AllBlocks)
<1>1. PICK bounds : AreBounds(bounds)
  BY SilenceFits, AudioFits
<1>2. FitBetween(AllBlocks, bounds) /\ bounds[N] = IF ~HasAudio \/ OffsetIsUnknown THEN 0 ELSE SamplesGiven
  BY <1>1 DEF AreBounds
<1>3. blocks = AllBlocks
  BY DEF AllBlocks
<1>4. End = CHOOSE e : Ends(e)
  OBVIOUS
<1>5. \A e : Ends(e) <=> AreEnds(e, AllBlocks)
  BY <1>3 DEF AreEnds
<1> HIDE DEF End, Ends
<1>6. AreEnds(bounds, AllBlocks) /\ \A e : AreEnds(e, AllBlocks) => \A k \in 0 .. N : e[k] = bounds[k]
  BY <1>2, BoundsAreEnds
<1>7. Ends(End)
  BY <1>4, <1>5, <1>6
<1>8. \A k \in 0 .. N : End[k] = bounds[k]
  BY <1>5, <1>6, <1>7
<1>9. /\ IsConfigured /\ Len(units) \in Nat /\ FirstIndex \in Nat /\ units \in Seq(Unit)
      /\ AllBlocks \in Seq(Block) /\ N \in Nat
  <2>1. N \in Nat
    BY AllBlocksAre
  <2> QED BY <2>1, UnitsTyped, AllBlocksAre DEF IInv, TypeOK
<1>10. ASSUME NEW k \in DOMAIN units
       PROVE  /\ units[k].block.sequence = (FirstIndex + k - 1) % mAudioSequenceCount
              /\ units[k].block.samples = mAudioSequence(units[k].block.sequence)
              /\ units[k].block.zeros > 0 /\ HasAudio => k = Len(units) /\ mMXFFile = "completed"
              /\ \A f \in DOMAIN units[k].fills : units[k].fills[f] >= KLSize
  <2>1. k \in 1 .. Len(units)
    BY <1>9
  <2>2. UnitIsFull(k)
    BY <2>1 DEF IInv, UnitsAreFull
  <2>3. FirstIndex + k - 1 = (FirstIndex + k) - 1
    BY <1>9, <2>1
  <2> QED BY <2>2, <2>3 DEF UnitIsFull, SamplesAt
<1> HIDE DEF blocks
<1>11. ASSUME NEW k \in DOMAIN blocks
       PROVE  /\ blocks[k].samples = blocks[k].zeros + End[k] - End[k - 1]
              /\ \A i \in DOMAIN blocks[k].runs :
                   blocks[k].runs[i][1] = IF i = 1 THEN End[k - 1] ELSE blocks[k].runs[i - 1][2]
  <2>1. k \in 1 .. N /\ k \in 0 .. N /\ k - 1 \in 0 .. N
    BY <1>3, <1>9
  <2>2. End[k] = bounds[k] /\ End[k - 1] = bounds[k - 1]
    BY <1>8, <2>1
  <2>3. /\ IsRun(blocks[k].runs, bounds[k - 1], bounds[k])
        /\ blocks[k].samples = blocks[k].zeros + (bounds[k] - bounds[k - 1])
    BY <1>2, <1>3, <2>1 DEF FitBetween
  <2>4. blocks[k].samples = blocks[k].zeros + End[k] - End[k - 1]
    BY <2>2, <2>3
  <2> DEFINE runs == blocks[k].runs
             from == bounds[k - 1]
             to == bounds[k]
  <2> HIDE DEF runs, from, to
  <2>5. IsRun(runs, from, to)
    BY <2>3 DEF runs, from, to
  <2>6. ASSUME NEW i \in DOMAIN runs PROVE runs[i][1] = IF i = 1 THEN from ELSE runs[i - 1][2]
    <3>1. runs \in Seq(Nat \X Nat)
      BY <2>5 DEF IsRun
    <3>2. runs # <<>> /\ i \in 1 .. Len(runs)
      BY <3>1
    <3>3. runs[1][1] = from /\ \A m \in 2 .. Len(runs) : runs[m][1] = runs[m - 1][2]
      BY <2>5, <3>2 DEF IsRun
    <3>4. i = 1 \/ i \in 2 .. Len(runs)
      BY <3>1, <3>2
    <3> QED BY <3>3, <3>4
  <2> QED BY <2>2, <2>4, <2>6 DEF runs, from
<1>12. End[Len(blocks)] = IF ~HasAudio \/ OffsetIsUnknown THEN 0 ELSE SamplesGiven
  <2>1. N \in 0 .. N
    BY <1>9
  <2> QED BY <1>2, <1>3, <1>8, <2>1
<1> QED BY <1>10, <1>11, <1>12 DEF AudioIsContinuous, blocks, End

\* ContinuousAudio: the blocks have the numbers of samples and the indexes of the
\* sequence; the blocks in the file and in memory have the samples of all packages
\* given, none lost, repeated or out of order; and only the last block of the
\* completed file is padded.
THEOREM ContinuousAudio == Spec => []AudioIsContinuous
BY AudioFollows, Invariance, PTL


LEMMA TotalAt ==
  ASSUME IsConfigured, NEW j \in Nat
  PROVE  /\ Total(j) \in Nat /\ Total(j + 1) = Total(j) + SamplesAt(j)
         /\ SamplesAt(j) \in Nat /\ SamplesAt(j) > 0
         /\ Rate.maxFinalPadding \in {0, 4}
<1>1. Total(j) \in Nat /\ Total(j + 1) = Total(j) + SamplesAt(j)
  BY TotalAdds
<1>2. SamplesAt(j) \in Nat /\ 1601 <= SamplesAt(j)
  BY BlocksHaveSamples
<1>3. Rate.maxFinalPadding \in {0, 4}
  BY BlocksHaveSamples
<1> DEFINE s == SamplesAt(j)
<1>4. s \in Nat /\ 1601 <= s
  BY <1>2
<1> HIDE DEF s
<1>5. s > 0
  BY <1>4
<1> QED BY <1>1, <1>2, <1>3, <1>5 DEF s

\* The samples that must be missing for packages to be buffered.
Wanted == IF mMXFFile = "completed" THEN Rate.maxFinalPadding ELSE 0

\* Packages that are buffered have, with those written, fewer samples than it takes
\* to fill the next block.
LEMMA BufferedLackSamples ==
  ASSUME IInv, HasAudio, ~OffsetIsUnknown, mBufferedContentPackages # <<>>
  PROVE  LET next == FirstIndex + Len(units)
         IN /\ Len(units) + 1 <= Len(given)
            /\ SamplesGiven + Wanted < Total(next + 1) - Total(FirstIndex)
<1> DEFINE n == Len(units)
           f == FirstIndex
           j == f + n
           last == mAES3Blocks[Len(mAES3Blocks)]
           P == Padding
<1>1. /\ IsConfigured /\ n \in Nat /\ f \in Nat /\ mBufferedContentPackages \in Seq(Package)
      /\ n + Len(mBufferedContentPackages) = Len(given)
  BY UnitsTyped
<1>2. n + 1 <= Len(given)
  <2>1. Len(mBufferedContentPackages) \in Nat /\ Len(mBufferedContentPackages) > 0
    BY <1>1
  <2> HIDE DEF n
  <2> QED BY <1>1, <2>1
<1>3. j \in Nat /\ f <= j
  BY <1>1
<1>4. LaidOut(mAES3Blocks, j, f) /\ SamplesGiven = EndOf(mAES3Blocks, j, f) - P
  BY DEF IInv, MemoryFollows
<1>5. Len(mAES3Blocks) = 1 /\ Room(mAudioSequenceIndex, mAES3Blocks) > Wanted
  BY DEF IInv, BufferedForWant, Wanted
<1>6. mAudioSequenceIndex = j % mAudioSequenceCount
  <2>1. mMXFFile # "none"
    BY DEF IInv, NotCreated
  <2> QED BY <2>1 DEF IInv, IndexIsNext
<1>7. P \in Nat
  BY BlocksAreAtPlace
<1> HIDE DEF j, f, n, P
<1>8. SamplesAt(j) - last.samples > Wanted
  <2>1. Room(j % mAudioSequenceCount, mAES3Blocks) = RoomAt(mAES3Blocks, j)
    BY <1>1, <1>3, <1>4, RoomAtIs
  <2>2. (j + 1) - 1 = j
    BY <1>3
  <2>3. RoomAt(mAES3Blocks, j) = SamplesAt(j) - last.samples
    BY <1>5, <2>2 DEF RoomAt
  <2> QED BY <1>5, <1>6, <2>1, <2>3
<1>9. SamplesGiven = ((Total(j) - Total(f)) + (last.samples - last.zeros)) - P
  <2>1. (j + 1) - 1 = j
    BY <1>3
  <2> QED BY <1>4, <1>5, <2>1 DEF EndOf
<1>10. last.samples \in Nat /\ last.zeros \in Nat
  <2>1. last \in Block
    <3>1. 1 \in 1 .. 1 /\ BlockAt(mAES3Blocks[1], (j + 1) - 1, f)
      BY <1>4, <1>5 DEF LaidOut
    <3> QED BY <1>5, <3>1 DEF BlockAt
  <2> HIDE DEF last
  <2> QED BY <2>1, BlockFields
<1>11. Total(j + 1) = Total(j) + SamplesAt(j) /\ Total(j) \in Nat
  BY <1>1, <1>3, TotalAdds
<1>12. SamplesAt(j) \in Nat /\ Rate.maxFinalPadding \in {0, 4}
  BY <1>1, <1>3, TotalAt
<1>13. Total(f) \in Nat
  BY <1>1, TotalAdds
<1>14. SamplesGiven + Wanted < Total(j + 1) - Total(f)
  <2> DEFINE s == last.samples
             z == last.zeros
             a == Total(j)
             b == Total(f)
             c == SamplesAt(j)
             w == Wanted
             g == SamplesGiven
             e == Total(j + 1)
  <2>1. w \in Nat
    BY <1>12 DEF Wanted
  <2>2. /\ s \in Nat /\ z \in Nat /\ a \in Nat /\ b \in Nat /\ c \in Nat /\ c - s > w
        /\ e = a + c /\ g = ((a - b) + (s - z)) - P
    BY <1>8, <1>9, <1>10, <1>11, <1>12, <1>13
  <2> HIDE DEF s, z, a, b, c, w, g, e
  <2>3. g + w < e - b
    BY <1>7, <2>1, <2>2
  <2> QED BY <2>3 DEF g, w, e, b
<1> QED BY <1>2, <1>14 DEF j, f, n

\* The packages given are those of the sequence from block f on.
GivenFollow(f) == \A k \in 1 .. Len(given) : given[k] = SamplesAt((f + k) - 1)

LEMMA FollowingSums ==
  ASSUME IsConfigured, given \in Seq(Nat), NEW f \in Nat, GivenFollow(f)
  PROVE  \A k \in 0 .. Len(given) : SumTo(given, k) = Total(f + k) - Total(f)
<1> DEFINE N == Len(given)
           S == {k \in Nat : k <= N => SumTo(given, k) = Total(f + k) - Total(f)}
<1>1. N \in Nat /\ SumTo(given, 0) = 0 /\ Total(f) \in Nat
      /\ \A k \in 1 .. N : SumTo(given, k) = SumTo(given, k - 1) + given[k]
  <2>1. Total(f) \in Nat
    BY TotalAt
  <2>2. SumTo(given, 0) = 0 /\ \A k \in 1 .. N : SumTo(given, k) = SumTo(given, k - 1) + given[k]
    BY SumsAre
  <2> QED BY <2>1, <2>2
<1> HIDE DEF N
<1>2. 0 \in S
  <2>1. f + 0 = f
    OBVIOUS
  <2> QED BY <1>1, <2>1
<1>3. ASSUME NEW k \in Nat, k \in S PROVE k + 1 \in S
  <2> SUFFICES ASSUME k + 1 <= N PROVE SumTo(given, k + 1) = Total(f + (k + 1)) - Total(f)
    OBVIOUS
  <2> DEFINE m == k + 1
             p == f + k
  <2>1. m \in 1 .. N /\ m - 1 = k /\ p \in Nat /\ (f + m) - 1 = p /\ f + m = p + 1
    BY <1>1
  <2>2. SumTo(given, k) = Total(p) - Total(f)
    BY <1>1, <1>3
  <2> HIDE DEF m, p
  <2>3. SumTo(given, m) = SumTo(given, k) + given[m]
    BY <1>1, <2>1
  <2>4. given[m] = SamplesAt(p)
    BY <2>1 DEF GivenFollow, N
  <2>5. Total(p + 1) = Total(p) + SamplesAt(p) /\ Total(p) \in Nat
    BY <2>1, TotalAdds
  <2>6. SamplesAt(p) \in Nat
    BY <2>1, TotalAt
  <2>7. SumTo(given, m) = Total(f + m) - Total(f)
    <3> DEFINE a == Total(p)
               b == Total(f)
               s == SamplesAt(p)
               t == SumTo(given, k)
    <3>1. /\ a \in Nat /\ b \in Nat /\ s \in Nat /\ t = a - b
          /\ SumTo(given, m) = t + s /\ Total(f + m) = a + s
      BY <1>1, <2>1, <2>2, <2>3, <2>4, <2>5, <2>6
    <3> HIDE DEF a, b, s, t
    <3>2. t + s = (a + s) - b
      BY <3>1
    <3> QED BY <3>1, <3>2 DEF b
  <2> QED BY <2>7 DEF m
<1>4. \A k \in Nat : k \in S
  <2> HIDE DEF S
  <2> QED BY <1>2, <1>3, InductionOnNat
<1> QED BY <1>1, <1>4 DEF N

\* Packages that follow the sequence from the file's first block on are all written,
\* and not padded.
LEMMA FollowingAreWritten ==
  ASSUME IInv, HasAudio, ~OffsetIsUnknown, GivenFollow(FirstIndex)
  PROVE  /\ Len(units) = Len(given) /\ mBufferedContentPackages = <<>>
         /\ \A k \in DOMAIN units : units[k].block.zeros = 0
<1> DEFINE n == Len(units)
           f == FirstIndex
           g == Len(given)
           N == Len(AllBlocks)
           P == Padding
<1>1. /\ IsConfigured /\ n \in Nat /\ f \in Nat /\ given \in Seq(Nat) /\ g \in Nat
      /\ n + Len(mBufferedContentPackages) = g
      /\ mBufferedContentPackages \in Seq(Package) /\ units \in Seq(Unit)
  BY UnitsTyped DEF IInv, TypeOK
<1>2. SamplesGiven = Total(f + g) - Total(f)
  <2>1. SumTo(given, g) = Total(f + g) - Total(f)
    <3>1. g \in 0 .. g
      BY <1>1
    <3> QED BY <1>1, <3>1, FollowingSums
  <2> QED BY <2>1, SamplesGivenIs
<1>3. mBufferedContentPackages = <<>>
  <2> SUFFICES ASSUME mBufferedContentPackages # <<>> PROVE FALSE
    OBVIOUS
  <2>1. /\ n + 1 <= g
        /\ SamplesGiven + Wanted < Total((f + n) + 1) - Total(f)
    BY BufferedLackSamples
  <2>2. Wanted \in Nat
    <3>1. Rate.maxFinalPadding \in {0, 4}
      BY <1>1, BlocksHaveSamples
    <3> QED BY <3>1 DEF Wanted
  <2> HIDE DEF n, f, g
  <2>3. (f + n) + 1 \in Nat /\ f + g \in Nat /\ (f + n) + 1 <= f + g
    BY <1>1, <2>1
  <2>4. Total((f + n) + 1) \in Nat /\ Total(f + g) \in Nat /\ Total((f + n) + 1) <= Total(f + g)
    BY <1>1, <2>3, TotalGrows
  <2>5. Total(f) \in Nat
    BY <1>1, TotalAdds
  <2> QED BY <1>2, <2>1, <2>2, <2>4, <2>5
<1>4. n = g
  BY <1>1, <1>3
<1>5. P = 0
  <2> SUFFICES ASSUME P # 0 PROVE FALSE
    OBVIOUS
  <2>1. /\ P \in Nat
        /\ P > 0 => N = n + 1 /\ AllBlocks[N].samples = 0
        /\ SamplesGiven = ((Total((f + N) - 1) - Total(f)) + (AllBlocks[N].samples - AllBlocks[N].zeros)) - P
        /\ \A k \in 1 .. N : BlockAt(AllBlocks[k], (f + k) - 1, f)
    BY BlocksAreAtPlace
  <2>2. N = n + 1 /\ AllBlocks[N].samples = 0
    BY <2>1
  <2> HIDE DEF n, f, g, N, P
  <2>3. (f + N) - 1 = f + g /\ N \in 1 .. N
    <3>1. n \in Nat /\ f \in Nat /\ n = g /\ N = n + 1
      BY <1>1, <1>4, <2>2
    <3> QED BY <3>1
  <2>4. AllBlocks[N].zeros = 0
    <3>1. AllBlocks[N] \in Block /\ AllBlocks[N].zeros <= AllBlocks[N].samples
      BY <2>1, <2>3 DEF BlockAt
    <3>2. AllBlocks[N].zeros \in Nat
      BY <3>1, BlockFields
    <3> QED BY <2>2, <3>1, <3>2
  <2>5. Total(f + g) \in Nat /\ Total(f) \in Nat
    <3>1. f \in Nat /\ f + g \in Nat
      BY <1>1
    <3> QED BY <1>1, <3>1, TotalAt
  <2> QED BY <1>2, <2>1, <2>2, <2>3, <2>4, <2>5
<1>6. ASSUME NEW k \in DOMAIN units PROVE units[k].block.zeros = 0
  <2>1. k \in 1 .. n
    BY <1>1
  <2>2. UnitIsFull(k)
    BY <2>1 DEF IInv, UnitsAreFull
  <2>3. units[k].block.zeros \in Nat
    <3>1. units[k].block \in Block
      BY <2>2 DEF UnitIsFull, BlockAt
    <3> QED BY <3>1, BlockFields
  <2>4. k = n => units[k].block.zeros = 0
    <3> SUFFICES ASSUME k = n PROVE units[k].block.zeros = 0
      OBVIOUS
    <3>1. units # <<>>
      BY <1>1, <2>1
    <3> QED BY <1>5, <3>1 DEF Padding
  <2>5. units[k].block.zeros > 0 => k = n
    BY <2>2 DEF UnitIsFull
  <2> QED BY <2>3, <2>4, <2>5
<1> QED BY <1>3, <1>4, <1>6


LEMMA FollowsGives ==
  ASSUME IsConfigured, given \in Seq(Nat), NEW o \in Nat, Follows(Rate.sequence, o)
  PROVE  GivenFollow(o)
<1> SUFFICES ASSUME NEW k \in 1 .. Len(given) PROVE given[k] = SamplesAt((o + k) - 1)
  BY DEF GivenFollow
<1>1. k \in DOMAIN given /\ k - 1 + o = (o + k) - 1 /\ (o + k) - 1 \in Nat
  OBVIOUS
<1>2. given[k] = Rate.sequence[1 + ((k - 1 + o) % Len(Rate.sequence))]
  BY <1>1 DEF Follows
<1> DEFINE p == (o + k) - 1
           i == p % mAudioSequenceCount
<1>3. given[k] = Rate.sequence[1 + i]
  BY <1>1, <1>2 DEF mAudioSequenceCount
<1>4. i \in 0 .. 4
  BY <1>1, IndexInSequence
<1>5. SamplesAt(p) = Rate.sequence[i + 1]
  BY DEF SamplesAt, mAudioSequence
<1> HIDE DEF i, p
<1>6. 1 + i = i + 1
  BY <1>4
<1> QED BY <1>3, <1>5, <1>6 DEF p

\* Five blocks tell the sequence's offset.
LEMMA OffsetIsOne ==
  ASSUME Is60I, NEW f \in 0 .. 4, NEW o \in 0 .. 4,
         \A i \in 0 .. 4 : SamplesAt(f + i) = SamplesAt(o + i)
  PROVE  f = o
<1> DEFINE odd(j) == j % 5 \in {1, 3}
<1>1. \A j \in Nat : SamplesAt(j) = IF odd(j) THEN 1601 ELSE 1602
  BY Sequence60I
<1>2. \A i \in 0 .. 4 : odd(f + i) <=> odd(o + i)
  <2> SUFFICES ASSUME NEW i \in 0 .. 4 PROVE odd(f + i) <=> odd(o + i)
    OBVIOUS
  <2>1. f + i \in Nat /\ o + i \in Nat /\ SamplesAt(f + i) = SamplesAt(o + i)
    OBVIOUS
  <2> DEFINE a == f + i
             b == o + i
  <2> HIDE DEF a, b, odd
  <2>2. (IF odd(a) THEN 1601 ELSE 1602) = (IF odd(b) THEN 1601 ELSE 1602)
    BY <1>1, <2>1 DEF a, b
  <2> QED BY <2>2 DEF a, b
<1>3. \A x \in 0 .. 4 : (odd(x + 0) /\ odd(x + 2)) <=> x = 1
  OBVIOUS
<1>4. \A x \in 0 .. 4 : (odd(x + 1) /\ odd(x + 3)) <=> x = 0
  OBVIOUS
<1>5. \A x \in 0 .. 4 : (odd(x + 4) /\ odd(x + 1)) <=> x = 2
  OBVIOUS
<1>6. \A x \in 0 .. 4 : (odd(x + 0) /\ odd(x + 3)) <=> x = 3
  OBVIOUS
<1>7. \A x \in 0 .. 4 : (odd(x + 4) /\ odd(x + 2)) <=> x = 4
  OBVIOUS
<1> HIDE DEF odd
<1>8. f \in {0, 1, 2, 3, 4}
  OBVIOUS
<1>9. 0 \in 0 .. 4 /\ 1 \in 0 .. 4 /\ 2 \in 0 .. 4 /\ 3 \in 0 .. 4 /\ 4 \in 0 .. 4
  OBVIOUS
<1>10. /\ odd(f + 0) <=> odd(o + 0)
       /\ odd(f + 1) <=> odd(o + 1)
       /\ odd(f + 2) <=> odd(o + 2)
       /\ odd(f + 3) <=> odd(o + 3)
       /\ odd(f + 4) <=> odd(o + 4)
  BY <1>2, <1>9
<1>11. CASE f = 0
  BY <1>4, <1>10, <1>11
<1>12. CASE f = 1
  BY <1>3, <1>10, <1>12
<1>13. CASE f = 2
  BY <1>5, <1>10, <1>13
<1>14. CASE f = 3
  BY <1>6, <1>10, <1>14
<1>15. CASE f = 4
  BY <1>7, <1>10, <1>15
<1> QED BY <1>8, <1>11, <1>12, <1>13, <1>14, <1>15

\* If the packages follow the sequence from an offset that the file may begin with,
\* they follow it from the one it begins with.
LEMMA ConformingFollow ==
  ASSUME IInv, HasAudio, ~OffsetIsUnknown,
         NEW o \in 0 .. mAudioSequenceCount - 1, MayBeginWith(o), Follows(Rate.sequence, o)
  PROVE  GivenFollow(FirstIndex)
<1>1. IsConfigured /\ given \in Seq(Nat) /\ FirstIndex \in Nat
  BY UnitsTyped
<1>2. mAudioSequenceCount \in {1, 5}
  BY <1>1, BlocksHaveSamples
<1>3. o \in Nat /\ o \in 0 .. 4
  <2> DEFINE c == mAudioSequenceCount
  <2>1. c \in {1, 5} /\ o \in 0 .. c - 1
    BY <1>2
  <2> HIDE DEF c
  <2> QED BY <2>1
<1>4. GivenFollow(o)
  BY <1>1, <1>3, FollowsGives
<1>5. CASE o = FirstIndex
  BY <1>4, <1>5
<1>6. CASE configuration.offset = UNKNOWN_SEQUENCE_OFFSET /\ Is50I
  <2>1. mAudioSequenceCount = 1
    BY <1>6, Sequence50I
  <2>2. mAudioSequenceOffset = UNKNOWN_SEQUENCE_OFFSET
    <3>1. ~(mAudioSequenceCount > 1)
      BY <2>1
    <3> QED BY <1>6, <3>1 DEF IInv, OffsetIsKept
  <2>3. FirstIndex = 0
    BY <2>2 DEF FirstIndex
  <2>4. o = 0
    BY <2>1
  <2> QED BY <1>4, <2>3, <2>4
<1>7. CASE configuration.offset = UNKNOWN_SEQUENCE_OFFSET /\ Is60I
  <2> DEFINE f == mAudioSequenceOffset
  <2>1. mAudioSequenceCount = 5 /\ mAudioSequenceCount > 1 /\ mAudioSequenceCount + 1 = 6
        /\ mAudioSequenceCount - 1 = 4
    BY <1>7, Sequence60I
  <2>2. f \in 0 .. 4 /\ ((\E x \in 0 .. 4 : Match(6, x)) => Match(6, f))
    <3>1. OffsetIsFound
      BY DEF IInv
    <3> HIDE DEF f
    <3> QED BY <1>7, <2>1, <3>1 DEF OffsetIsFound, f
  <2>3. FirstIndex = f
    <3>1. f # UNKNOWN_SEQUENCE_OFFSET
      BY <2>2 DEF UNKNOWN_SEQUENCE_OFFSET
    <3>2. f % 5 = f
      BY <2>2
    <3> QED BY <2>1, <3>1, <3>2 DEF FirstIndex
  <2> HIDE DEF f
  <2>4. \A k \in 1 .. Len(given), x \in 0 .. 4 : (k - 1) + x = (x + k) - 1
    <3>1. Len(given) \in Nat
      BY <1>1
    <3> DEFINE n == Len(given)
    <3> HIDE DEF n
    <3> QED BY <3>1
  <2>5. Match(6, o)
    BY <1>3, <1>4, <2>4 DEF GivenFollow, Match
  <2>6. Match(6, f)
    BY <1>3, <2>2, <2>5
  <2>7. \A k \in 1 .. Len(given) : k <= 6 => given[k] = SamplesAt((f + k) - 1)
    BY <2>2, <2>4, <2>6 DEF Match
  <2>8. CASE Len(given) <= 6
    <3>1. Len(given) \in Nat
      BY <1>1
    <3>2. \A k \in 1 .. Len(given) : k <= 6
      BY <2>8, <3>1
    <3> QED BY <2>3, <2>7, <3>2 DEF GivenFollow
  <2>9. CASE ~(Len(given) <= 6)
    <3>1. Len(given) \in Nat
      BY <1>1
    <3>2. ASSUME NEW i \in 0 .. 4 PROVE SamplesAt(f + i) = SamplesAt(o + i)
      <4> DEFINE k == i + 1
      <4>1. k \in 1 .. Len(given) /\ k <= 6 /\ (f + k) - 1 = f + i /\ (o + k) - 1 = o + i
        BY <1>3, <2>2, <2>9, <3>1
      <4> HIDE DEF k
      <4>2. given[k] = SamplesAt((f + k) - 1)
        BY <2>7, <4>1
      <4>3. given[k] = SamplesAt((o + k) - 1)
        BY <1>4, <4>1 DEF GivenFollow
      <4> QED BY <4>1, <4>2, <4>3
    <3>3. f = o
      BY <1>3, <1>7, <2>2, <3>2, OffsetIsOne
    <3> QED BY <1>4, <2>3, <3>3
  <2> QED BY <2>8, <2>9
<1> QED BY <1>1, <1>5, <1>6, <1>7, RateIs DEF MayBeginWith


\* The sum of the first k numbers of DV's sequence.
DVSum(k) == 8008 * (k \div 5) + (IF k % 5 = 0 THEN 0 ELSE 1602 * (k % 5) - 2)

LEMMA DVSumAdds ==
  ASSUME NEW k \in Nat
  PROVE  /\ DVSum(k) \in Nat
         /\ DVSum(k + 1) = DVSum(k) + (IF k % 5 = 0 THEN 1600 ELSE 1602)
<1> DEFINE q == k \div 5
           r == k % 5
           q1 == (k + 1) \div 5
           r1 == (k + 1) % 5
<1>1. q \in Nat /\ r \in 0 .. 4
  OBVIOUS
<1>2. IF r = 4 THEN q1 = q + 1 /\ r1 = 0 ELSE q1 = q /\ r1 = r + 1
  OBVIOUS
<1>3. /\ DVSum(k) = 8008 * q + (IF r = 0 THEN 0 ELSE 1602 * r - 2)
      /\ DVSum(k + 1) = 8008 * q1 + (IF r1 = 0 THEN 0 ELSE 1602 * r1 - 2)
  BY DEF DVSum
<1> HIDE DEF q, r, q1, r1
<1>4. DVSum(k) \in Nat
  BY <1>1, <1>3
<1>5. CASE r = 4
  BY <1>1, <1>2, <1>3, <1>5 DEF r
<1>6. CASE r = 0
  BY <1>1, <1>2, <1>3, <1>6 DEF r
<1>7. CASE r \in 1 .. 3
  <2>1. q1 = q /\ r1 = r + 1 /\ r1 # 0
    BY <1>2, <1>7
  <2> QED BY <1>1, <1>3, <1>7, <2>1 DEF r
<1>8. r = 4 \/ r = 0 \/ r \in 1 .. 3
  BY <1>1
<1> QED BY <1>4, <1>5, <1>6, <1>7, <1>8

LEMMA DVSums ==
  ASSUME given \in Seq(Nat), Follows(DVSequence, 0)
  PROVE  \A k \in 0 .. Len(given) : SumTo(given, k) = DVSum(k)
<1> DEFINE N == Len(given)
           S == {k \in Nat : k <= N => SumTo(given, k) = DVSum(k)}
<1>1. N \in Nat /\ SumTo(given, 0) = 0
      /\ \A k \in 1 .. N : SumTo(given, k) = SumTo(given, k - 1) + given[k]
  BY SumsAre
<1>2. \A k \in 1 .. N : given[k] = IF (k - 1) % 5 = 0 THEN 1600 ELSE 1602
  <2> SUFFICES ASSUME NEW k \in 1 .. N PROVE given[k] = IF (k - 1) % 5 = 0 THEN 1600 ELSE 1602
    OBVIOUS
  <2> DEFINE i == (k - 1) % 5
  <2>1. k \in DOMAIN given /\ k - 1 + 0 = k - 1 /\ i \in 0 .. 4
    BY <1>1
  <2>2. Len(DVSequence) = 5
    BY DEF DVSequence
  <2>3. given[k] = DVSequence[1 + i]
    BY <2>1, <2>2 DEF Follows
  <2> HIDE DEF i
  <2>4. DVSequence[1 + i] = IF i = 0 THEN 1600 ELSE 1602
    BY <2>1 DEF DVSequence
  <2> QED BY <2>3, <2>4 DEF i
<1> HIDE DEF N
<1>3. 0 \in S
  <2>1. DVSum(0) = 0
    BY DEF DVSum
  <2> QED BY <1>1, <2>1
<1>4. ASSUME NEW k \in Nat, k \in S PROVE k + 1 \in S
  <2> SUFFICES ASSUME k + 1 <= N PROVE SumTo(given, k + 1) = DVSum(k + 1)
    OBVIOUS
  <2>0. DVSum(k) \in Nat /\ DVSum(k + 1) = DVSum(k) + (IF k % 5 = 0 THEN 1600 ELSE 1602)
    BY ONLY DVSumAdds, k \in Nat
  <2> DEFINE m == k + 1
             r == k % 5
  <2>1. m \in 1 .. N /\ m - 1 = k /\ SumTo(given, k) = DVSum(k)
    BY <1>1, <1>4
  <2>2. DVSum(m) = DVSum(k) + (IF r = 0 THEN 1600 ELSE 1602)
    BY <2>0
  <2> HIDE DEF m
  <2>3. SumTo(given, m) = SumTo(given, k) + (IF r = 0 THEN 1600 ELSE 1602)
    BY <1>1, <1>2, <2>1
  <2> QED BY <2>1, <2>2, <2>3 DEF m
<1>5. \A k \in Nat : k \in S
  <2> HIDE DEF S
  <2> QED BY <1>3, <1>4, InductionOnNat
<1> QED BY <1>1, <1>5 DEF N

\* The sequence's blocks have no more than two samples more.
LEMMA DVIsClose ==
  ASSUME Is60I, NEW f \in 0 .. 4, NEW k \in Nat
  PROVE  Total(f + k) - Total(f) <= DVSum(k) + 2
<1> DEFINE q == k \div 5
           r == k % 5
           w(i) == 1601 * i + (i + 1) \div 2
           Q == (f + k) \div 5
           R == (f + k) % 5
<1>1. q \in Nat /\ r \in 0 .. 4
  OBVIOUS
<1>2. IF f + r < 5 THEN Q = q /\ R = f + r ELSE Q = q + 1 /\ R = (f + r) - 5
  OBVIOUS
<1>3. Total(f + k) = 8008 * Q + w(R)
  BY DEF Total, Is60I
<1>4. Total(f) = w(f)
  <2>1. f \div 5 = 0 /\ f % 5 = f
    OBVIOUS
  <2>2. Total(f) = 8008 * (f \div 5) + 1601 * (f % 5) + ((f % 5) + 1) \div 2
    BY DEF Total, Is60I
  <2> QED BY <2>1, <2>2
<1>5. DVSum(k) = 8008 * q + (IF r = 0 THEN 0 ELSE 1602 * r - 2)
  BY DEF DVSum
<1>6. \A i \in 0 .. 4 : w(i) = IF i = 0 THEN 0 ELSE 1601 * i + (IF i \in {1, 2} THEN 1 ELSE 2)
  OBVIOUS
<1> HIDE DEF q, r, Q, R, w
<1> DEFINE v(i) == IF i = 0 THEN 0 ELSE 1601 * i + (IF i \in {1, 2} THEN 1 ELSE 2)
<1>7. R \in 0 .. 4
  BY <1>1, <1>2
<1>8. Total(f + k) = 8008 * Q + v(R) /\ Total(f) = v(f)
  BY <1>3, <1>4, <1>6, <1>7
<1>9. CASE f + r < 5
  <2>1. v(f + r) - v(f) <= (IF r = 0 THEN 0 ELSE 1602 * r - 2) + 2
    BY <1>1, <1>9
  <2>2. v(f + r) \in Int /\ v(f) \in Int
    BY <1>1
  <2> HIDE DEF v
  <2> QED BY <1>1, <1>2, <1>5, <1>8, <1>9, <2>1, <2>2
<1>10. CASE ~(f + r < 5)
  <2> DEFINE p == (f + r) - 5
  <2>1. p \in 0 .. 3 /\ r = p + (5 - f) /\ r # 0
    BY <1>1, <1>10
  <2>2. (8008 + v(p)) - v(f) <= 1602 * r
    BY <1>1, <2>1
  <2>3. v(p) \in Int /\ v(f) \in Int
    BY <2>1
  <2>4. Q = q + 1 /\ R = p
    BY <1>2, <1>10
  <2> HIDE DEF v, p
  <2>5. DVSum(k) = 8008 * q + (1602 * r - 2)
    BY <1>5, <2>1
  <2> QED BY <1>1, <1>8, <2>2, <2>3, <2>4, <2>5
<1> QED BY <1>9, <1>10

\* Packages with the samples of DV's sequence are all written.
LEMMA DVIsWritten ==
  ASSUME IInv, HasAudio, ~OffsetIsUnknown, mMXFFile = "completed",
         mAudioSequenceCount = 5, Follows(DVSequence, 0)
  PROVE  Len(units) = Len(given)
<1> DEFINE n == Len(units)
           f == FirstIndex
           g == Len(given)
<1>1. /\ IsConfigured /\ n \in Nat /\ given \in Seq(Nat) /\ g \in Nat
      /\ n + Len(mBufferedContentPackages) = g /\ mBufferedContentPackages \in Seq(Package)
      /\ mAudioSequenceOffset \in 0 .. 255
  BY UnitsTyped
<1>2. Is60I
  BY <1>1, RateIs, Sequence50I
<1>3. f \in 0 .. 4
  <2> DEFINE o == mAudioSequenceOffset
  <2>1. f = IF o = UNKNOWN_SEQUENCE_OFFSET THEN 0 ELSE o % 5
    BY DEF FirstIndex
  <2>2. o \in Nat
    BY <1>1
  <2> HIDE DEF o, f
  <2>3. o % 5 \in 0 .. 4
    BY <2>2
  <2> QED BY <2>1, <2>3
<1>4. SamplesGiven = DVSum(g)
  <2>1. g \in 0 .. g
    BY <1>1
  <2>2. SumTo(given, g) = DVSum(g)
    BY <1>1, <2>1, DVSums
  <2> QED BY <2>2, SamplesGivenIs
<1>5. mBufferedContentPackages = <<>>
  <2> SUFFICES ASSUME mBufferedContentPackages # <<>> PROVE FALSE
    OBVIOUS
  <2>1. n + 1 <= g /\ SamplesGiven + Wanted < Total((f + n) + 1) - Total(f)
    BY BufferedLackSamples
  <2>2. Wanted = 4
    BY <1>2, Sequence60I DEF Wanted
  <2> HIDE DEF n, f, g
  <2>3. Total(f + g) - Total(f) <= DVSum(g) + 2
    BY <1>1, <1>2, <1>3, DVIsClose
  <2>4. (f + n) + 1 \in Nat /\ f + g \in Nat /\ (f + n) + 1 <= f + g /\ f \in Nat
    BY <1>1, <1>3, <2>1
  <2>5. Total((f + n) + 1) \in Nat /\ Total(f + g) \in Nat /\ Total((f + n) + 1) <= Total(f + g)
    BY <1>1, <2>4, TotalGrows
  <2>6. Total(f) \in Nat /\ DVSum(g) \in Nat
    <3>1. Total(f) \in Nat
      BY <1>1, <2>4, TotalAt
    <3>2. DVSum(g) \in Nat
      BY <1>1, DVSumAdds
    <3> QED BY <3>1, <3>2
  <2> QED BY <1>4, <2>1, <2>2, <2>3, <2>5, <2>6
<1> QED BY <1>1, <1>5

LEMMA ConformingIsWritten == IInv => ConformingInputIsWritten
<1> SUFFICES ASSUME IInv, HasAudio
             PROVE  /\ mMXFFile = "completed" =>
                         /\ (\E o \in 0 .. mAudioSequenceCount - 1 :
                               MayBeginWith(o) /\ Follows(Rate.sequence, o)) =>
                              Len(units) = Len(given) /\ \A k \in DOMAIN units : units[k].block.zeros = 0
                         /\ mAudioSequenceCount = 5 /\ Follows(DVSequence, 0) => Len(units) = Len(given)
                    /\ mMXFFile = "open" /\ Follows(Rate.sequence, FirstIndex) =>
                         GetAudioSampleCount = mAudioSequence((FirstIndex + Len(given)) % mAudioSequenceCount)
  BY DEF ConformingInputIsWritten
<1> DEFINE f == FirstIndex
           c == mAudioSequenceCount
           n == Len(units)
           g == Len(given)
<1>1. /\ IsConfigured /\ n \in Nat /\ given \in Seq(Nat) /\ g \in Nat
      /\ n + Len(mBufferedContentPackages) = g /\ mBufferedContentPackages \in Seq(Package)
      /\ mDuration = n /\ f \in Nat /\ units \in Seq(Unit)
  BY UnitsTyped DEF IInv, TypeOK
<1>2. CASE OffsetIsUnknown
  <2>1. /\ units = <<>> /\ mMXFFile = "completed" => given = <<>>
    BY <1>2 DEF IInv, WhileUnknown
  <2>2. units = <<>>
    BY <1>2 DEF IInv, WhileUnknown
  <2>3. DOMAIN units = {} /\ n = 0
    BY <2>2
  <2>4. mMXFFile = "completed" => n = g
    BY <2>1, <2>2
  <2>5. GetAudioSampleCount = mAudioSequence((f + g) % c)
    <3>1. GetAudioSampleCount = mAudioSequence(Len(mBufferedContentPackages) % c)
      BY <1>2 DEF GetAudioSampleCount, OffsetIsUnknown
    <3>2. f = 0
      BY <1>2 DEF OffsetIsUnknown, FirstIndex
    <3>3. Len(mBufferedContentPackages) = f + g
      <4>1. Len(mBufferedContentPackages) \in Nat
        BY <1>1
      <4> HIDE DEF n, f, g
      <4> QED BY <1>1, <2>3, <3>2, <4>1
    <3> QED BY <3>1, <3>3
  <2> QED BY <2>3, <2>4, <2>5
<1>3. CASE ~OffsetIsUnknown
  <2>1. ASSUME NEW o \in 0 .. c - 1, MayBeginWith(o), Follows(Rate.sequence, o)
        PROVE  n = g /\ \A k \in DOMAIN units : units[k].block.zeros = 0
    <3>1. GivenFollow(f)
      BY <1>3, <2>1, ConformingFollow
    <3> QED BY <1>3, <3>1, FollowingAreWritten
  <2>2. ASSUME mMXFFile = "completed", c = 5, Follows(DVSequence, 0) PROVE n = g
    BY <1>3, <2>2, DVIsWritten
  <2>3. ASSUME mMXFFile = "open", Follows(Rate.sequence, f)
        PROVE  GetAudioSampleCount = mAudioSequence((f + g) % c)
    <3>1. GivenFollow(f)
      BY <1>1, <2>3, FollowsGives
    <3>2. n = g
      BY <1>3, <3>1, FollowingAreWritten
    <3>3. mAudioSequenceIndex = (f + n) % c
      BY <1>3, <2>3 DEF IInv, IndexIsNext
    <3>4. c > 1 => mAudioSequenceOffset # UNKNOWN_SEQUENCE_OFFSET
      BY <1>3 DEF OffsetIsUnknown
    <3>5. GetAudioSampleCount =
            mAudioSequence(IF c > 1 /\ mDuration = 0 THEN mAudioSequenceOffset % c ELSE mAudioSequenceIndex)
      BY <3>4 DEF GetAudioSampleCount
    <3>6. c > 1 /\ mDuration = 0 => mAudioSequenceOffset % c = (f + g) % c
      <4> SUFFICES ASSUME c > 1, mDuration = 0 PROVE mAudioSequenceOffset % c = (f + g) % c
        OBVIOUS
      <4>1. f = mAudioSequenceOffset % c
        BY <3>4 DEF FirstIndex
      <4>2. f + g = f
        BY <1>1, <3>2
      <4>3. f % c = f
        <5> DEFINE o == mAudioSequenceOffset
        <5>1. c \in {1, 5} /\ o \in Nat /\ f = o % c
          <6>1. c \in {1, 5} /\ o \in 0 .. 255
            BY <1>1, BlocksHaveSamples, UnitsTyped
          <6> HIDE DEF c, o, f
          <6>2. o \in Nat
            BY <6>1
          <6> QED BY <6>1, <6>2, <4>1 DEF o
        <5> HIDE DEF o, c, f
        <5>2. CASE c = 1
          BY <5>1, <5>2
        <5>3. CASE c = 5
          BY <5>1, <5>3
        <5> QED BY <5>1, <5>2, <5>3
      <4> QED BY <4>1, <4>2, <4>3
    <3> HIDE DEF f, c, g, n
    <3> QED BY <1>1, <3>2, <3>3, <3>5, <3>6
  <2> QED BY <2>1, <2>2, <2>3
<1> QED BY <1>2, <1>3

\* ConformingInput: packages that follow the five-frame sequence from an offset that
\* the file may begin with are all in the completed file, with no padding; those that
\* follow DV's are all in the file; and a client that gives the number of samples
\* asked for is asked for the next of the sequence (FinalUpdateAES3Blocks,
\* GetAudioSequenceOffset, GetAudioSampleCount).
THEOREM ConformingInput == Spec => []ConformingInputIsWritten
BY ConformingIsWritten, Invariance, PTL
=============================================================================
