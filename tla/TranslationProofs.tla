------------------------- MODULE TranslationProofs -------------------------
(***************************************************************************)
(* Proofs, for every width, schema, object and body, that the bridge's     *)
(* decoder always gets on and stays within the body, that it and a node's  *)
(* DynamicReader cut every body into the same fields, that varints and     *)
(* values of every type are read back as they were written, that it        *)
(* understands every body a node builds, that a JSON object comes back as  *)
(* it was, and that the bridge accepts and keeps its own output.           *)
(***************************************************************************)
EXTENDS Translation, WellFoundedInduction, SequenceTheorems, TLAPS

-----------------------------------------------------------------------------
(***************************************************************************)
(* Induction, in terms of sets: a set of numbers has a least element.      *)
(***************************************************************************)
LEMMA LeastElement ==
  ASSUME NEW T \in SUBSET Nat, T # {}
  PROVE  \E x \in T : \A y \in T : x <= y
<1> DEFINE R == OpToRel(<, Nat)
<1>1. IsWellFoundedOn(R, Nat)
  BY NatLessThanWellFounded
<1>2. \A x, y \in Nat : x < y => <<x, y>> \in R
  BY DEF OpToRel
<1> HIDE DEF R
<1>3. PICK x \in T : \A y \in T : ~(<<y, x>> \in R)
  BY <1>1, WFMin
<1>4. ASSUME NEW y \in T PROVE x <= y
  <2>1. x \in Nat /\ y \in Nat /\ ~(y < x)
    BY <1>2, <1>3
  <2>2. QED
    BY <2>1
<1>5. QED
  BY <1>3, <1>4

(***************************************************************************)
(* A set that has 0 and, with every number below n, the next one has all   *)
(* of them.                                                                *)
(***************************************************************************)
LEMMA IntervalInduction ==
  ASSUME NEW n \in Nat, NEW S, 0 \in S, \A k \in 1..n : k - 1 \in S => k \in S
  PROVE  \A k \in 0..n : k \in S
<1> DEFINE T == {k \in 0..n : k \notin S}
<1> SUFFICES ASSUME T # {} PROVE FALSE
  OBVIOUS
<1> T \in SUBSET Nat
  OBVIOUS
<1>1. PICK x \in T : \A y \in T : x <= y
  BY LeastElement
<1>2. x \in 1..n /\ x - 1 \in 0..n
  BY <1>1
<1>3. QED
  BY <1>1, <1>2

(***************************************************************************)
(* A recursion over 0..n: the value at k is made by h[k] from the value at *)
(* an earlier place p[k].                                                  *)
(***************************************************************************)
Earlier(n) == {p \in [1..n -> Nat] : \A k \in 1..n : p[k] < k}

Recurs(g, n, S, c, p, h) ==
  /\ g \in [0..n -> S] /\ g[0] = c
  /\ \A k \in 1..n : g[k] = h[k][g[p[k]]]

(***************************************************************************)
(* A recursion that stays in a set is satisfied by a function.             *)
(***************************************************************************)
LEMMA Recursion ==
  ASSUME NEW n \in Nat, NEW S, NEW c \in S, NEW p \in Earlier(n),
         NEW h \in [1..n -> [S -> S]]
  PROVE  \E g : Recurs(g, n, S, c, p, h)
<1> DEFINE D == {m \in 0..n : \E g : Recurs(g, m, S, c, p, h)}
<1>1. 0 \in D
  <2>1. Recurs([k \in 0..0 |-> c], 0, S, c, p, h)
    BY DEF Recurs
  <2>2. QED
    BY <2>1
<1>2. ASSUME NEW m \in 1..n, m - 1 \in D PROVE m \in D
  <2>1. PICK g : Recurs(g, m - 1, S, c, p, h)
    BY <1>2
  <2>2. /\ g \in [0..(m - 1) -> S] /\ g[0] = c
        /\ \A k \in 1..(m - 1) : g[k] = h[k][g[p[k]]]
        /\ \A k \in 1..n : p[k] \in 0..(k - 1)
    BY <2>1 DEF Recurs, Earlier
  <2> DEFINE last == h[m][g[p[m]]]
             g1 == [k \in 0..m |-> IF k = m THEN last ELSE g[k]]
  <2>3. g[p[m]] \in S /\ last \in S
    BY <2>2
  <2>4. g1 \in [0..m -> S] /\ g1[0] = c /\ g1[m] = last
    BY <2>2, <2>3
  <2>5. \A k \in 0..(m - 1) : g1[k] = g[k]
    OBVIOUS
  <2> HIDE DEF g1
  <2>6. ASSUME NEW k \in 1..m PROVE g1[k] = h[k][g1[p[k]]]
    <3>1. p[k] \in 0..(m - 1) /\ g1[p[k]] = g[p[k]]
      BY <2>2, <2>5
    <3>2. CASE k = m
      BY <2>4, <3>1, <3>2
    <3>3. CASE k \in 1..(m - 1)
      BY <2>2, <2>5, <3>1, <3>3
    <3>4. QED
      BY <3>2, <3>3
  <2>7. Recurs(g1, m, S, c, p, h)
    BY <2>4, <2>6 DEF Recurs
  <2>8. QED
    BY <2>7
<1> HIDE DEF D
<1>3. \A k \in 0..n : k \in D
  BY <1>1, <1>2, IntervalInduction
<1>4. QED
  BY <1>3 DEF D

(***************************************************************************)
(* What a recursion yields stays in a set that holds its start and is      *)
(* closed under its step.                                                  *)
(***************************************************************************)
LEMMA RecursionType ==
  ASSUME NEW n \in Nat, NEW S, NEW p \in Earlier(n), NEW f, f[0] \in S,
         \A k \in 1..n : f[p[k]] \in S => f[k] \in S
  PROVE  \A k \in 0..n : f[k] \in S
<1> DEFINE T == {k \in 0..n : f[k] \notin S}
<1> SUFFICES ASSUME T # {} PROVE FALSE
  OBVIOUS
<1>1. PICK x \in T : \A y \in T : x <= y
  <2>1. T \in SUBSET Nat
    OBVIOUS
  <2> HIDE DEF T
  <2>2. QED
    BY <2>1, LeastElement
<1>2. x \in 1..n /\ p[x] \in 0..n /\ p[x] < x
  BY <1>1 DEF Earlier
<1>3. QED
  BY <1>1, <1>2

(***************************************************************************)
(* The usual case: every value is made from the one before it.             *)
(***************************************************************************)
Steps(g, n, S, c, h) ==
  /\ g \in [0..n -> S] /\ g[0] = c
  /\ \A k \in 1..n : g[k] = h[k][g[k - 1]]

(***************************************************************************)
(* Such a recursion is satisfied by a function ...                         *)
(***************************************************************************)
LEMMA StepRecursion ==
  ASSUME NEW n \in Nat, NEW S, NEW c \in S, NEW h \in [1..n -> [S -> S]]
  PROVE  \E g : Steps(g, n, S, c, h)
<1> DEFINE p == [k \in 1..n |-> k - 1]
<1>1. p \in Earlier(n) /\ \A k \in 1..n : p[k] = k - 1
  BY DEF Earlier
<1> HIDE DEF p
<1>2. PICK g : Recurs(g, n, S, c, p, h)
  BY <1>1, Recursion
<1>3. Steps(g, n, S, c, h)
  BY <1>1, <1>2 DEF Recurs, Steps
<1>4. QED
  BY <1>3

(***************************************************************************)
(* ... and stays in the sets that its steps do not leave.                  *)
(***************************************************************************)
LEMMA StepType ==
  ASSUME NEW n \in Nat, NEW S, NEW f, f[0] \in S,
         \A k \in 1..n : f[k - 1] \in S => f[k] \in S
  PROVE  \A k \in 0..n : f[k] \in S
<1> DEFINE p == [k \in 1..n |-> k - 1]
<1>1. p \in Earlier(n) /\ \A k \in 1..n : p[k] = k - 1
  BY DEF Earlier
<1> HIDE DEF p
<1>2. \A k \in 1..n : f[p[k]] \in S => f[k] \in S
  BY <1>1
<1>3. QED
  BY <1>1, <1>2, RecursionType

-----------------------------------------------------------------------------
(***************************************************************************)
(* The sizes are numbers: CodecAssumption without what relates them.       *)
(***************************************************************************)
LEMMA Sizes ==
  /\ Base \in Nat /\ Base > 8 /\ \A b \in Bytes : b \in Nat
  /\ U32 \in Nat \ {0} /\ U64 \in Nat \ {0}
<1>1. Base \in Nat /\ Base > 8 /\ U32 \in Nat \ {0} /\ U64 \in Nat \ {0}
  BY CodecAssumption
<1>2. \A b \in Bytes : b \in Nat
  BY <1>1 DEF Bytes
<1>3. QED
  BY <1>1, <1>2

(***************************************************************************)
(* Where readVarint stops: at the first byte without continuation bit.     *)
(***************************************************************************)
LastByte(data) == SelectInSeq(data, LAMBDA b : b < Base)

(***************************************************************************)
(* It is there if it is not zero, and is the first of its kind.            *)
(***************************************************************************)
LEMMA LastByteFirst ==
  ASSUME NEW data \in Seq(Bytes)
  PROVE  /\ LastByte(data) \in 0..Len(data)
         /\ LastByte(data) # 0 =>
              /\ data[LastByte(data)] < Base
              /\ \A j \in 1..(LastByte(data) - 1) : data[j] >= Base
         /\ LastByte(data) = 0 => \A j \in 1..Len(data) : data[j] >= Base
<1> DEFINE I == {j \in 1..Len(data) : data[j] < Base}
<1>1. LastByte(data) = IF I # {} THEN Min(I) ELSE 0
  BY DEF LastByte, SelectInSeq
<1>2. I \in SUBSET Nat /\ I \subseteq 1..Len(data)
  OBVIOUS
<1>3. \A j \in 1..Len(data) : data[j] \in Int /\ (j \notin I => data[j] >= Base)
  BY Sizes
<1>4. \A j \in I : data[j] < Base
  OBVIOUS
<1> HIDE DEF I
<1>5. I # {} => Min(I) \in I /\ \A y \in I : Min(I) <= y
  <2>1. I # {} => \E x \in I : \A y \in I : x <= y
    BY <1>2, LeastElement
  <2>2. QED
    BY <2>1 DEF Min
<1>6. CASE I = {}
  BY <1>1, <1>3, <1>6
<1>7. CASE I # {}
  <2> DEFINE n == LastByte(data)
  <2>1. n \in I /\ \A y \in I : n <= y
    BY <1>1, <1>5, <1>7
  <2> HIDE DEF n
  <2>2. n \in 1..Len(data) /\ Len(data) \in Nat
    BY <1>2, <2>1
  <2>3. ASSUME NEW j \in 1..(n - 1) PROVE data[j] >= Base
    <3>1. j \in 1..Len(data) /\ ~(n <= j)
      BY <2>2
    <3>2. QED
      BY <1>3, <2>1, <3>1
  <2>4. data[n] < Base
    BY <1>4, <2>1
  <2>5. QED
    BY <2>2, <2>3, <2>4 DEF n
<1>8. QED
  BY <1>6, <1>7

(***************************************************************************)
(* The value of the first n bytes, summed up as readVarint does.           *)
(***************************************************************************)
VarintValue(data, n) ==
  LET val[k \in 0..n] ==
        IF k = 0 THEN 0
        ELSE ((data[n + 1 - k] % Base) + Base * val[k - 1]) % U64
  IN  val

(***************************************************************************)
(* That sum is well defined, and fits 64 bits.                             *)
(***************************************************************************)
LEMMA VarintValueSums ==
  ASSUME NEW data \in Seq(Bytes), NEW n \in 0..Len(data)
  PROVE  /\ VarintValue(data, n) \in [0..n -> 0..(U64 - 1)]
         /\ VarintValue(data, n)[0] = 0
         /\ \A k \in 1..n : VarintValue(data, n)[k] =
              ((data[n + 1 - k] % Base) + Base * VarintValue(data, n)[k - 1]) % U64
<1> DEFINE val[k \in 0..n] ==
             IF k = 0 THEN 0
             ELSE ((data[n + 1 - k] % Base) + Base * val[k - 1]) % U64
           V == 0..(U64 - 1)
           step(k) == [v \in V |-> ((data[n + 1 - k] % Base) + Base * v) % U64]
           h == [k \in 1..n |-> step(k)]
<1>1. VarintValue(data, n) = val
  BY DEF VarintValue
<1>2. n \in Nat /\ 0 \in V
  BY CodecAssumption
<1>3. h \in [1..n -> [V -> V]] /\ \A k \in 1..n : h[k] = step(k)
  <2>1. ASSUME NEW k \in 1..n PROVE step(k) \in [V -> V]
    <3>1. data[n + 1 - k] \in Bytes
      OBVIOUS
    <3>2. data[n + 1 - k] % Base \in Nat
      BY <3>1, Sizes
    <3>3. ASSUME NEW v \in V
          PROVE  ((data[n + 1 - k] % Base) + Base * v) % U64 \in V
      <4>1. Base * v \in Nat
        BY Sizes
      <4>2. (data[n + 1 - k] % Base) + Base * v \in Nat
        BY <3>2, <4>1
      <4>3. \A x \in Nat : x % U64 \in V
        BY Sizes
      <4>4. QED
        BY <4>2, <4>3
    <3>4. QED
      BY <3>3
  <2> HIDE DEF step, V
  <2>2. QED
    BY <2>1
<1>4. PICK g : Steps(g, n, V, 0, h)
  <2> HIDE DEF V, h
  <2>1. QED
    BY <1>2, <1>3, StepRecursion
<1>5. g = [k \in 0..n |-> IF k = 0 THEN 0
             ELSE ((data[n + 1 - k] % Base) + Base * g[k - 1]) % U64]
  <2>1. /\ g \in [0..n -> V] /\ g[0] = 0
        /\ \A k \in 1..n : g[k] = step(k)[g[k - 1]]
    BY <1>3, <1>4 DEF Steps
  <2>2. \A k \in 1..n :
          g[k] = ((data[n + 1 - k] % Base) + Base * g[k - 1]) % U64
    <3> TAKE k \in 1..n
    <3>1. g[k - 1] \in V
      BY <1>2, <2>1
    <3>2. QED
      BY <2>1, <3>1
  <2>3. QED
    BY <1>2, <2>1, <2>2
<1>6. val = [k \in 0..n |-> IF k = 0 THEN 0
             ELSE ((data[n + 1 - k] % Base) + Base * val[k - 1]) % U64]
  BY <1>5
<1> HIDE DEF val
<1>7. /\ val[0] = 0
      /\ \A k \in 1..n : val[k] = ((data[n + 1 - k] % Base) + Base * val[k - 1]) % U64
  BY <1>2, <1>6
<1>8. \A k \in 0..n : val[k] \in V
  <2>1. ASSUME NEW k \in 1..n, val[k - 1] \in V PROVE val[k] \in V
    <3>1. step(k) \in [V -> V] /\ val[k] = step(k)[val[k - 1]]
      <4>1. h[k] = step(k) /\ h[k] \in [V -> V]
        BY <1>3
      <4>2. val[k] = step(k)[val[k - 1]]
        BY <1>7, <2>1
      <4> HIDE DEF h, step, V
      <4>3. QED
        BY <4>1, <4>2
    <3> HIDE DEF step, V
    <3>2. QED
      BY <2>1, <3>1
  <2> HIDE DEF V
  <2>2. QED
    BY <1>2, <1>7, <2>1, StepType
<1>9. val \in [0..n -> V]
  BY <1>6, <1>8
<1>10. QED
  BY <1>1, <1>7, <1>9

(***************************************************************************)
(* What readVarint answers.                                                *)
(***************************************************************************)
LEMMA ReadVarintAnswer ==
  ASSUME NEW data
  PROVE  readVarint(data) =
           IF LastByte(data) \in 1..MaxVarintLen
           THEN [ok |-> TRUE, n |-> LastByte(data),
                 val |-> VarintValue(data, LastByte(data))[LastByte(data)]]
           ELSE [ok |-> FALSE, val |-> 0, n |-> 0]
BY DEF readVarint, LastByte, VarintValue

(***************************************************************************)
(* readVarint consumes at least one byte and none that is not there, and   *)
(* its value fits 64 bits.                                                 *)
(***************************************************************************)
LEMMA ReadVarintType ==
  ASSUME NEW data \in Seq(Bytes)
  PROVE  /\ readVarint(data).ok \in BOOLEAN
         /\ readVarint(data).ok =>
              /\ readVarint(data).n \in 1..Len(data)
              /\ readVarint(data).val \in 0..(U64 - 1)
<1> DEFINE n == LastByte(data)
<1>1. n \in 0..Len(data)
  BY LastByteFirst
<1>2. n \in 1..MaxVarintLen => VarintValue(data, n)[n] \in 0..(U64 - 1)
  BY <1>1, VarintValueSums
<1> HIDE DEF n
<1>3. CASE n \in 1..MaxVarintLen
  <2>1. readVarint(data) = [ok |-> TRUE, n |-> n, val |-> VarintValue(data, n)[n]]
    BY <1>3, ReadVarintAnswer DEF n
  <2>2. QED
    BY <1>1, <1>2, <1>3, <2>1
<1>4. CASE n \notin 1..MaxVarintLen
  <2>1. readVarint(data) = [ok |-> FALSE, val |-> 0, n |-> 0]
    BY <1>4, ReadVarintAnswer DEF n
  <2>2. QED
    BY <2>1
<1>5. QED
  BY <1>3, <1>4
-----------------------------------------------------------------------------
(***************************************************************************)
(* Division by Base, as appendVarint does it.                              *)
(***************************************************************************)
LEMMA Shifted ==
  ASSUME NEW v \in Nat
  PROVE  /\ v \div Base \in Nat /\ v % Base \in 0..(Base - 1)
         /\ v = (v % Base) + Base * (v \div Base)
         /\ v >= Base => v \div Base < v /\ v \div Base >= 1
BY CodecAssumption

(***************************************************************************)
(* A remainder of a number that is small enough already.                   *)
(***************************************************************************)
LEMMA SmallRemainder ==
  ASSUME NEW d \in Nat, NEW v \in 0..(d - 1)
  PROVE  v % d = v /\ (d + v) % d = v
OBVIOUS

(***************************************************************************)
(* appendVarint is well defined and makes bytes.                           *)
(***************************************************************************)
LEMMA AppendVarintType ==
  /\ appendVarint \in [0..(U64 - 1) -> Seq(Bytes)]
  /\ \A v \in 0..(U64 - 1) : appendVarint[v] =
       IF v < Base THEN <<v>>
       ELSE <<Base + (v % Base)>> \o appendVarint[v \div Base]
<1> DEFINE N == U64 - 1
           S == Seq(Bytes)
           p == [k \in 1..N |-> IF k < Base THEN 0 ELSE k \div Base]
           step(k) == [s \in S |-> IF k < Base THEN <<k>>
                                   ELSE <<Base + (k % Base)>> \o s]
           h == [k \in 1..N |-> step(k)]
<1>1. N \in Nat /\ <<0>> \in S
  BY CodecAssumption DEF Bytes
<1>2. p \in Earlier(N) /\ \A k \in 1..N : p[k] \in 0..N
  <2>1. \A k \in 1..N : (IF k < Base THEN 0 ELSE k \div Base) \in Nat
                        /\ (IF k < Base THEN 0 ELSE k \div Base) < k
    BY <1>1, Shifted, Sizes
  <2>2. QED
    BY <1>1, <2>1 DEF Earlier
<1>3. h \in [1..N -> [S -> S]] /\ \A k \in 1..N : h[k] = step(k)
  <2>1. ASSUME NEW k \in 1..N PROVE step(k) \in [S -> S]
    <3>1. k < Base => k \in Bytes
      BY CodecAssumption DEF Bytes
    <3>2. Base + (k % Base) \in Bytes
      BY Shifted, CodecAssumption DEF Bytes
    <3>3. QED
      BY <3>1, <3>2
  <2> HIDE DEF step, S
  <2>2. QED
    BY <2>1
<1>4. PICK g : Recurs(g, N, S, <<0>>, p, h)
  <2> HIDE DEF N, S, p, h
  <2>1. QED
    BY <1>1, <1>2, <1>3, Recursion
<1>5. g = [v \in 0..N |-> IF v < Base THEN <<v>>
             ELSE <<Base + (v % Base)>> \o g[v \div Base]]
  <2>1. /\ g \in [0..N -> S] /\ g[0] = <<0>>
        /\ \A k \in 1..N : g[k] = step(k)[g[p[k]]]
    BY <1>3, <1>4 DEF Recurs
  <2>2. \A k \in 0..N : g[k] = IF k < Base THEN <<k>>
                          ELSE <<Base + (k % Base)>> \o g[k \div Base]
    <3> TAKE k \in 0..N
    <3>1. CASE k = 0
      BY <2>1, <3>1, CodecAssumption
    <3>2. CASE k \in 1..N
      <4>1. p[k] = IF k < Base THEN 0 ELSE k \div Base
        BY <3>2
      <4>2. g[p[k]] \in S
        <5> HIDE DEF p
        <5>1. QED
          BY <1>2, <2>1, <3>2
      <4>3. g[k] = step(k)[g[p[k]]]
        BY <2>1, <3>2
      <4>4. QED
        BY <4>1, <4>2, <4>3
    <3>3. QED
      BY <3>1, <3>2
  <2>3. QED
    BY <2>1, <2>2
<1>6. appendVarint = [v \in 0..N |-> IF v < Base THEN <<v>>
             ELSE <<Base + (v % Base)>> \o appendVarint[v \div Base]]
  BY <1>5 DEF appendVarint
<1>7. \A v \in 0..N :
        /\ v < Base => appendVarint[v] = <<v>>
        /\ ~(v < Base) => appendVarint[v] =
                            <<Base + (v % Base)>> \o appendVarint[v \div Base]
  BY <1>6
<1>8. \A v \in 0..N : appendVarint[v] \in S
  <2>1. appendVarint[0] \in S
    <3>1. 0 \in 0..N /\ 0 < Base
      BY <1>1, CodecAssumption
    <3>2. appendVarint[0] = <<0>>
      BY <1>7, <3>1
    <3>3. QED
      BY <1>1, <3>2
  <2>2. ASSUME NEW k \in 1..N, appendVarint[p[k]] \in S PROVE appendVarint[k] \in S
    <3>1. p[k] = (IF k < Base THEN 0 ELSE k \div Base) /\ k \in 0..N
      BY <1>1
    <3>2. CASE k < Base
      <4>1. appendVarint[k] = <<k>>
        BY <1>7, <3>1, <3>2
      <4>2. k \in Bytes
        BY <3>2, CodecAssumption DEF Bytes
      <4>3. QED
        BY <4>1, <4>2
    <3>3. CASE ~(k < Base)
      <4>1. appendVarint[k] = <<Base + (k % Base)>> \o appendVarint[p[k]]
        BY <1>7, <3>1, <3>3
      <4>2. Base + (k % Base) \in Bytes
        BY Shifted, CodecAssumption DEF Bytes
      <4>3. QED
        BY <2>2, <4>1, <4>2
    <3>4. QED
      BY <3>2, <3>3
  <2> HIDE DEF N, S, p
  <2>3. QED
    BY <1>1, <1>2, <2>1, <2>2, RecursionType
<1>9. appendVarint \in [0..N -> S]
  BY <1>6, <1>8
<1>10. QED
  BY <1>7, <1>9

-----------------------------------------------------------------------------
(***************************************************************************)
(* Power, as the function it is computed with.                             *)
(***************************************************************************)
PowerUpto(b, n) ==
  LET power[k \in 0..n] == IF k = 0 THEN 1 ELSE b * power[k - 1] IN power

(***************************************************************************)
(* That function exists and does what its definition says.                 *)
(***************************************************************************)
LEMMA PowerUptoSteps ==
  ASSUME NEW b \in Nat, NEW n \in Nat
  PROVE  /\ PowerUpto(b, n) \in [0..n -> Nat] /\ PowerUpto(b, n)[0] = 1
         /\ \A k \in 1..n : PowerUpto(b, n)[k] = b * PowerUpto(b, n)[k - 1]
<1> DEFINE power[k \in 0..n] == IF k = 0 THEN 1 ELSE b * power[k - 1]
           h == [k \in 1..n |-> [v \in Nat |-> b * v]]
<1>1. PowerUpto(b, n) = power
  BY DEF PowerUpto
<1>2. h \in [1..n -> [Nat -> Nat]]
  OBVIOUS
<1>3. PICK g : Steps(g, n, Nat, 1, h)
  <2> HIDE DEF h
  <2>1. QED
    BY <1>2, StepRecursion
<1>4. /\ g \in [0..n -> Nat] /\ g[0] = 1
      /\ \A k \in 1..n : g[k] = h[k][g[k - 1]]
  BY <1>3 DEF Steps
<1>5. \A k \in 1..n : g[k - 1] \in Nat /\ g[k] = b * g[k - 1]
  <2> TAKE k \in 1..n
  <2>1. g[k - 1] \in Nat
    BY <1>4
  <2>2. QED
    BY <1>4, <2>1
<1>6. g = [k \in 0..n |-> IF k = 0 THEN 1 ELSE b * g[k - 1]]
  BY <1>4, <1>5
<1>7. power = [k \in 0..n |-> IF k = 0 THEN 1 ELSE b * power[k - 1]]
  BY <1>6
<1> HIDE DEF power
<1>8. power[0] = 1 /\ \A k \in 1..n : power[k] = b * power[k - 1]
  BY <1>7
<1>9. \A k \in 0..n : power[k] \in Nat
  <2> DEFINE N == Nat
  <2>1. power[0] \in N /\ \A k \in 1..n : power[k - 1] \in N => power[k] \in N
    BY <1>8
  <2> HIDE DEF N
  <2>2. \A k \in 0..n : power[k] \in N
    BY <2>1, StepType
  <2>3. QED
    BY <2>2 DEF N
<1>10. power \in [0..n -> Nat]
  BY <1>7, <1>9
<1>11. QED
  BY <1>1, <1>8, <1>10

(***************************************************************************)
(* Power is the power.                                                     *)
(***************************************************************************)
LEMMA PowerSteps ==
  ASSUME NEW b \in Nat, NEW n \in Nat
  PROVE  /\ Power(b, n) \in Nat /\ Power(b, 0) = 1
         /\ Power(b, n + 1) = b * Power(b, n)
<1>1. \A m \in Nat : Power(b, m) = PowerUpto(b, m)[m]
  BY DEF Power, PowerUpto
<1>2. /\ PowerUpto(b, n) \in [0..n -> Nat] /\ PowerUpto(b, n)[0] = 1
      /\ \A k \in 1..n : PowerUpto(b, n)[k] = b * PowerUpto(b, n)[k - 1]
  BY PowerUptoSteps
<1>3. /\ PowerUpto(b, n + 1)[0] = 1
      /\ \A k \in 1..(n + 1) : PowerUpto(b, n + 1)[k] = b * PowerUpto(b, n + 1)[k - 1]
  BY PowerUptoSteps
<1>4. PowerUpto(b, 0)[0] = 1
  BY PowerUptoSteps
<1> DEFINE f == PowerUpto(b, n)
           g == PowerUpto(b, n + 1)
           D == {k \in 0..n : g[k] = f[k]}
<1>5. 0 \in D
  BY <1>2, <1>3
<1>6. ASSUME NEW k \in 1..n, k - 1 \in D PROVE k \in D
  <2>1. g[k] = b * g[k - 1] /\ f[k] = b * f[k - 1] /\ g[k - 1] = f[k - 1]
    BY <1>2, <1>3, <1>6
  <2>2. QED
    BY <2>1
<1>7. \A k \in 0..n : k \in D
  <2> HIDE DEF D
  <2>1. QED
    BY <1>5, <1>6, IntervalInduction
<1>8. g[n] = f[n] /\ g[n + 1] = b * g[n] /\ f[n] \in Nat
  BY <1>2, <1>3, <1>7
<1>9. QED
  BY <1>1, <1>4, <1>8

(***************************************************************************)
(* A number of n payloads of bits takes at most n bytes, so that every     *)
(* 64-bit number takes at most MaxVarintLen.                               *)
(***************************************************************************)
LEMMA VarintLength ==
  ASSUME NEW v \in 0..(U64 - 1)
  PROVE  Len(appendVarint[v]) \in 1..MaxVarintLen
<1> DEFINE Short(k) == \A u \in 0..(U64 - 1) :
                         u < Power(Base, k) => Len(appendVarint[u]) \in 1..k
           M == MaxVarintLen - 1
           D == {k \in 0..M : Short(k + 1)}
<1>1. M \in Nat /\ Base \in Nat /\ Power(Base, 0) = 1
  BY CodecAssumption, PowerSteps
<1>2. 0 \in D
  <2>1. Power(Base, 1) = Base
    BY <1>1, PowerSteps
  <2>2. ASSUME NEW u \in 0..(U64 - 1), u < Base PROVE Len(appendVarint[u]) \in 1..1
    <3>1. appendVarint[u] = <<u>>
      BY <2>2, AppendVarintType
    <3>2. QED
      BY <3>1
  <2>3. Short(1) /\ 0 + 1 = 1 /\ 0 \in 0..M
    BY <1>1, <2>1, <2>2
  <2> HIDE DEF Short, M
  <2>4. QED
    BY <2>3
<1>3. ASSUME NEW k \in 1..M, k - 1 \in D PROVE k \in D
  <2>1. Short(k) /\ k \in Nat
    BY <1>3
  <2>2. ASSUME NEW u \in 0..(U64 - 1), u < Power(Base, k + 1)
        PROVE  Len(appendVarint[u]) \in 1..(k + 1)
    <3>1. CASE u < Base
      <4>1. appendVarint[u] = <<u>>
        BY <3>1, AppendVarintType
      <4>2. QED
        BY <2>1, <4>1
    <3>2. CASE ~(u < Base)
      <4> DEFINE q == u \div Base
      <4>1. q \in 0..(U64 - 1) /\ u = (u % Base) + Base * q /\ u % Base \in Nat
        <5>1. u \in Nat /\ u < U64 /\ Base \in Nat /\ u >= Base
          BY <3>2, Sizes
        <5>2. q \in Nat /\ q < u /\ u = (u % Base) + Base * q /\ u % Base \in Nat
          BY <5>1, Shifted
        <5> HIDE DEF q
        <5>3. QED
          BY <5>1, <5>2, Sizes
      <4>2. Power(Base, k + 1) = Base * Power(Base, k) /\ Power(Base, k) \in Nat
        BY <1>1, <2>1, PowerSteps
      <4>3. q < Power(Base, k)
        <5> DEFINE P == Power(Base, k)
        <5>1. Base * q < Base * P /\ P \in Nat
          BY <1>1, <2>2, <4>1, <4>2
        <5> HIDE DEF P, q
        <5>2. q < P
          BY <4>1, <5>1, CodecAssumption
        <5>3. QED
          BY <5>2 DEF P
      <4>4. Len(appendVarint[q]) \in 1..k
        BY <2>1, <4>1, <4>3
      <4>5. /\ appendVarint[u] = <<Base + (u % Base)>> \o appendVarint[q]
            /\ appendVarint[q] \in Seq(Bytes)
        BY <3>2, <4>1, AppendVarintType
      <4> HIDE DEF q
      <4>6. Base + (u % Base) \in Bytes
        BY Shifted, CodecAssumption DEF Bytes
      <4>7. Len(appendVarint[u]) = 1 + Len(appendVarint[q])
        BY <4>5, <4>6
      <4>8. QED
        BY <2>1, <4>4, <4>7
    <3>3. QED
      BY <3>1, <3>2
  <2>3. QED
    BY <2>2
<1>4. \A k \in 0..M : k \in D
  <2> HIDE DEF D, M
  <2>1. QED
    BY <1>1, <1>2, <1>3, IntervalInduction
<1>5. Short(MaxVarintLen)
  <2>1. M + 1 = MaxVarintLen
    BY CodecAssumption
  <2>2. M \in D
    <3> HIDE DEF D, M
    <3>1. QED
      BY <1>1, <1>4
  <2> HIDE DEF Short, M
  <2>3. QED
    BY <2>1, <2>2
<1>6. v < Power(Base, MaxVarintLen)
  <2>1. Power(Base, MaxVarintLen) \in Nat /\ U64 <= Power(Base, MaxVarintLen)
    BY <1>1, PowerSteps, CodecAssumption
  <2>2. QED
    BY <2>1, CodecAssumption
<1>7. QED
  BY <1>5, <1>6

(***************************************************************************)
(* One byte in front adds its payload bits below those of the rest.        *)
(***************************************************************************)
LEMMA VarintValueCons ==
  ASSUME NEW b \in Bytes, NEW d \in Seq(Bytes), NEW n \in 0..Len(d)
  PROVE  VarintValue(<<b>> \o d, n + 1)[n + 1] =
           ((b % Base) + Base * VarintValue(d, n)[n]) % U64
<1> DEFINE e == <<b>> \o d
           f == VarintValue(e, n + 1)
           g == VarintValue(d, n)
           D == {k \in 0..n : f[k] = g[k]}
<1>1. /\ e \in Seq(Bytes) /\ Len(e) = Len(d) + 1 /\ e[1] = b
      /\ \A j \in 1..Len(d) : e[j + 1] = d[j]
  OBVIOUS
<1>2. n \in Nat /\ n + 1 \in 0..Len(e)
  BY <1>1
<1> HIDE DEF e
<1>3. /\ f[0] = 0
      /\ \A k \in 1..(n + 1) : f[k] =
           ((e[(n + 1) + 1 - k] % Base) + Base * f[k - 1]) % U64
  BY <1>1, <1>2, VarintValueSums
<1>4. /\ g[0] = 0
      /\ \A k \in 1..n : g[k] = ((d[n + 1 - k] % Base) + Base * g[k - 1]) % U64
  BY VarintValueSums
<1> HIDE DEF f, g
<1>5. 0 \in D
  BY <1>2, <1>3, <1>4
<1>6. ASSUME NEW k \in 1..n, k - 1 \in D PROVE k \in D
  <2>1. n + 1 - k \in 1..Len(d) /\ (n + 1) + 1 - k = (n + 1 - k) + 1
    BY <1>2
  <2>2. e[(n + 1) + 1 - k] = d[n + 1 - k]
    BY <1>1, <2>1
  <2>3. f[k - 1] = g[k - 1] /\ k \in 1..(n + 1)
    BY <1>2, <1>6
  <2>4. f[k] = g[k]
    BY <1>3, <1>4, <2>2, <2>3
  <2>5. QED
    BY <2>4
<1>7. \A k \in 0..n : k \in D
  <2> HIDE DEF D
  <2>1. QED
    BY <1>2, <1>5, <1>6, IntervalInduction
<1>8. f[n] = g[n]
  BY <1>2, <1>7
<1>9. f[n + 1] = ((e[1] % Base) + Base * f[n]) % U64
  <2>1. n + 1 \in 1..(n + 1) /\ (n + 1) + 1 - (n + 1) = 1 /\ (n + 1) - 1 = n
    BY <1>2
  <2>2. QED
    BY <1>3, <2>1
<1>10. QED
  BY <1>1, <1>8, <1>9 DEF e, f, g

(***************************************************************************)
(* Only the last byte of a varint lacks the continuation bit, and the      *)
(* payload bits add up to the number, whatever follows.                    *)
(***************************************************************************)
LEMMA VarintShape ==
  ASSUME NEW v \in 0..(U64 - 1), NEW rest \in Seq(Bytes)
  PROVE  LET a == appendVarint[v] IN
         /\ a[Len(a)] < Base /\ \A j \in 1..(Len(a) - 1) : a[j] >= Base
         /\ VarintValue(a \o rest, Len(a))[Len(a)] = v
<1> DEFINE A(u) == appendVarint[u]
           Good(u) == /\ A(u)[Len(A(u))] < Base
                      /\ \A j \in 1..(Len(A(u)) - 1) : A(u)[j] >= Base
                      /\ VarintValue(A(u) \o rest, Len(A(u)))[Len(A(u))] = u
           T == {u \in 0..(U64 - 1) : ~Good(u)}
<1> SUFFICES ASSUME T # {} PROVE FALSE
  OBVIOUS
<1>1. PICK u \in T : \A y \in T : u <= y
  <2>1. T \in SUBSET Nat
    OBVIOUS
  <2> HIDE DEF T
  <2>2. QED
    BY <2>1, LeastElement
<1>2. u \in 0..(U64 - 1) /\ u \in Nat /\ A(u) \in Seq(Bytes)
  BY <1>1, AppendVarintType
<1>3. CASE u < Base
  <2>1. A(u) = <<u>> /\ u \in Bytes
    <3>1. A(u) = <<u>>
      BY <1>2, <1>3, AppendVarintType
    <3>2. u \in Bytes
      BY <1>2, <1>3, CodecAssumption DEF Bytes
    <3>3. QED
      BY <3>1, <3>2
  <2>2. VarintValue(<<u>> \o rest, 1)[1] = ((u % Base) + Base * VarintValue(rest, 0)[0]) % U64
    <3>1. 0 \in 0..Len(rest) /\ 0 + 1 = 1
      OBVIOUS
    <3>2. QED
      BY <2>1, <3>1, VarintValueCons
  <2>3. VarintValue(rest, 0)[0] = 0
    BY VarintValueSums
  <2>4. ((u % Base) + Base * 0) % U64 = u
    <3>1. u \in 0..(Base - 1) /\ Base \in Nat /\ U64 \in Nat
      BY <1>2, <1>3, CodecAssumption
    <3>2. u % Base = u /\ u % U64 = u
      BY <1>2, <3>1, SmallRemainder
    <3>3. (u % Base) + Base * 0 = u
      BY <3>1, <3>2
    <3>4. QED
      BY <3>2, <3>3
  <2>5. Good(u)
    <3>1. Len(<<u>>) = 1 /\ <<u>>[1] = u
      OBVIOUS
    <3> HIDE DEF A
    <3>2. QED
      BY <1>2, <1>3, <2>1, <2>2, <2>3, <2>4, <3>1
  <2>6. QED
    BY <1>1, <2>5
<1>4. CASE ~(u < Base)
  <2> DEFINE q == u \div Base
             b == Base + (u % Base)
             d == A(q) \o rest
             n == Len(A(q))
  <2>1. /\ q \in 0..(U64 - 1) /\ q < u /\ u = (u % Base) + Base * q
        /\ u % Base \in 0..(Base - 1)
    <3> HIDE DEF A, Good, T, q
    <3>0. u \in Nat /\ u >= Base
      BY <1>2, <1>4, CodecAssumption
    <3>1. /\ q \in Nat /\ u = (u % Base) + Base * q /\ q < u
          /\ u % Base \in 0..(Base - 1)
      BY <3>0, Shifted DEF q
    <3>2. QED
      BY <1>2, <3>1, CodecAssumption
  <2>2. b \in Bytes /\ b >= Base /\ b % Base = u % Base
    <3> DEFINE r == u % Base
    <3>1. r \in 0..(Base - 1)
      BY <2>1
    <3> HIDE DEF r
    <3>2. Base + r \in Bytes /\ Base + r >= Base
      BY <3>1, CodecAssumption DEF Bytes
    <3>3. (Base + r) % Base = r
      BY <3>1, SmallRemainder, CodecAssumption
    <3>4. QED
      BY <3>2, <3>3 DEF r
  <2>3. A(u) = <<b>> \o A(q) /\ A(q) \in Seq(Bytes)
    BY <1>2, <1>4, <2>1, AppendVarintType
  <2>4. n \in Nat /\ n >= 1
    BY <2>1, VarintLength
  <2>5. Good(q)
    BY <1>1, <2>1
  <2> HIDE DEF q, b, A, Good
  <2>6. d \in Seq(Bytes) /\ n \in 0..Len(d) /\ A(u) \o rest = <<b>> \o d
    BY <2>2, <2>3
  <2>7. Len(A(u)) = n + 1 /\ A(u)[1] = b /\ \A j \in 1..n : A(u)[j + 1] = A(q)[j]
    BY <2>2, <2>3
  <2> HIDE DEF d, n
  <2>8. VarintValue(A(u) \o rest, n + 1)[n + 1] =
          ((b % Base) + Base * VarintValue(d, n)[n]) % U64
    BY <2>2, <2>6, VarintValueCons
  <2>9. VarintValue(d, n)[n] = q /\ A(q)[n] < Base
        /\ \A j \in 1..(n - 1) : A(q)[j] >= Base
    BY <2>5 DEF d, n, Good
  <2>10. ((b % Base) + Base * q) % U64 = u
    <3>1. (b % Base) + Base * q = u
      BY <2>1, <2>2
    <3>2. u % U64 = u
      BY <1>2, SmallRemainder, CodecAssumption
    <3>3. QED
      BY <3>1, <3>2
  <2>11. A(u)[n + 1] < Base
    BY <2>4, <2>7, <2>9
  <2>12. ASSUME NEW j \in 1..n PROVE A(u)[j] >= Base
    <3>1. CASE j = 1
      BY <2>2, <2>7, <3>1
    <3>2. CASE j # 1
      <4>1. j - 1 \in 1..(n - 1) /\ j - 1 \in 1..n /\ (j - 1) + 1 = j
        BY <2>4, <3>2
      <4>2. QED
        BY <2>7, <2>9, <4>1
    <3>3. QED
      BY <3>1, <3>2
  <2>13. Good(u)
    <3>1. (n + 1) - 1 = n
      BY <2>4
    <3>2. QED
      BY <2>7, <2>8, <2>9, <2>10, <2>11, <2>12, <3>1 DEF Good
  <2>14. QED
    BY <1>1, <2>13
<1>5. QED
  BY <1>3, <1>4

(***************************************************************************)
(* proto.go: readVarint gives back what appendVarint wrote and consumes    *)
(* just that, for every 64-bit number and whatever comes after it.         *)
(***************************************************************************)
THEOREM VarintReadsBack ==
  ASSUME NEW v \in 0..(U64 - 1), NEW rest \in Seq(Bytes)
  PROVE  readVarint(appendVarint[v] \o rest) =
           [ok |-> TRUE, val |-> v, n |-> Len(appendVarint[v])]
<1> DEFINE a == appendVarint[v]
           data == a \o rest
           L == LastByte(data)
<1>1. /\ a \in Seq(Bytes) /\ Len(a) \in 1..MaxVarintLen
      /\ a[Len(a)] < Base /\ \A j \in 1..(Len(a) - 1) : a[j] >= Base
      /\ VarintValue(data, Len(a))[Len(a)] = v
  BY AppendVarintType, VarintLength, VarintShape
<1> HIDE DEF a
<1>2. /\ data \in Seq(Bytes) /\ Len(data) >= Len(a) /\ Len(data) \in Nat
      /\ \A j \in 1..Len(a) : data[j] = a[j]
  BY <1>1
<1> HIDE DEF data
<1>3. /\ L \in 0..Len(data)
      /\ L # 0 => data[L] < Base /\ \A j \in 1..(L - 1) : data[j] >= Base
      /\ L = 0 => \A j \in 1..Len(data) : data[j] >= Base
  BY <1>2, LastByteFirst
<1> HIDE DEF L
<1>4. data[Len(a)] < Base /\ \A j \in 1..(Len(a) - 1) : data[j] >= Base
  <2>1. Len(a) \in 1..Len(a) /\ \A j \in 1..(Len(a) - 1) : j \in 1..Len(a)
    BY <1>1
  <2>2. QED
    BY <1>1, <1>2, <2>1
<1>5. \A j \in 1..Len(data) : data[j] \in Int
  <2>1. \A j \in 1..Len(data) : data[j] \in Bytes
    BY <1>2
  <2>2. Bytes \subseteq Int
    BY CodecAssumption DEF Bytes
  <2>3. QED
    BY <2>1, <2>2
<1>6. Len(a) \in 1..Len(data) /\ Base \in Int
  BY <1>1, <1>2, CodecAssumption
<1>7. L = Len(a)
  <2>1. L # 0
    BY <1>3, <1>4, <1>5, <1>6
  <2>2. ~(L < Len(a))
    BY <1>3, <1>4, <1>5, <1>6, <2>1
  <2>3. ~(Len(a) < L)
    BY <1>3, <1>4, <1>5, <1>6, <2>1
  <2>4. QED
    BY <1>3, <1>6, <2>2, <2>3
<1>8. readVarint(data) = [ok |-> TRUE, n |-> Len(a), val |-> VarintValue(data, Len(a))[Len(a)]]
  BY <1>1, <1>7, ReadVarintAnswer DEF L
<1>9. QED
  BY <1>1, <1>8 DEF a, data

-----------------------------------------------------------------------------
(***************************************************************************)
(* The end of a body, as DecodeProto slices it, and the end of that.       *)
(***************************************************************************)
LEMMA Suffix ==
  ASSUME NEW data \in Seq(Bytes), NEW n \in 0..Len(data)
  PROVE  /\ SubSeq(data, n + 1, Len(data)) \in Seq(Bytes)
         /\ Len(SubSeq(data, n + 1, Len(data))) = Len(data) - n
         /\ \A j \in 1..(Len(data) - n) :
              SubSeq(data, n + 1, Len(data))[j] = data[n + j]
<1> DEFINE rest == SubSeq(data, n + 1, Len(data))
<1>1. Len(data) \in Nat /\ n \in Nat /\ n + 1 \in Int /\ n <= Len(data)
  OBVIOUS
<1>2. \A j \in (n + 1)..Len(data) : data[j] \in Bytes
  BY <1>1
<1>3. /\ rest \in Seq(Bytes)
      /\ Len(rest) = IF n + 1 <= Len(data) THEN Len(data) - (n + 1) + 1 ELSE 0
      /\ \A j \in 1..(Len(data) - (n + 1) + 1) : rest[j] = data[(n + 1) + j - 1]
  BY <1>1, <1>2, SubSeqProperties
<1> HIDE DEF rest
<1>4. ASSUME NEW j \in 1..(Len(data) - n) PROVE rest[j] = data[n + j]
  <2>1. /\ (n + 1) + j - 1 = n + j
        /\ j \in 1..(Len(data) - (n + 1) + 1)
    BY <1>1
  <2>2. QED
    BY <1>3, <2>1
<1>5. Len(rest) = Len(data) - n
  BY <1>1, <1>3
<1>6. QED
  BY <1>3, <1>4, <1>5 DEF rest

(***************************************************************************)
(* Concatenation of bytes is associative.                                  *)
(***************************************************************************)
LEMMA BytesAssociative ==
  ASSUME NEW b \in Seq(Bytes), NEW c \in Seq(Bytes), NEW d \in Seq(Bytes)
  PROVE  (b \o c) \o d = b \o (c \o d)
BY ConcatAssociative, SMTT(20)

(***************************************************************************)
(* Slicing twice is slicing once.                                          *)
(***************************************************************************)
LEMMA SuffixOfSuffix ==
  ASSUME NEW data \in Seq(Bytes), NEW m \in Nat, NEW n \in Nat,
         m + n <= Len(data)
  PROVE  LET rest == SubSeq(data, m + 1, Len(data))
         IN  SubSeq(rest, n + 1, Len(rest)) = SubSeq(data, m + n + 1, Len(data))
<1> DEFINE rest == SubSeq(data, m + 1, Len(data))
           once == SubSeq(data, m + n + 1, Len(data))
           twice == SubSeq(rest, n + 1, Len(rest))
           L == Len(data) - (m + n)
<1>1. Len(data) \in Nat /\ m \in 0..Len(data) /\ m + n \in 0..Len(data)
  OBVIOUS
<1>2. /\ rest \in Seq(Bytes) /\ Len(rest) = Len(data) - m
      /\ \A j \in 1..(Len(data) - m) : rest[j] = data[m + j]
  BY <1>1, Suffix
<1>3. /\ once \in Seq(Bytes) /\ Len(once) = L
      /\ \A j \in 1..L : once[j] = data[m + n + j]
  BY <1>1, Suffix
<1> HIDE DEF rest, once
<1>4. n \in 0..Len(rest) /\ Len(rest) - n = L
  BY <1>1, <1>2
<1>5. /\ twice \in Seq(Bytes) /\ Len(twice) = L
      /\ \A j \in 1..L : twice[j] = rest[n + j]
  BY <1>2, <1>4, Suffix
<1> HIDE DEF twice
<1>6. ASSUME NEW j \in 1..L PROVE twice[j] = once[j]
  <2>1. n + j \in 1..(Len(data) - m) /\ m + (n + j) = m + n + j
    BY <1>1
  <2>2. QED
    BY <1>2, <1>3, <1>5, <2>1
<1> HIDE DEF L
<1>7. twice = once
  BY <1>3, <1>5, <1>6, SeqEqual
<1>8. QED
  BY <1>7 DEF rest, once, twice

(***************************************************************************)
(* readLength accepts no length beyond the end.                            *)
(***************************************************************************)
LEMMA ReadLengthType ==
  ASSUME NEW data \in Seq(Bytes)
  PROVE  /\ readLength(data).ok \in BOOLEAN
         /\ readLength(data).ok =>
              /\ readLength(data).n \in 1..Len(data)
              /\ readLength(data).from \in 1..Len(data) + 1
              /\ SubSeq(data, readLength(data).from, readLength(data).n) \in Seq(Bytes)
<1> DEFINE r == readVarint(data)
           fits == r.ok /\ r.val <= Len(data) - r.n
<1>1. r.ok \in BOOLEAN /\ (r.ok => r.n \in 1..Len(data) /\ r.val \in 0..(U64 - 1))
  BY ReadVarintType
<1>2. readLength(data) = IF fits
                         THEN [ok |-> TRUE, n |-> r.n + r.val, from |-> r.n + 1]
                         ELSE Failed
  BY DEF readLength
<1> HIDE DEF r
<1>3. CASE fits
  <2>1. readLength(data) = [ok |-> TRUE, n |-> r.n + r.val, from |-> r.n + 1]
    BY <1>2, <1>3
  <2>2. Len(data) \in Nat /\ r.n + r.val \in 1..Len(data) /\ r.n + 1 \in 1..Len(data) + 1
    BY <1>1, <1>3
  <2>3. \A j \in (r.n + 1)..(r.n + r.val) : data[j] \in Bytes
    BY <1>1, <2>2
  <2>4. SubSeq(data, r.n + 1, r.n + r.val) \in Seq(Bytes)
    BY <2>2, <2>3, SubSeqProperties
  <2>5. QED
    BY <2>1, <2>2, <2>4
<1>4. CASE ~fits
  BY <1>2, <1>4 DEF Failed
<1>5. QED
  BY <1>3, <1>4

(***************************************************************************)
(* skipField never goes past the end.                                      *)
(***************************************************************************)
LEMMA SkipFieldType ==
  ASSUME NEW data \in Seq(Bytes), NEW wt
  PROVE  /\ skipField(data, wt).ok \in BOOLEAN
         /\ skipField(data, wt).ok => skipField(data, wt).n \in 0..Len(data)
         /\ wt = wireVarint => skipField(data, wt) = readVarint(data)
         /\ wt = wireLen => skipField(data, wt) = readLength(data)
         /\ (wt = wireFixed32 /\ skipField(data, wt).ok) =>
              FixedLen \in 0..Len(data) /\ skipField(data, wt).n = FixedLen
<1>1. CASE wt = wireVarint
  <2>1. skipField(data, wt) = readVarint(data)
    BY <1>1 DEF skipField, wireVarint, wireLen, wireFixed32
  <2>2. Len(data) \in Nat
    OBVIOUS
  <2>3. QED
    BY <1>1, <2>1, <2>2, ReadVarintType DEF wireVarint, wireLen, wireFixed32
<1>2. CASE wt = wireLen
  <2>1. skipField(data, wt) = readLength(data)
    BY <1>2 DEF skipField, wireVarint, wireLen, wireFixed32
  <2>2. Len(data) \in Nat
    OBVIOUS
  <2>3. QED
    BY <1>2, <2>1, <2>2, ReadLengthType DEF wireVarint, wireLen, wireFixed32
<1>3. CASE wt = wireFixed32
  <2>1. skipField(data, wt) = IF Len(data) < FixedLen THEN Failed
                              ELSE [ok |-> TRUE, n |-> FixedLen]
    BY <1>3 DEF skipField, wireVarint, wireLen, wireFixed32
  <2>2. Len(data) \in Nat /\ FixedLen \in Nat
    BY CodecAssumption
  <2>3. wt # wireVarint /\ wt # wireLen
    BY <1>3 DEF wireVarint, wireLen, wireFixed32
  <2>4. CASE Len(data) < FixedLen
    BY <2>1, <2>3, <2>4 DEF Failed
  <2>5. CASE FixedLen <= Len(data)
    <3>1. skipField(data, wt) = [ok |-> TRUE, n |-> FixedLen]
      BY <2>1, <2>2, <2>5
    <3>2. FixedLen \in 0..Len(data)
      BY <2>2, <2>5
    <3>3. QED
      BY <2>3, <3>1, <3>2
  <2>6. QED
    BY <2>2, <2>4, <2>5
<1>4. CASE wt \notin {wireVarint, wireLen, wireFixed32}
  <2>1. skipField(data, wt) = Failed
    BY <1>4 DEF skipField
  <2>2. QED
    BY <1>4, <2>1 DEF Failed
<1>5. QED
  BY <1>1, <1>2, <1>3, <1>4

-----------------------------------------------------------------------------
(***************************************************************************)
(* The sum that Uint32 computes, from the last byte to the first.          *)
(***************************************************************************)
Uint32Sum(bytes) ==
  LET sum[k \in 0..FixedLen] ==
        IF k = 0 THEN 0 ELSE bytes[FixedLen + 1 - k] + 2 * Base * sum[k - 1]
  IN  sum

(***************************************************************************)
(* It is well defined, and a number.                                       *)
(***************************************************************************)
LEMMA Uint32Sums ==
  ASSUME NEW bytes, \A j \in 1..FixedLen : bytes[j] \in Bytes
  PROVE  /\ Uint32Sum(bytes) \in [0..FixedLen -> Nat] /\ Uint32Sum(bytes)[0] = 0
         /\ \A k \in 1..FixedLen : Uint32Sum(bytes)[k] =
              bytes[FixedLen + 1 - k] + 2 * Base * Uint32Sum(bytes)[k - 1]
<1> DEFINE sum[k \in 0..FixedLen] ==
             IF k = 0 THEN 0 ELSE bytes[FixedLen + 1 - k] + 2 * Base * sum[k - 1]
           N == Nat
           step(k) == [v \in N |-> bytes[FixedLen + 1 - k] + 2 * Base * v]
           h == [k \in 1..FixedLen |-> step(k)]
<1>1. Uint32Sum(bytes) = sum
  BY DEF Uint32Sum
<1>2. FixedLen \in Nat /\ 0 \in N
  BY CodecAssumption
<1>3. h \in [1..FixedLen -> [N -> N]] /\ \A k \in 1..FixedLen : h[k] = step(k)
  <2>1. ASSUME NEW k \in 1..FixedLen PROVE step(k) \in [N -> N]
    <3>1. FixedLen + 1 - k \in 1..FixedLen
      BY <1>2
    <3>2. bytes[FixedLen + 1 - k] \in Nat
      BY <3>1, CodecAssumption DEF Bytes
    <3>3. ASSUME NEW v \in N PROVE bytes[FixedLen + 1 - k] + 2 * Base * v \in N
      <4>1. 2 * Base * v \in Nat
        BY CodecAssumption
      <4>2. QED
        BY <3>2, <4>1
    <3>4. QED
      BY <3>3
  <2> HIDE DEF step, N
  <2>2. QED
    BY <2>1
<1>4. PICK g : Steps(g, FixedLen, N, 0, h)
  <2> HIDE DEF N, h
  <2>1. QED
    BY <1>2, <1>3, StepRecursion
<1>5. g = [k \in 0..FixedLen |-> IF k = 0 THEN 0
             ELSE bytes[FixedLen + 1 - k] + 2 * Base * g[k - 1]]
  <2>1. /\ g \in [0..FixedLen -> N] /\ g[0] = 0
        /\ \A k \in 1..FixedLen : g[k] = step(k)[g[k - 1]]
    BY <1>3, <1>4 DEF Steps
  <2>2. \A k \in 1..FixedLen :
          g[k] = bytes[FixedLen + 1 - k] + 2 * Base * g[k - 1]
    <3> TAKE k \in 1..FixedLen
    <3>1. g[k - 1] \in N
      BY <1>2, <2>1
    <3>2. QED
      BY <2>1, <3>1
  <2>3. QED
    BY <1>2, <2>1, <2>2
<1>6. sum = [k \in 0..FixedLen |-> IF k = 0 THEN 0
             ELSE bytes[FixedLen + 1 - k] + 2 * Base * sum[k - 1]]
  BY <1>5
<1> HIDE DEF sum
<1>7. /\ sum[0] = 0
      /\ \A k \in 1..FixedLen : sum[k] = bytes[FixedLen + 1 - k] + 2 * Base * sum[k - 1]
  BY <1>2, <1>6
<1>8. \A k \in 0..FixedLen : sum[k] \in N
  <2>1. ASSUME NEW k \in 1..FixedLen, sum[k - 1] \in N PROVE sum[k] \in N
    BY <1>3, <1>7, <2>1
  <2> HIDE DEF N
  <2>2. QED
    BY <1>2, <1>7, <2>1, StepType
<1>9. sum \in [0..FixedLen -> N]
  BY <1>6, <1>8
<1>10. QED
  BY <1>1, <1>7, <1>9

(***************************************************************************)
(* What Uint32 reads is a number, and there are so many patterns.          *)
(***************************************************************************)
LEMMA Uint32Type ==
  /\ FixedPatterns \in Nat
  /\ \A bytes : (\A j \in 1..FixedLen : bytes[j] \in Bytes) => Uint32(bytes) \in Nat
<1>1. FixedPatterns \in Nat
  <2>1. 2 * Base \in Nat /\ FixedLen \in Nat
    BY CodecAssumption
  <2>2. QED
    BY <2>1, PowerSteps DEF FixedPatterns
<1>2. ASSUME NEW bytes, \A j \in 1..FixedLen : bytes[j] \in Bytes
      PROVE  Uint32(bytes) \in Nat
  <2>1. Uint32(bytes) = Uint32Sum(bytes)[FixedLen]
    BY DEF Uint32, Uint32Sum
  <2>2. Uint32Sum(bytes) \in [0..FixedLen -> Nat] /\ FixedLen \in 0..FixedLen
    BY <1>2, Uint32Sums, CodecAssumption
  <2>3. QED
    BY <2>1, <2>2
<1>3. QED
  BY <1>1, <1>2

(***************************************************************************)
(* A value is of one kind only ...                                         *)
(***************************************************************************)
LEMMA Kinds ==
  /\ \A v \in Scalar :
       /\ "number" \in DOMAIN v => v.number \in Int
       /\ "bool" \in DOMAIN v => v.bool \in BOOLEAN
       /\ "string" \in DOMAIN v => v.string \in Seq(Bytes)
       /\ "bytes" \in DOMAIN v => v.bytes \in Seq(Bytes)
       /\ ~("bytes" \in DOMAIN v /\ "string" \in DOMAIN v)
       /\ "array" \notin DOMAIN v
  /\ \A v \in Value : "array" \in DOMAIN v =>
       /\ v.array \in Seq(Scalar)
       /\ DOMAIN v \cap {"number", "bool", "string", "bytes"} = {}
  /\ \A v \in Value : "array" \notin DOMAIN v => v \in Scalar
<1> USE DEF Scalar, Value
<1>1. \A v \in Scalar :
        /\ "number" \in DOMAIN v => v.number \in Int
        /\ "bool" \in DOMAIN v => v.bool \in BOOLEAN
        /\ "string" \in DOMAIN v => v.string \in Seq(Bytes)
        /\ "bytes" \in DOMAIN v => v.bytes \in Seq(Bytes)
  OBVIOUS
<1>2. \A v \in Scalar : /\ ~("bytes" \in DOMAIN v /\ "string" \in DOMAIN v)
                        /\ "array" \notin DOMAIN v
  OBVIOUS
<1>3. \A v \in [array : Seq(Scalar)] :
        DOMAIN v = {"array"} /\ v.array \in Seq(Scalar)
  OBVIOUS
<1> HIDE DEF Scalar
<1>4. \A v \in Value : "array" \in DOMAIN v => v \in [array : Seq(Scalar)]
  BY <1>2
<1>5. QED
  BY <1>1, <1>2, <1>3, <1>4

(***************************************************************************)
(* ... and these are values.                                               *)
(***************************************************************************)
LEMMA KindsMade ==
  /\ \A n \in Int : [number |-> n] \in Scalar
  /\ \A b \in BOOLEAN : [bool |-> b] \in Scalar
  /\ \A s \in Seq(Bytes) : [string |-> s] \in Scalar /\ [bytes |-> s] \in Scalar
  /\ [inf |-> TRUE] \in Scalar
  /\ \A vs \in Seq(Scalar) : [array |-> vs] \in Value
  /\ \A v \in Scalar : v \in Value
<1>1. /\ \A n \in Int : [number |-> n] \in Scalar
      /\ \A b \in BOOLEAN : [bool |-> b] \in Scalar
      /\ \A s \in Seq(Bytes) : [string |-> s] \in Scalar /\ [bytes |-> s] \in Scalar
      /\ [inf |-> TRUE] \in Scalar
  BY DEF Scalar
<1>2. /\ \A vs \in Seq(Scalar) : [array |-> vs] \in Value
      /\ \A v \in Scalar : v \in Value
  BY DEF Value
<1>3. QED
  BY <1>1, <1>2

(***************************************************************************)
(* Every number decodes to a value of its kind.                            *)
(***************************************************************************)
LEMMA FromVarintType ==
  ASSUME NEW typ \in validTypes \ {"float", "string", "bytes"},
         NEW v \in 0..(U64 - 1)
  PROVE  FromVarint(typ, v) \in Scalar
<1>1. v \in Int /\ U32 \in Nat \ {0} /\ U64 \in Nat \ {0} /\ v % U32 \in Int
  BY CodecAssumption
<1>2. \A n \in Int, U \in Nat \ {0} : Signed(n, U) \in Int /\ unzigzag(n, U) \in Int
  BY DEF Signed, unzigzag
<1>3. \A n \in Int : Number(n) \in Scalar
  BY KindsMade DEF Number
<1>4. CASE typ = "bool"
  BY <1>4, KindsMade DEF FromVarint
<1>5. CASE typ = "int32"
  <2>1. FromVarint(typ, v) = Number(Signed(v % U32, U32))
    BY <1>5 DEF FromVarint
  <2>2. QED
    BY <1>1, <1>2, <1>3, <2>1
<1>6. CASE typ = "int64"
  <2>1. FromVarint(typ, v) = Number(Signed(v, U64))
    BY <1>6 DEF FromVarint
  <2>2. QED
    BY <1>1, <1>2, <1>3, <2>1
<1>7. CASE typ = "uint32"
  <2>1. FromVarint(typ, v) = Number(v % U32)
    BY <1>7 DEF FromVarint
  <2>2. QED
    BY <1>1, <1>3, <2>1
<1>8. CASE typ = "uint64"
  <2>1. FromVarint(typ, v) = Number(v)
    BY <1>8 DEF FromVarint
  <2>2. QED
    BY <1>1, <1>3, <2>1
<1>9. CASE typ = "sint32"
  <2>1. FromVarint(typ, v) = Number(unzigzag(v % U32, U32))
    BY <1>9 DEF FromVarint
  <2>2. QED
    BY <1>1, <1>2, <1>3, <2>1
<1>10. CASE typ = "sint64"
  <2>1. FromVarint(typ, v) = Number(unzigzag(v, U64))
    BY <1>10 DEF FromVarint
  <2>2. QED
    BY <1>1, <1>2, <1>3, <2>1
<1>11. QED
  BY <1>4, <1>5, <1>6, <1>7, <1>8, <1>9, <1>10 DEF validTypes

(***************************************************************************)
(* decodeValue stays within the body and makes a value of its type.        *)
(***************************************************************************)
LEMMA DecodeValueType ==
  ASSUME NEW data \in Seq(Bytes), NEW typ \in validTypes, NEW wt
  PROVE  /\ decodeValue(data, typ, wt).ok \in BOOLEAN
         /\ decodeValue(data, typ, wt).ok =>
              /\ decodeValue(data, typ, wt).n \in 0..Len(data)
              /\ decodeValue(data, typ, wt).val \in Scalar
<1> DEFINE r == skipField(data, wt)
           val == CASE typ = "float" -> Float(Uint32(SubSeq(data, 1, FixedLen)))
                    [] typ \in {"string", "bytes"} ->
                         FromBytes(typ, SubSeq(data, r.from, r.n))
                    [] OTHER -> FromVarint(typ, r.val)
<1>1. decodeValue(data, typ, wt) = IF wt # wireTypeFor(typ) \/ ~r.ok THEN Failed
                                   ELSE [ok |-> TRUE, n |-> r.n, val |-> val]
  BY DEF decodeValue
<1>2. /\ r.ok \in BOOLEAN /\ (r.ok => r.n \in 0..Len(data))
      /\ wt = wireVarint => r = readVarint(data)
      /\ wt = wireLen => r = readLength(data)
      /\ (wt = wireFixed32 /\ r.ok) => FixedLen \in 0..Len(data)
  BY SkipFieldType
<1> HIDE DEF r
<1>3. CASE wt # wireTypeFor(typ) \/ ~r.ok
  BY <1>1, <1>3 DEF Failed
<1>4. CASE wt = wireTypeFor(typ) /\ r.ok
  <2>1. decodeValue(data, typ, wt) = [ok |-> TRUE, n |-> r.n, val |-> val]
    BY <1>1, <1>4
  <2>2. CASE typ = "float"
    <3>1. val = Float(Uint32(SubSeq(data, 1, FixedLen)))
      BY <2>2
    <3>2. FixedLen \in 0..Len(data) /\ FixedLen \in Nat
      BY <1>2, <1>4, <2>2, CodecAssumption DEF wireTypeFor
    <3>3. \A j \in 1..FixedLen : SubSeq(data, 1, FixedLen)[j] \in Bytes
      <4>1. \A j \in 1..FixedLen : data[j] \in Bytes /\ 1 + j - 1 = j
        BY <3>2
      <4>2. /\ SubSeq(data, 1, FixedLen) \in Seq(Bytes)
            /\ \A j \in 1..(FixedLen - 1 + 1) : SubSeq(data, 1, FixedLen)[j] = data[1 + j - 1]
        BY <3>2, <4>1, SubSeqProperties
      <4>3. FixedLen - 1 + 1 = FixedLen
        BY <3>2
      <4>4. QED
        BY <4>1, <4>2, <4>3
    <3>4. Uint32(SubSeq(data, 1, FixedLen)) \in Nat /\ FixedPatterns \in Nat
      BY <3>3, Uint32Type
    <3>5. \A b \in Nat : Signed(b, FixedPatterns) \in Int
      BY <3>4 DEF Signed
    <3>6. \A b \in Nat : Float(b) \in Scalar
      BY <3>5, KindsMade DEF Float
    <3>7. QED
      BY <1>2, <1>4, <2>1, <3>1, <3>4, <3>6
  <2>3. CASE typ \in {"string", "bytes"}
    <3>1. val = FromBytes(typ, SubSeq(data, r.from, r.n))
      BY <2>3
    <3>2. r = readLength(data)
      BY <1>2, <1>4, <2>3 DEF wireTypeFor
    <3>3. SubSeq(data, r.from, r.n) \in Seq(Bytes)
      BY <1>4, <3>2, ReadLengthType
    <3>4. FromBytes(typ, SubSeq(data, r.from, r.n)) \in Scalar
      BY <3>3, KindsMade DEF FromBytes
    <3>5. QED
      BY <1>2, <1>4, <2>1, <3>1, <3>4
  <2>4. CASE typ \notin {"float", "string", "bytes"}
    <3>1. val = FromVarint(typ, r.val)
      BY <2>4
    <3>2. r = readVarint(data)
      BY <1>2, <1>4, <2>4 DEF wireTypeFor
    <3>3. r.val \in 0..(U64 - 1)
      BY <1>4, <3>2, ReadVarintType
    <3>4. FromVarint(typ, r.val) \in Scalar
      BY <2>4, <3>3, FromVarintType
    <3>5. QED
      BY <1>2, <1>4, <2>1, <3>1, <3>4
  <2>5. QED
    BY <2>2, <2>3, <2>4
<1>5. QED
  BY <1>2, <1>3, <1>4

-----------------------------------------------------------------------------
(***************************************************************************)
(* The beginnings of a concatenation, as FlattenSeq computes them.         *)
(***************************************************************************)
Flattened(seqs) ==
  LET flatten[k \in 1..Len(seqs)] ==
        IF k = 1 THEN seqs[k] ELSE flatten[k-1] \o seqs[k]
  IN  flatten

(***************************************************************************)
(* They are well defined.                                                  *)
(***************************************************************************)
LEMMA FlattenedSteps ==
  ASSUME NEW S, NEW seqs \in Seq(Seq(S)), Len(seqs) # 0
  PROVE  /\ Flattened(seqs) \in [1..Len(seqs) -> Seq(S)]
         /\ Flattened(seqs)[1] = seqs[1]
         /\ \A k \in 2..Len(seqs) :
              Flattened(seqs)[k] = Flattened(seqs)[k - 1] \o seqs[k]
<1> DEFINE n == Len(seqs)
           Q == Seq(S)
           flatten[k \in 1..n] ==
             IF k = 1 THEN seqs[k] ELSE flatten[k-1] \o seqs[k]
           step(k) == [s \in Q |-> s \o seqs[k + 1]]
           h == [k \in 1..(n - 1) |-> step(k)]
<1>1. Flattened(seqs) = flatten
  BY DEF Flattened
<1>2. n \in Nat /\ n >= 1 /\ n - 1 \in Nat /\ \A k \in 1..n : seqs[k] \in Q
  OBVIOUS
<1> HIDE DEF n
<1>3. h \in [1..(n - 1) -> [Q -> Q]] /\ \A k \in 1..(n - 1) : h[k] = step(k)
  <2>1. ASSUME NEW k \in 1..(n - 1) PROVE step(k) \in [Q -> Q]
    <3>1. seqs[k + 1] \in Q
      BY <1>2
    <3>2. QED
      BY <3>1
  <2> HIDE DEF step, Q
  <2>2. QED
    BY <2>1
<1>4. PICK g : Steps(g, n - 1, Q, seqs[1], h)
  <2>1. seqs[1] \in Q
    BY <1>2
  <2> HIDE DEF Q, h
  <2>2. QED
    BY <1>2, <1>3, <2>1, StepRecursion
<1> DEFINE G == [k \in 1..n |-> g[k - 1]]
<1>5. G = [k \in 1..n |-> IF k = 1 THEN seqs[k] ELSE G[k - 1] \o seqs[k]]
  <2>1. /\ g \in [0..(n - 1) -> Q] /\ g[0] = seqs[1]
        /\ \A k \in 1..(n - 1) : g[k] = step(k)[g[k - 1]]
    BY <1>3, <1>4 DEF Steps
  <2>2. ASSUME NEW k \in 2..n PROVE g[k - 1] = G[k - 1] \o seqs[k]
    <3>1. k - 1 \in 1..(n - 1) /\ (k - 1) - 1 \in 0..(n - 1) /\ (k - 1) + 1 = k
      BY <1>2
    <3>2. k - 1 \in 1..n
      BY <1>2
    <3>3. g[(k - 1) - 1] \in Q /\ g[k - 1] = step(k - 1)[g[(k - 1) - 1]]
      BY <2>1, <3>1
    <3>4. step(k - 1)[g[(k - 1) - 1]] = g[(k - 1) - 1] \o seqs[k]
      BY <3>1, <3>3
    <3>5. G[k - 1] = g[(k - 1) - 1]
      BY <3>2
    <3>6. QED
      BY <3>3, <3>4, <3>5
  <2>3. g[1 - 1] = seqs[1]
    BY <2>1
  <2>4. ASSUME NEW k \in 1..n
        PROVE  g[k - 1] = IF k = 1 THEN seqs[k] ELSE G[k - 1] \o seqs[k]
    <3>1. k = 1 \/ k \in 2..n
      BY <1>2
    <3> HIDE DEF G
    <3>2. QED
      BY <2>2, <2>3, <3>1
  <2>5. QED
    BY <2>4
<1> HIDE DEF G
<1>6. flatten = [k \in 1..n |-> IF k = 1 THEN seqs[k] ELSE flatten[k - 1] \o seqs[k]]
  BY <1>5
<1> HIDE DEF flatten
<1>7. flatten[1] = seqs[1] /\ \A k \in 2..n : flatten[k] = flatten[k - 1] \o seqs[k]
  <2> HIDE DEF Q, step, h
  <2>1. 1 \in 1..n /\ \A k \in 2..n : k \in 1..n /\ k # 1
    BY <1>2
  <2>2. flatten[1] = seqs[1]
    BY <1>6, <2>1
  <2>3. ASSUME NEW k \in 2..n PROVE flatten[k] = flatten[k - 1] \o seqs[k]
    <3>1. k \in 1..n /\ k # 1
      BY <2>1
    <3>2. QED
      BY <1>6, <3>1
  <2>4. QED
    BY <2>2, <2>3
<1>8. \A k \in 0..(n - 1) : flatten[k + 1] \in Q
  <2> DEFINE f == [k \in 0..(n - 1) |-> flatten[k + 1]]
  <2>1. \A k \in 0..(n - 1) : f[k] = flatten[k + 1]
    OBVIOUS
  <2>2. f[0] \in Q
    BY <1>2, <1>7
  <2>3. ASSUME NEW k \in 1..(n - 1), f[k - 1] \in Q PROVE f[k] \in Q
    <3>1. /\ k - 1 \in 0..(n - 1) /\ (k - 1) + 1 = k /\ k \in 0..(n - 1)
          /\ k + 1 \in 2..n /\ (k + 1) - 1 = k
      BY <1>2
    <3>2. f[k] = f[k - 1] \o seqs[k + 1]
      BY <1>7, <2>1, <3>1
    <3> HIDE DEF f
    <3>3. seqs[k + 1] \in Q
      BY <1>2, <3>1
    <3>4. QED
      BY <2>3, <3>2, <3>3, ConcatProperties
  <2> HIDE DEF f, Q
  <2>4. \A k \in 0..(n - 1) : f[k] \in Q
    BY <1>2, <2>2, <2>3, StepType
  <2>5. QED
    BY <2>1, <2>4
<1>9. flatten \in [1..n -> Q]
  <2>1. ASSUME NEW k \in 1..n PROVE flatten[k] \in Q
    <3>1. k - 1 \in 0..(n - 1) /\ (k - 1) + 1 = k
      BY <1>2
    <3>2. QED
      BY <1>8, <3>1
  <2> HIDE DEF Q
  <2>2. QED
    BY <1>6, <2>1
<1>10. QED
  BY <1>1, <1>7, <1>9 DEF n

(***************************************************************************)
(* The concatenation of sequences of bytes is one.                         *)
(***************************************************************************)
LEMMA FlattenType ==
  ASSUME NEW S, NEW seqs \in Seq(Seq(S))
  PROVE  FlattenSeq(seqs) \in Seq(S)
<1>1. CASE Len(seqs) = 0
  <2>1. FlattenSeq(seqs) = seqs /\ seqs = <<>>
    BY <1>1 DEF FlattenSeq
  <2>2. QED
    BY <2>1
<1>2. CASE Len(seqs) # 0
  <2>1. FlattenSeq(seqs) = Flattened(seqs)[Len(seqs)]
    BY <1>2 DEF FlattenSeq, Flattened
  <2>2. Flattened(seqs) \in [1..Len(seqs) -> Seq(S)]
    BY <1>2, FlattenedSteps
  <2>3. Len(seqs) \in 1..Len(seqs)
    BY <1>2
  <2>4. QED
    BY <2>1, <2>2, <2>3
<1>3. QED
  BY <1>1, <1>2

-----------------------------------------------------------------------------
(***************************************************************************)
(* What PutUint32 shifts, byte after byte.                                 *)
(***************************************************************************)
Shifts(bits) ==
  LET shifted[k \in 0..FixedLen] ==
        IF k = 0 THEN bits ELSE shifted[k - 1] \div (2 * Base)
  IN  shifted

(***************************************************************************)
(* The shifts are well defined.                                            *)
(***************************************************************************)
LEMMA ShiftsSteps ==
  ASSUME NEW bits \in Nat
  PROVE  /\ Shifts(bits) \in [0..FixedLen -> Nat] /\ Shifts(bits)[0] = bits
         /\ \A k \in 1..FixedLen : Shifts(bits)[k] = Shifts(bits)[k - 1] \div (2 * Base)
<1> DEFINE shifted[k \in 0..FixedLen] ==
             IF k = 0 THEN bits ELSE shifted[k - 1] \div (2 * Base)
           N == Nat
           step == [v \in N |-> v \div (2 * Base)]
           h == [k \in 1..FixedLen |-> step]
<1>1. Shifts(bits) = shifted
  BY DEF Shifts
<1>2. FixedLen \in Nat /\ bits \in N
  BY CodecAssumption
<1>3. h \in [1..FixedLen -> [N -> N]] /\ \A k \in 1..FixedLen : h[k] = step
  <2>1. \A v \in Nat : v \div (2 * Base) \in Nat
    BY CodecAssumption
  <2>2. step \in [N -> N]
    BY <2>1
  <2> HIDE DEF step, N
  <2>3. QED
    BY <2>2
<1>4. PICK g : Steps(g, FixedLen, N, bits, h)
  <2> HIDE DEF N, h
  <2>1. QED
    BY <1>2, <1>3, StepRecursion
<1>5. g = [k \in 0..FixedLen |-> IF k = 0 THEN bits ELSE g[k - 1] \div (2 * Base)]
  <2>1. /\ g \in [0..FixedLen -> N] /\ g[0] = bits
        /\ \A k \in 1..FixedLen : g[k] = step[g[k - 1]]
    BY <1>3, <1>4 DEF Steps
  <2>2. \A k \in 1..FixedLen : g[k] = g[k - 1] \div (2 * Base)
    <3> TAKE k \in 1..FixedLen
    <3>1. g[k - 1] \in N
      BY <1>2, <2>1
    <3>2. QED
      BY <2>1, <3>1
  <2>3. QED
    BY <1>2, <2>1, <2>2
<1>6. shifted = [k \in 0..FixedLen |-> IF k = 0 THEN bits ELSE shifted[k - 1] \div (2 * Base)]
  BY <1>5
<1> HIDE DEF shifted
<1>7. /\ shifted[0] = bits
      /\ \A k \in 1..FixedLen : shifted[k] = shifted[k - 1] \div (2 * Base)
  BY <1>2, <1>6
<1>8. \A k \in 0..FixedLen : shifted[k] \in N
  <2>1. ASSUME NEW k \in 1..FixedLen, shifted[k - 1] \in N PROVE shifted[k] \in N
    BY <1>7, <2>1, CodecAssumption
  <2> HIDE DEF N
  <2>2. QED
    BY <1>2, <1>7, <2>1, StepType
<1>9. shifted \in [0..FixedLen -> N]
  BY <1>6, <1>8
<1>10. QED
  BY <1>1, <1>7, <1>9

(***************************************************************************)
(* PutUint32 makes FixedLen bytes.                                         *)
(***************************************************************************)
LEMMA PutUint32Type ==
  ASSUME NEW bits \in Nat
  PROVE  /\ PutUint32(bits) \in Seq(Bytes) /\ Len(PutUint32(bits)) = FixedLen
         /\ \A k \in 1..FixedLen :
              PutUint32(bits)[k] = Shifts(bits)[k - 1] % (2 * Base)
<1>1. PutUint32(bits) = [k \in 1..FixedLen |-> Shifts(bits)[k - 1] % (2 * Base)]
  BY DEF PutUint32, Shifts
<1>2. Shifts(bits) \in [0..FixedLen -> Nat] /\ FixedLen \in Nat
  BY ShiftsSteps, CodecAssumption
<1>3. ASSUME NEW k \in 1..FixedLen PROVE Shifts(bits)[k - 1] % (2 * Base) \in Bytes
  <2>1. Shifts(bits)[k - 1] \in Nat
    BY <1>2
  <2>2. QED
    BY <2>1, CodecAssumption DEF Bytes
<1> HIDE DEF Bytes
<1>4. PutUint32(bits) \in [1..FixedLen -> Bytes]
  BY <1>1, <1>3
<1>5. QED
  BY <1>1, <1>2, <1>4

-----------------------------------------------------------------------------
(***************************************************************************)
(* Powers are not zero.                                                    *)
(***************************************************************************)
LEMMA PowerPositive ==
  ASSUME NEW b \in Nat \ {0}, NEW n \in Nat
  PROVE  Power(b, n) \in Nat \ {0}
<1> DEFINE D == {k \in 0..n : Power(b, k) # 0}
<1>1. 0 \in D
  BY PowerSteps
<1>2. ASSUME NEW k \in 1..n, k - 1 \in D PROVE k \in D
  <2>1. k - 1 \in Nat /\ (k - 1) + 1 = k /\ Power(b, k - 1) # 0
    BY <1>2
  <2>2. Power(b, k) = b * Power(b, k - 1) /\ Power(b, k - 1) \in Nat
    BY <2>1, PowerSteps
  <2>3. Power(b, k) # 0
    BY <2>1, <2>2
  <2>4. QED
    BY <2>3
<1>3. \A k \in 0..n : k \in D
  <2> HIDE DEF D
  <2>1. QED
    BY <1>1, <1>2, IntervalInduction
<1>4. Power(b, n) # 0 /\ Power(b, n) \in Nat
  BY <1>3, PowerSteps
<1>5. QED
  BY <1>4

(***************************************************************************)
(* The conversions of the encoder give numbers of the width they name.     *)
(***************************************************************************)
LEMMA ConversionTypes ==
  ASSUME NEW h \in Int, NEW u \in 0..(U64 - 1)
  PROVE  /\ toInt64(h, u) \in Int /\ toInt64(h, u) % U64 \in 0..(U64 - 1)
         /\ h >= 0 => toUint64(h, u) \in 0..(U64 - 1)
         /\ \A n \in Int, U \in Nat \ {0} : zigzag(n, U) \in 0..(U - 1)
         /\ \A n \in Int, U \in Nat \ {0} : Signed(n, U) \in Int
         /\ Float32bits(h) \in Nat /\ U32 <= U64
<1>1. U64 \in Nat \ {0} /\ U32 \in Nat \ {0} /\ u \in Int /\ h \div 2 \in Int
  BY CodecAssumption
<1>2. \A n \in Int, U \in Nat \ {0} : Signed(n, U) \in Int
  BY DEF Signed
<1>3. toInt64(h, u) \in Int
  BY <1>1, <1>2 DEF toInt64
<1>4. toInt64(h, u) % U64 \in 0..(U64 - 1)
  BY <1>1, <1>3
<1>5. h >= 0 => toUint64(h, u) \in 0..(U64 - 1)
  BY <1>1 DEF toUint64
<1>6. ASSUME NEW n \in Int, NEW U \in Nat \ {0} PROVE zigzag(n, U) \in 0..(U - 1)
  <2>1. 2 * n \in Int /\ (2 * n) % U \in 0..(U - 1)
    OBVIOUS
  <2>2. QED
    BY <2>1 DEF zigzag
<1>7. FixedPatterns \in Nat \ {0}
  <2>1. 2 * Base \in Nat \ {0} /\ FixedLen \in Nat
    BY CodecAssumption
  <2>2. QED
    BY <2>1, PowerPositive DEF FixedPatterns
<1>8. Float32bits(h) \in Nat
  BY <1>7 DEF Float32bits
<1>9. U32 <= U64
  <2>1. U64 % U32 = 0 /\ U64 = U32 * (U64 \div U32) + (U64 % U32) /\ U64 \div U32 \in Nat
    BY <1>1, CodecAssumption
  <2>2. U64 < U32 => U64 % U32 = U64
    BY <1>1, SmallRemainder
  <2>3. QED
    BY <1>1, <2>1, <2>2
<1>10. QED
  BY <1>2, <1>3, <1>4, <1>5, <1>6, <1>8, <1>9

(***************************************************************************)
(* appendValue makes bytes of every value it accepts.                      *)
(***************************************************************************)
LEMMA AppendValueType ==
  ASSUME NEW typ \in validTypes, NEW v \in Scalar, Encodable(typ, v),
         NEW u \in 0..(U64 - 1)
  PROVE  appendValue(typ, v, u) \in Seq(Bytes)
<1>1. \A n \in 0..(U64 - 1) : appendVarint[n] \in Seq(Bytes)
  BY AppendVarintType
<1>2. U64 \in Nat \ {0} /\ U32 \in Nat \ {0} /\ U64 > 1 /\ U32 <= U64
  <2>1. U32 <= U64
    <3>1. 0 \in Int
      OBVIOUS
    <3>2. QED
      BY <3>1, ConversionTypes
  <2>2. U32 \in Nat /\ U64 \in Nat /\ U32 # 0 /\ U32 % 8 = 0
    BY CodecAssumption
  <2>3. U32 # 1
    BY <2>2
  <2>4. QED
    BY <2>1, <2>2, <2>3
<1>3. CASE typ = "bool"
  <2>1. appendValue(typ, v, u) = appendVarint[IF v.bool THEN 1 ELSE 0]
    BY <1>3 DEF appendValue
  <2>2. QED
    BY <1>1, <1>2, <2>1
<1>4. CASE typ \in {"int32", "int64", "uint32", "uint64", "sint32", "sint64", "float"}
  <2>1. v.number \in Int
    BY <1>4, Kinds DEF Encodable
  <2> DEFINE h == v.number
  <2>2. /\ toInt64(h, u) \in Int /\ toInt64(h, u) % U64 \in 0..(U64 - 1)
        /\ h >= 0 => toUint64(h, u) \in 0..(U64 - 1)
        /\ \A n \in Int, U \in Nat \ {0} : zigzag(n, U) \in 0..(U - 1)
        /\ \A n \in Int, U \in Nat \ {0} : Signed(n, U) \in Int
        /\ Float32bits(h) \in Nat
    <3> HIDE DEF h
    <3>1. h \in Int
      BY <2>1 DEF h
    <3>2. QED
      BY <3>1, ConversionTypes
  <2>3. CASE typ \in {"int32", "int64"}
    <3>1. appendValue(typ, v, u) = appendVarint[toInt64(h, u) % U64]
      BY <2>3 DEF appendValue
    <3>2. QED
      BY <1>1, <2>2, <3>1
  <2>4. CASE typ \in {"uint32", "uint64"}
    <3>1. appendValue(typ, v, u) = appendVarint[toUint64(h, u)]
      BY <2>4 DEF appendValue
    <3>2. h >= 0
      BY <2>4 DEF Encodable
    <3>3. QED
      BY <1>1, <2>2, <3>1, <3>2
  <2>5. CASE typ = "sint32"
    <3>1. appendValue(typ, v, u) =
            appendVarint[zigzag(Signed(toInt64(h, u) % U32, U32), U32)]
      BY <2>5 DEF appendValue
    <3>2. toInt64(h, u) % U32 \in Int
      BY <1>2, <2>2
    <3>3. zigzag(Signed(toInt64(h, u) % U32, U32), U32) \in 0..(U32 - 1)
      BY <1>2, <2>2, <3>2
    <3>4. zigzag(Signed(toInt64(h, u) % U32, U32), U32) \in 0..(U64 - 1)
      BY <1>2, <3>3
    <3>5. QED
      BY <1>1, <3>1, <3>4
  <2>6. CASE typ = "sint64"
    <3>1. appendValue(typ, v, u) = appendVarint[zigzag(toInt64(h, u), U64)]
      BY <2>6 DEF appendValue
    <3>2. QED
      BY <1>1, <1>2, <2>2, <3>1
  <2>7. CASE typ = "float"
    <3>1. appendValue(typ, v, u) = PutUint32(Float32bits(h))
      BY <2>7 DEF appendValue
    <3>2. QED
      BY <2>2, <3>1, PutUint32Type
  <2>8. QED
    BY <1>4, <2>3, <2>4, <2>5, <2>6, <2>7
<1>5. CASE typ \in {"string", "bytes"}
  <2>1. appendValue(typ, v, u) = appendVarint[Len(v[typ]) % U64] \o v[typ]
    BY <1>5 DEF appendValue
  <2>2. v[typ] \in Seq(Bytes)
    BY <1>5, Kinds DEF Encodable
  <2>3. Len(v[typ]) \in Nat
    BY <2>2
  <2>4. Len(v[typ]) % U64 \in 0..(U64 - 1)
    <3>1. \A n \in Nat : n % U64 \in 0..(U64 - 1)
      BY <1>2
    <3>2. QED
      BY <2>3, <3>1
  <2>5. appendVarint[Len(v[typ]) % U64] \in Seq(Bytes)
    BY <1>1, <2>4
  <2>6. QED
    BY <2>1, <2>2, <2>5, ConcatProperties
<1>6. QED
  BY <1>3, <1>4, <1>5 DEF validTypes

(***************************************************************************)
(* What a field's type can hold is accepted by the encoder.                *)
(***************************************************************************)
LEMMA CarriedIsEncodable ==
  ASSUME NEW typ \in validTypes, NEW v \in Scalar, Carries(typ, v)
  PROVE  Encodable(typ, v)
<1>1. CASE typ \in {"bool", "string", "bytes", "float"}
  BY <1>1 DEF Carries, Encodable
<1>2. CASE typ \in {"uint32", "uint64"}
  <2>1. "number" \in DOMAIN v /\ v.number % 2 = 0 /\ v.number \div 2 \in Ints(typ)
    BY <1>2 DEF Carries
  <2>2. v.number \in Int /\ v.number \div 2 >= 0
    BY <1>2, <2>1, Kinds, CodecAssumption DEF Ints
  <2>3. v.number >= 0
    BY <2>2
  <2>4. QED
    BY <1>2, <2>1, <2>3 DEF Encodable
<1>3. CASE typ \in {"int32", "int64", "sint32", "sint64"}
  BY <1>3 DEF Carries, Encodable
<1>4. QED
  BY <1>1, <1>2, <1>3 DEF validTypes

(***************************************************************************)
(* EncodeField writes bytes, for every legal tag.                          *)
(***************************************************************************)
LEMMA EncodeFieldType ==
  ASSUME NEW f, f.tag \in 1..MaxTag, f.type \in validTypes,
         NEW v \in Scalar, Encodable(f.type, v), NEW u \in 0..(U64 - 1)
  PROVE  /\ appendTag(f.tag, wireTypeFor(f.type)) \in Seq(Bytes)
         /\ 8 * f.tag + wireTypeFor(f.type) \in 0..(U32 - 1)
         /\ 8 * f.tag + wireTypeFor(f.type) \in 0..(U64 - 1)
         /\ EncodeField(f, v, u) \in Seq(Bytes)
<1>1. wireTypeFor(f.type) \in 0..5
  BY DEF wireTypeFor, wireVarint, wireLen, wireFixed32
<1>2. U32 \in Nat /\ U64 \in Nat /\ U32 <= U64
  <2>1. 0 \in Int
    OBVIOUS
  <2>2. QED
    BY <2>1, ConversionTypes, CodecAssumption
<1>3. 8 * MaxTag + 8 <= U32 /\ MaxTag \in Int
  BY <1>2 DEF MaxTag
<1>4. f.tag \in Nat /\ f.tag <= MaxTag
  BY <1>3
<1>5. 8 * f.tag + wireTypeFor(f.type) \in 0..(U32 - 1)
  BY <1>1, <1>2, <1>3, <1>4
<1>6. 8 * f.tag + wireTypeFor(f.type) \in 0..(U64 - 1)
  BY <1>2, <1>5
<1>7. appendTag(f.tag, wireTypeFor(f.type)) \in Seq(Bytes)
  BY <1>6, AppendVarintType DEF appendTag
<1>8. appendValue(f.type, v, u) \in Seq(Bytes)
  BY AppendValueType
<1>9. EncodeField(f, v, u) \in Seq(Bytes)
  BY <1>7, <1>8, ConcatProperties DEF EncodeField
<1>10. QED
  BY <1>5, <1>6, <1>7, <1>9

-----------------------------------------------------------------------------
(***************************************************************************)
(* What NewSchema guarantees: legal fields, found by their names and tags. *)
(***************************************************************************)
LEMMA SchemaFields ==
  ASSUME NEW s \in Schemas
  PROVE  /\ Len(s) \in Nat /\ DOMAIN s = 1..Len(s)
         /\ \A f \in Range(s) :
              /\ f.tag \in 1..MaxTag /\ f.type \in validTypes
              /\ f.repeated \in BOOLEAN
              /\ FieldNamed(s, f.name) = f /\ FieldTagged(s, f.tag) = f
         /\ \A name : HasName(s, name) =>
              FieldNamed(s, name) \in Range(s) /\ FieldNamed(s, name).name = name
         /\ \A tag : HasTag(s, tag) =>
              FieldTagged(s, tag) \in Range(s) /\ FieldTagged(s, tag).tag = tag
<1> DEFINE R == [tag : Nat, type : STRING, name : STRING, repeated : BOOLEAN]
<1>1. s \in Seq(R) /\ NewSchema(s)
  BY TranslationAssumption DEF Schemas
<1> HIDE DEF R
<1>2. Len(s) \in Nat /\ DOMAIN s = 1..Len(s) /\ \A j \in DOMAIN s : s[j] \in R
  BY <1>1
<1>3. ASSUME NEW j \in DOMAIN s, NEW k \in DOMAIN s,
             s[j].tag = s[k].tag \/ s[j].name = s[k].name
      PROVE  j = k
  <2>1. j \in Int /\ k \in Int
    BY <1>2
  <2>2. ~(j < k)
    <3>1. j < k => j \in 1..(k - 1)
      BY <1>2, <2>1
    <3>2. QED
      BY <1>1, <1>3, <3>1 DEF NewSchema
  <2>3. ~(k < j)
    <3>1. k < j => k \in 1..(j - 1)
      BY <1>2, <2>1
    <3>2. QED
      BY <1>1, <1>3, <3>1 DEF NewSchema
  <2>4. QED
    BY <2>1, <2>2, <2>3
<1>4. \A f \in Range(s) : \E j \in DOMAIN s : f = s[j]
  BY DEF Range
<1>5. ASSUME NEW f \in Range(s)
      PROVE  /\ f.tag \in 1..MaxTag /\ f.type \in validTypes
             /\ f.repeated \in BOOLEAN
             /\ FieldNamed(s, f.name) = f /\ FieldTagged(s, f.tag) = f
  <2>1. PICK j \in DOMAIN s : f = s[j]
    BY <1>4
  <2>2. f.tag \in 1..MaxTag /\ f.type \in validTypes
    BY <1>1, <2>1 DEF NewSchema
  <2>3. f.repeated \in BOOLEAN
    BY <1>2, <2>1 DEF R
  <2>4. \A g \in Range(s) : (g.name = f.name \/ g.tag = f.tag) => g = f
    BY <1>3, <1>4, <2>1
  <2>5. FieldNamed(s, f.name) = f /\ FieldTagged(s, f.tag) = f
    BY <2>4 DEF FieldNamed, FieldTagged
  <2>6. QED
    BY <2>2, <2>3, <2>5
<1>6. \A name : HasName(s, name) =>
        FieldNamed(s, name) \in Range(s) /\ FieldNamed(s, name).name = name
  BY DEF HasName, FieldNamed
<1>7. \A tag : HasTag(s, tag) =>
        FieldTagged(s, tag) \in Range(s) /\ FieldTagged(s, tag).tag = tag
  BY DEF HasTag, FieldTagged
<1>8. QED
  BY <1>2, <1>5, <1>6, <1>7

(***************************************************************************)
(* Base64 text that IsBase64 accepts decodes to bytes.                     *)
(***************************************************************************)
LEMMA DecodeStringType ==
  ASSUME NEW text \in Seq(Bytes), IsBase64(text)
  PROVE  DecodeString(text) \in Seq(Bytes)
<1> DEFINE n == Len(text) \div 2
<1>1. n \in Nat /\ Len(text) \in Nat /\ 2 * n <= Len(text)
  OBVIOUS
<1>2. DecodeString(text) = [k \in 1..n |-> text[2 * k - 1] * Base + text[2 * k]]
  BY DEF DecodeString
<1> HIDE DEF n
<1>3. ASSUME NEW k \in 1..n PROVE text[2 * k - 1] * Base + text[2 * k] \in Bytes
  <2>1. 2 * k - 1 \in 1..Len(text) /\ 2 * k \in 1..Len(text)
    BY <1>1
  <2>2. text[2 * k - 1] \in Nat /\ text[2 * k] \in Nat
    BY <2>1, Sizes
  <2>3. (2 * k - 1) % 2 = 1 /\ (2 * k) % 2 # 1
    BY <1>1
  <2>4. text[2 * k - 1] < 2 /\ text[2 * k] < Base
    BY <2>1, <2>3 DEF IsBase64
  <2>5. text[2 * k - 1] = 0 \/ text[2 * k - 1] = 1
    BY <2>2, <2>4
  <2>6. text[2 * k - 1] * Base \in {0, Base}
    BY <2>5, CodecAssumption
  <2> DEFINE x == text[2 * k - 1] * Base
             y == text[2 * k]
  <2>7. x \in {0, Base} /\ y \in Nat /\ y < Base
    BY <2>2, <2>4, <2>6
  <2> HIDE DEF x, y
  <2>8. x + y \in Bytes
    BY <2>7, CodecAssumption DEF Bytes
  <2>9. QED
    BY <2>8 DEF x, y
<1> HIDE DEF Bytes
<1>4. DecodeString(text) \in [1..n -> Bytes]
  BY <1>2, <1>3
<1>5. QED
  BY <1>1, <1>4

(***************************************************************************)
(* jsonScalarToGo makes values that the encoder knows.                     *)
(***************************************************************************)
LEMMA JsonScalarType ==
  ASSUME NEW typ, NEW v \in Scalar,
         typ = "bytes" => "string" \in DOMAIN v /\ IsBase64(v.string)
  PROVE  jsonScalarToGo(typ, v) \in Scalar
<1>1. CASE typ = "bytes"
  <2>1. DecodeString(v.string) \in Seq(Bytes)
    BY <1>1, DecodeStringType, Kinds
  <2>2. jsonScalarToGo(typ, v) = [bytes |-> DecodeString(v.string)]
    BY <1>1 DEF jsonScalarToGo
  <2>3. QED
    BY <2>1, <2>2, KindsMade
<1>2. CASE typ # "bytes" /\ "number" \in DOMAIN v
  <2>1. v.number \in Int
    BY <1>2, Kinds
  <2>2. \A h \in Int : Float64(h) \in Int
    BY DEF Float64
  <2>3. jsonScalarToGo(typ, v) = [number |-> Float64(v.number)]
    BY <1>2 DEF jsonScalarToGo
  <2>4. QED
    BY <2>1, <2>2, <2>3, KindsMade
<1>3. CASE typ # "bytes" /\ "number" \notin DOMAIN v
  BY <1>3 DEF jsonScalarToGo
<1>4. QED
  BY <1>1, <1>2, <1>3

(***************************************************************************)
(* What a typed object contributes to the body, element by element.        *)
(***************************************************************************)
LEMMA PreparedElements ==
  ASSUME NEW s \in Schemas, NEW object, TypedObject(object),
         TranslatesJSON(s, object), NEW f \in Range(s), f.name \in DOMAIN object
  PROVE  LET vs == Elements(f, Prepared(s, object)[f.name]) IN
         /\ vs \in Seq(Scalar)
         /\ \A k \in DOMAIN vs : Encodable(f.type, vs[k])
<1> DEFINE v == object[f.name]
           vs == Elements(f, Prepared(s, object)[f.name])
<1>1. FieldNamed(s, f.name) = f /\ f.repeated \in BOOLEAN
  BY SchemaFields
<1>2. v \in Value /\ JsonAccepted(f, v)
  BY <1>1 DEF TypedObject, TranslatesJSON
<1>3. Prepared(s, object)[f.name] = jsonValueToGo(f, v)
  BY <1>1 DEF Prepared
<1>4. f.name \in DOMAIN Prepared(s, object)
  BY DEF Prepared
<1>5. \A x \in Range(vs) : Encodable(f.type, x)
  BY <1>4 DEF TranslatesJSON, EncodesProto
<1>6. \A k \in DOMAIN vs : Encodable(f.type, vs[k])
  <2> HIDE DEF vs
  <2>1. QED
    BY <1>5 DEF Range
<1>7. CASE f.repeated
  <2> DEFINE a == v.array
  <2>1. a \in Seq(Scalar)
    BY <1>2, <1>7, Kinds DEF JsonAccepted
  <2>2. Len(a) \in Nat /\ DOMAIN a = 1..Len(a) /\ \A k \in DOMAIN a : a[k] \in Scalar
    BY <2>1
  <2>3. f.type = "bytes" =>
          \A k \in DOMAIN a : "string" \in DOMAIN a[k] /\ IsBase64(a[k].string)
    BY <1>2, <1>7 DEF JsonAccepted, Elements, Range
  <2>4. vs = [k \in DOMAIN a |-> jsonScalarToGo(f.type, a[k])]
    BY <1>3, <1>7 DEF Elements, jsonValueToGo
  <2> HIDE DEF a, vs
  <2>5. ASSUME NEW k \in DOMAIN a PROVE jsonScalarToGo(f.type, a[k]) \in Scalar
    BY <2>2, <2>3, JsonScalarType
  <2>6. vs \in [1..Len(a) -> Scalar]
    BY <2>2, <2>4, <2>5
  <2>7. vs \in Seq(Scalar)
    BY <2>2, <2>6
  <2>8. QED
    BY <1>6, <2>7 DEF vs
<1>8. CASE ~f.repeated
  <2>1. vs = <<jsonScalarToGo(f.type, v)>>
    BY <1>3, <1>8 DEF Elements, jsonValueToGo
  <2>2. f.type = "bytes" => "string" \in DOMAIN v /\ IsBase64(v.string)
    <3>1. Elements(f, v) = <<v>> /\ v \in Range(<<v>>)
      BY <1>8 DEF Elements, Range
    <3>2. QED
      BY <1>2, <3>1 DEF JsonAccepted
  <2>3. "array" \notin DOMAIN v
    <3>1. SUFFICES ASSUME "array" \in DOMAIN v PROVE FALSE
      OBVIOUS
    <3>2. DOMAIN v \cap {"number", "bool", "string", "bytes"} = {}
      BY <1>2, <3>1, Kinds
    <3>3. f.type # "bytes" /\ jsonScalarToGo(f.type, v) = v
      BY <2>2, <3>2 DEF jsonScalarToGo
    <3>4. Encodable(f.type, v) /\ f.type \in validTypes
      <4> HIDE DEF vs, v
      <4>1. vs = <<v>>
        BY <2>1, <3>3
      <4>2. QED
        BY <1>6, <4>1, SchemaFields
    <3> HIDE DEF v
    <3>5. QED
      BY <3>2, <3>4 DEF Encodable, validTypes
  <2>4. jsonScalarToGo(f.type, v) \in Scalar
    BY <1>2, <2>2, <2>3, Kinds, JsonScalarType
  <2> HIDE DEF vs, v
  <2>5. vs \in Seq(Scalar)
    BY <2>1, <2>4
  <2>6. QED
    BY <1>6, <2>5 DEF vs
<1>9. QED
  BY <1>1, <1>7, <1>8

(***************************************************************************)
(* JSONToProto makes bytes of every object it accepts.                     *)
(***************************************************************************)
LEMMA JsonToProtoType ==
  ASSUME NEW s \in Schemas, NEW object, TypedObject(object),
         TranslatesJSON(s, object), NEW u \in 0..(U64 - 1)
  PROVE  JSONToProto(s, object, u) \in Seq(Bytes)
<1> DEFINE values_ == Prepared(s, object)
           Coded(f, vs) == [k \in DOMAIN vs |-> EncodeField(f, vs[k], u)]
           OneField(f) == IF f.name \notin DOMAIN values_ THEN <<>>
                          ELSE FlattenSeq(Coded(f, Elements(f, values_[f.name])))
           all == [j \in DOMAIN s |-> OneField(s[j])]
<1>1. JSONToProto(s, object, u) = FlattenSeq(all)
  BY DEF JSONToProto, EncodeProto
<1>2. DOMAIN values_ = DOMAIN object
  BY DEF Prepared
<1>3. ASSUME NEW f \in Range(s), f.name \in DOMAIN object
      PROVE  Coded(f, Elements(f, values_[f.name])) \in Seq(Seq(Bytes))
  <2> DEFINE vs == Elements(f, values_[f.name])
  <2>1. vs \in Seq(Scalar) /\ \A k \in DOMAIN vs : Encodable(f.type, vs[k])
    BY <1>3, PreparedElements
  <2> HIDE DEF vs
  <2>2. Len(vs) \in Nat /\ DOMAIN vs = 1..Len(vs) /\ \A k \in DOMAIN vs : vs[k] \in Scalar
    BY <2>1
  <2>3. f.tag \in 1..MaxTag /\ f.type \in validTypes
    BY SchemaFields
  <2>4. \A k \in DOMAIN vs : EncodeField(f, vs[k], u) \in Seq(Bytes)
    BY <2>1, <2>2, <2>3, EncodeFieldType
  <2>5. Coded(f, vs) \in [1..Len(vs) -> Seq(Bytes)]
    BY <2>2, <2>4
  <2>6. Coded(f, vs) \in Seq(Seq(Bytes))
    BY <2>2, <2>5
  <2>7. QED
    BY <2>6 DEF vs
<1> HIDE DEF Coded, values_
<1>4. \A f \in Range(s) : OneField(f) \in Seq(Bytes)
  <2> TAKE f \in Range(s)
  <2>1. CASE f.name \notin DOMAIN values_
    BY <2>1
  <2>2. CASE f.name \in DOMAIN values_
    <3>1. Coded(f, Elements(f, values_[f.name])) \in Seq(Seq(Bytes))
      BY <1>2, <1>3, <2>2
    <3>2. OneField(f) = FlattenSeq(Coded(f, Elements(f, values_[f.name])))
      BY <2>2
    <3>3. QED
      BY <3>1, <3>2, FlattenType
  <2>3. QED
    BY <2>1, <2>2
<1> HIDE DEF OneField
<1>5. all \in Seq(Seq(Bytes))
  <2>1. Len(s) \in Nat /\ DOMAIN s = 1..Len(s) /\ \A j \in DOMAIN s : s[j] \in Range(s)
    BY SchemaFields DEF Range
  <2>2. all \in [1..Len(s) -> Seq(Bytes)]
    BY <1>4, <2>1
  <2>3. QED
    BY <2>1, <2>2
<1> HIDE DEF all
<1>6. QED
  BY <1>1, <1>5, FlattenType

-----------------------------------------------------------------------------
(***************************************************************************)
(* goScalarToJSON keeps scalars scalars.                                   *)
(***************************************************************************)
LEMMA GoScalarType ==
  ASSUME NEW typ, NEW v \in Scalar
  PROVE  goScalarToJSON(typ, v) \in Scalar
<1>1. CASE "bytes" \in DOMAIN v
  <2> DEFINE b == v.bytes
             n == 2 * Len(b)
  <2>1. b \in Seq(Bytes)
    BY <1>1, Kinds
  <2> HIDE DEF b
  <2>2. n \in Nat /\ Len(b) \in Nat /\ n = 2 * Len(b)
    BY <2>1
  <2>3. EncodeToString(b) = [k \in 1..n |-> IF k % 2 = 1 THEN b[(k + 1) \div 2] \div Base
                                            ELSE b[k \div 2] % Base]
    BY DEF EncodeToString
  <2> HIDE DEF n
  <2>4. \A x \in Bytes : x \div Base \in Bytes /\ x % Base \in Bytes
    <3> TAKE x \in Bytes
    <3>1. x \in Nat /\ x < 2 * Base
      BY CodecAssumption DEF Bytes
    <3>2. x \div Base \in Nat /\ x % Base \in 0..(Base - 1) /\ x \div Base <= x
      BY <3>1, CodecAssumption
    <3>3. QED
      BY <3>1, <3>2, CodecAssumption DEF Bytes
  <2>5. ASSUME NEW k \in 1..n
        PROVE  (IF k % 2 = 1 THEN b[(k + 1) \div 2] \div Base ELSE b[k \div 2] % Base)
                 \in Bytes
    <3>1. k % 2 = 1 => (k + 1) \div 2 \in 1..Len(b)
      BY <2>2
    <3>2. k % 2 # 1 => k \div 2 \in 1..Len(b)
      BY <2>2
    <3>3. QED
      BY <2>1, <2>4, <3>1, <3>2
  <2>6. EncodeToString(b) \in [1..n -> Bytes]
    BY <2>3, <2>5
  <2>7. EncodeToString(b) \in Seq(Bytes)
    BY <2>2, <2>6
  <2>8. goScalarToJSON(typ, v) = [string |-> EncodeToString(b)]
    BY <1>1, Kinds DEF goScalarToJSON, b
  <2>9. QED
    BY <2>7, <2>8, KindsMade
<1>2. CASE "bytes" \notin DOMAIN v /\ "string" \in DOMAIN v
  <2> DEFINE t == v.string
  <2>1. t \in Seq(Bytes)
    BY <1>2, Kinds
  <2> HIDE DEF t
  <2>2. Len(t) \in Nat /\ DOMAIN t = 1..Len(t)
    BY <2>1
  <2>3. ASSUME NEW k \in DOMAIN t PROVE (IF t[k] > Base THEN Base ELSE t[k]) \in Bytes
    <3>1. t[k] \in Bytes
      BY <2>1, <2>2
    <3>2. Base \in Bytes
      BY CodecAssumption DEF Bytes
    <3>3. QED
      BY <3>1, <3>2
  <2>4. ToValidUTF8(t) \in [1..Len(t) -> Bytes]
    BY <2>2, <2>3 DEF ToValidUTF8
  <2>5. ToValidUTF8(t) \in Seq(Bytes)
    BY <2>2, <2>4
  <2>6. goScalarToJSON(typ, v) = [string |-> ToValidUTF8(t)]
    BY <1>2 DEF goScalarToJSON, t
  <2>7. QED
    BY <2>5, <2>6, KindsMade
<1>3. CASE "bytes" \notin DOMAIN v /\ "string" \notin DOMAIN v
  BY <1>3 DEF goScalarToJSON
<1>4. QED
  BY <1>1, <1>2, <1>3

(***************************************************************************)
(* What ProtoToJSON publishes is a JSON object.                            *)
(***************************************************************************)
LEMMA ProtoToJsonType ==
  ASSUME NEW s \in Schemas, NEW object, TypedObject(object),
         \A name \in DOMAIN object :
           HasName(s, name)
           /\ (FieldNamed(s, name).repeated => "array" \in DOMAIN object[name])
  PROVE  TypedObject(ProtoToJSON(s, object))
<1>1. SUFFICES ASSUME NEW name \in DOMAIN object
               PROVE  goValueToJSON(FieldNamed(s, name), object[name]) \in Value
  BY DEF TypedObject, ProtoToJSON
<1> DEFINE f == FieldNamed(s, name)
           v == object[name]
<1>2. v \in Value /\ (f.repeated => "array" \in DOMAIN v) /\ f.repeated \in BOOLEAN
  BY SchemaFields DEF TypedObject
<1> HIDE DEF f, v
<1>3. CASE f.repeated
  <2> DEFINE a == v.array
             b == [k \in DOMAIN a |-> goScalarToJSON(f.type, a[k])]
  <2>1. a \in Seq(Scalar)
    BY <1>2, <1>3, Kinds
  <2>2. goValueToJSON(f, v) = [array |-> b]
    BY <1>3 DEF goValueToJSON
  <2> HIDE DEF a
  <2>3. Len(a) \in Nat /\ DOMAIN a = 1..Len(a) /\ \A k \in DOMAIN a : a[k] \in Scalar
    BY <2>1
  <2>4. \A k \in DOMAIN a : goScalarToJSON(f.type, a[k]) \in Scalar
    BY <2>3, GoScalarType
  <2>5. b \in [1..Len(a) -> Scalar]
    BY <2>3, <2>4
  <2>6. b \in Seq(Scalar)
    BY <2>3, <2>5
  <2> HIDE DEF b
  <2>7. QED
    BY <2>2, <2>6, KindsMade DEF f, v
<1>4. CASE ~f.repeated
  <2>1. goValueToJSON(f, v) = goScalarToJSON(f.type, v)
    BY <1>4 DEF goValueToJSON
  <2>2. CASE v \in Scalar
    BY <2>1, <2>2, GoScalarType, KindsMade DEF f, v
  <2>3. CASE "array" \in DOMAIN v
    <3>1. "bytes" \notin DOMAIN v /\ "string" \notin DOMAIN v
      BY <1>2, <2>3, Kinds
    <3>2. goScalarToJSON(f.type, v) = v
      BY <3>1 DEF goScalarToJSON
    <3>3. QED
      BY <1>2, <2>1, <3>2 DEF f, v
  <2>4. QED
    BY <1>2, <2>2, <2>3, Kinds
<1>5. QED
  BY <1>2, <1>3, <1>4

-----------------------------------------------------------------------------
(***************************************************************************)
(* The type invariant, made inductive: decoding has not begun while the    *)
(* message is still with its sender.                                       *)
(***************************************************************************)
TypeInv == TypeOK /\ (at \in {"mqtt", "build", "foreign"} => i = 0)

(***************************************************************************)
(* Where the readers stand in one turn of the loop: what is left, after    *)
(* the tag and after the field.                                            *)
(***************************************************************************)
LEMMA TurnTypes ==
  ASSUME TypeOK, i < Len(body)
  PROVE  /\ Rest(i) \in Seq(Bytes) /\ Key.ok \in BOOLEAN
         /\ Key.ok =>
              /\ Key.n \in 1..(Len(body) - i)
              /\ Rest(i + Key.n) \in Seq(Bytes)
              /\ Len(Rest(i + Key.n)) = Len(body) - (i + Key.n)
              /\ SubSeq(Rest(i), Key.n + 1, Len(Rest(i))) = Rest(i + Key.n)
              /\ Content.ok \in BOOLEAN
              /\ Content.ok =>
                   /\ Content.n \in 0..(Len(body) - (i + Key.n))
                   /\ i + Key.n + Content.n \in (i + 1)..Len(body)
                   /\ Known => Content.val \in Scalar
<1>1. /\ body \in Seq(Bytes) /\ i \in 0..Len(body) /\ Len(body) \in Nat
      /\ schema \in Schemas
  BY DEF TypeOK
<1>2. Rest(i) \in Seq(Bytes) /\ Len(Rest(i)) = Len(body) - i
  BY <1>1, Suffix DEF Rest
<1>3. Key.ok \in BOOLEAN /\ (Key.ok => Key.n \in 1..(Len(body) - i))
  BY <1>2, ReadVarintType DEF Key
<1>4. ASSUME Key.ok
      PROVE  /\ Rest(i + Key.n) \in Seq(Bytes)
             /\ Len(Rest(i + Key.n)) = Len(body) - (i + Key.n)
             /\ SubSeq(Rest(i), Key.n + 1, Len(Rest(i))) = Rest(i + Key.n)
             /\ Content.ok \in BOOLEAN
             /\ Content.ok =>
                  /\ Content.n \in 0..(Len(body) - (i + Key.n))
                  /\ i + Key.n + Content.n \in (i + 1)..Len(body)
                  /\ Known => Content.val \in Scalar
  <2>1. /\ Key.n \in Nat /\ Key.n >= 1 /\ i \in Nat /\ i + Key.n \in 0..Len(body)
        /\ i + Key.n <= Len(body)
    BY <1>1, <1>3, <1>4
  <2>2. Rest(i + Key.n) \in Seq(Bytes) /\ Len(Rest(i + Key.n)) = Len(body) - (i + Key.n)
    BY <1>1, <2>1, Suffix DEF Rest
  <2>3. SubSeq(Rest(i), Key.n + 1, Len(Rest(i))) = Rest(i + Key.n)
    BY <1>1, <2>1, SuffixOfSuffix DEF Rest
  <2>4. /\ Content.ok \in BOOLEAN
        /\ Content.ok => /\ Content.n \in 0..(Len(body) - (i + Key.n))
                         /\ Known => Content.val \in Scalar
    <3>1. CASE Known
      <4>1. FieldTagged(schema, KeyField).type \in validTypes
        BY <1>1, <3>1, SchemaFields DEF Known
      <4>2. Content = decodeValue(Rest(i + Key.n), FieldTagged(schema, KeyField).type,
                                  WireType)
        BY <3>1 DEF Content
      <4>3. QED
        BY <2>2, <4>1, <4>2, DecodeValueType
    <3>2. CASE ~Known
      <4>1. Content = skipField(Rest(i + Key.n), WireType)
        BY <3>2 DEF Content
      <4>2. QED
        BY <2>2, <3>2, <4>1, SkipFieldType
    <3>3. QED
      BY <3>1, <3>2
  <2>5. Content.ok => i + Key.n + Content.n \in (i + 1)..Len(body)
    BY <1>1, <2>1, <2>4
  <2>6. QED
    BY <2>2, <2>3, <2>4, <2>5
<1>5. QED
  BY <1>2, <1>3, <1>4

(***************************************************************************)
(* What Set makes of typed values.                                         *)
(***************************************************************************)
LEMMA SetType ==
  ASSUME TypeOK, NEW f \in Range(schema), NEW v \in Scalar
  PROVE  /\ TypedObject(Set(f, v))
         /\ \A name \in DOMAIN Set(f, v) :
              /\ HasName(schema, name)
              /\ FieldNamed(schema, name).repeated =>
                   "array" \in DOMAIN Set(f, v)[name]
<1>1. /\ schema \in Schemas /\ TypedObject(values)
      /\ \A name \in DOMAIN values :
           /\ HasName(schema, name)
           /\ FieldNamed(schema, name).repeated => "array" \in DOMAIN values[name]
  BY DEF TypeOK
<1>2. FieldNamed(schema, f.name) = f /\ f.repeated \in BOOLEAN
  BY <1>1, SchemaFields
<1>3. v \in Value
  BY KindsMade
<1>4. DOMAIN Set(f, v) = DOMAIN values \cup {f.name}
  BY DEF Set
<1>5. ASSUME NEW name \in DOMAIN values, name # f.name
      PROVE  Set(f, v)[name] = values[name]
  BY <1>5 DEF Set
<1>6. \A vs \in Seq(Scalar) : [array |-> vs] \in Value /\ "array" \in DOMAIN [array |-> vs]
  BY KindsMade
<1>7. /\ Set(f, v)[f.name] \in Value
      /\ f.repeated => "array" \in DOMAIN Set(f, v)[f.name]
  <2>1. CASE ~f.repeated
    <3>1. Set(f, v)[f.name] = v
      BY <2>1 DEF Set
    <3>2. QED
      BY <1>3, <2>1, <3>1
  <2>2. CASE f.repeated /\ f.name \notin DOMAIN values
    <3>1. Set(f, v)[f.name] = [array |-> <<v>>]
      BY <2>2 DEF Set
    <3>2. <<v>> \in Seq(Scalar)
      OBVIOUS
    <3>3. QED
      BY <1>6, <3>1, <3>2
  <2>3. CASE f.repeated /\ f.name \in DOMAIN values
    <3> DEFINE a == values[f.name].array
    <3>1. Set(f, v)[f.name] = [array |-> Append(a, v)]
      BY <2>3 DEF Set
    <3>2. a \in Seq(Scalar)
      BY <1>1, <1>2, <2>3, Kinds DEF TypedObject
    <3> HIDE DEF a
    <3>3. Append(a, v) \in Seq(Scalar)
      BY <3>2
    <3>4. QED
      BY <1>6, <3>1, <3>3
  <2>4. QED
    BY <1>2, <2>1, <2>2, <2>3
<1>8. TypedObject(Set(f, v))
  BY <1>1, <1>4, <1>5, <1>7 DEF TypedObject
<1>9. HasName(schema, f.name)
  BY DEF HasName
<1>10. ASSUME NEW name \in DOMAIN Set(f, v)
       PROVE  /\ HasName(schema, name)
              /\ FieldNamed(schema, name).repeated => "array" \in DOMAIN Set(f, v)[name]
  BY <1>1, <1>2, <1>4, <1>5, <1>7, <1>9
<1>11. QED
  BY <1>8, <1>10

(***************************************************************************)
(* Initially and after every step.                                         *)
(***************************************************************************)
LEMMA TypeInit == Init => TypeInv
<1> SUFFICES ASSUME Init PROVE TypeInv
  OBVIOUS
<1>1. /\ body = <<>> /\ i = 0 /\ i \in 0..Len(body) /\ body \in Seq(Bytes)
      /\ added \in Seq(Additions) /\ hops \in Nat
  BY DEF Init
<1>2. DOMAIN NoObject = {}
  BY DEF NoObject
<1>3. TypedObject(json) /\ TypedObject(values) /\ DOMAIN values = {}
  BY <1>2 DEF Init, TypedObject
<1>4. schema \in Schemas /\ writer \in Schemas /\ at \in {"mqtt", "build", "foreign"}
  BY DEF Init
<1>5. QED
  BY <1>1, <1>3, <1>4 DEF TypeInv, TypeOK

(***************************************************************************)
(* One step per action.                                                    *)
(***************************************************************************)
LEMMA TypeStep == TypeInv /\ [Next]_vars => TypeInv'
<1> SUFFICES ASSUME TypeInv, [Next]_vars PROVE TypeInv'
  OBVIOUS
<1> USE DEF TypeInv
<1>1. TypedObject(NoObject) /\ DOMAIN NoObject = {}
  BY DEF NoObject, TypedObject
<1>2. CASE Arrive
  <2>1. TypedObject(json') /\ body' \in Seq(Bytes) /\ i' \in 0..Len(body')
    <3>1. CASE at = "mqtt"
      BY <1>2, <3>1, TranslationAssumption DEF Arrive, TypeOK
    <3>2. CASE at = "foreign"
      <4>1. body' \in Seq(Bytes) /\ i' = 0 /\ json' = json
        BY <1>2, <3>2, TranslationAssumption DEF Arrive
      <4>2. i' \in 0..Len(body')
        BY <4>1
      <4>3. QED
        BY <4>1, <4>2 DEF TypeOK
    <3>3. QED
      BY <1>2, <3>1, <3>2 DEF Arrive
  <2>2. QED
    BY <1>2, <2>1 DEF Arrive, TypeOK
<1>3. ASSUME NEW u \in OutOfRange, Translate(u) PROVE TypeInv'
  <2> DEFINE s == IF hops = 0 THEN writer ELSE schema
  <2>1. s \in Schemas /\ u \in 0..(U64 - 1) /\ TypedObject(json)
    BY CodecAssumption DEF TypeOK
  <2>2. CASE TranslatesJSON(s, json)
    <3>1. /\ body' = JSONToProto(s, json, u) /\ at' = "body" /\ i' = 0
          /\ values' = NoObject
      BY <1>3, <2>2 DEF Translate
    <3>2. body' \in Seq(Bytes)
      BY <2>1, <2>2, <3>1, JsonToProtoType
    <3>3. i' \in 0..Len(body')
      BY <3>1, <3>2
    <3>4. QED
      BY <1>1, <1>3, <3>1, <3>2, <3>3 DEF Translate, TypeOK
  <2>3. CASE ~TranslatesJSON(s, json)
    BY <1>3, <2>3 DEF Translate, TypeOK
  <2>4. QED
    BY <2>2, <2>3
<1>4. ASSUME NEW a \in Additions, Add(a) PROVE TypeInv'
  <2>1. /\ a.tag \in 1..MaxTag /\ a.type \in validTypes /\ a.val \in Scalar
        /\ Encodable(a.type, a.val)
    BY TranslationAssumption, CarriedIsEncodable
  <2>2. 0 \in 0..(U64 - 1)
    BY CodecAssumption
  <2>3. EncodeField(a, a.val, 0) \in Seq(Bytes)
    BY <2>1, <2>2, EncodeFieldType
  <2>4. body' \in Seq(Bytes) /\ i' = 0 /\ at' = "build"
    BY <1>4, <2>3, ConcatProperties DEF Add, TypeOK
  <2>5. i' \in 0..Len(body')
    BY <2>4
  <2>6. added' \in Seq(Additions)
    BY <1>4 DEF Add, TypeOK
  <2>7. QED
    BY <1>4, <2>4, <2>5, <2>6 DEF Add, TypeOK
<1>5. CASE Publish
  BY <1>5 DEF Publish, TypeOK
<1>6. CASE DecodeField
  <2>1. at = "body" /\ i < Len(body) /\ UNCHANGED <<writer, schema, json, body, hops, added, origin>>
    BY <1>6 DEF DecodeField
  <2>2. CASE at' = "failed" /\ UNCHANGED <<i, values>>
    BY <2>1, <2>2 DEF TypeOK
  <2>3. CASE /\ Key.ok /\ Known /\ Content.ok /\ i' = i + Key.n + Content.n
             /\ values' = Set(FieldTagged(schema, KeyField), Content.val) /\ at' = at
    <3> DEFINE f == FieldTagged(schema, KeyField)
    <3>1. i' \in 0..Len(body) /\ Content.val \in Scalar
      BY <2>1, <2>3, TurnTypes DEF TypeOK
    <3>2. f \in Range(schema)
      BY <2>3, SchemaFields DEF TypeOK, Known
    <3> HIDE DEF f
    <3>3. /\ TypedObject(values')
          /\ \A name \in DOMAIN values' :
               /\ HasName(schema, name)
               /\ FieldNamed(schema, name).repeated => "array" \in DOMAIN values'[name]
      <4>1. values' = Set(f, Content.val)
        BY <2>3 DEF f
      <4>2. QED
        BY <3>1, <3>2, <4>1, SetType
    <3>4. QED
      BY <2>1, <2>3, <3>1, <3>3 DEF TypeOK
  <2>4. CASE /\ Key.ok /\ ~Known /\ Content.ok /\ i' = i + Key.n + Content.n
             /\ UNCHANGED <<at, values>>
    <3>1. i' \in 0..Len(body)
      BY <2>1, <2>4, TurnTypes DEF TypeOK
    <3>2. QED
      BY <2>1, <2>4, <3>1 DEF TypeOK
  <2>5. QED
    BY <1>6, <2>2, <2>3, <2>4 DEF DecodeField
<1>7. CASE Emit
  <2>1. TypedObject(json') /\ hops' \in Nat
    <3>1. CASE Marshals(schema, values)
      <4>1. json' = ProtoToJSON(schema, values) /\ hops' = hops + 1
        BY <1>7, <3>1 DEF Emit
      <4>2. QED
        BY <4>1, ProtoToJsonType DEF TypeOK
    <3>2. CASE ~Marshals(schema, values)
      BY <1>7, <3>2 DEF Emit, TypeOK
    <3>3. QED
      BY <3>1, <3>2
  <2>2. QED
    BY <1>7, <2>1 DEF Emit, TypeOK
<1>8. CASE UNCHANGED vars
  BY <1>8 DEF vars, TypeOK
<1>9. QED
  BY <1>2, <1>3, <1>4, <1>5, <1>6, <1>7, <1>8 DEF Next

(***************************************************************************)
(* DecodeProto's index stays within the body, and whatever bytes a body    *)
(* has, what is decoded from it can be published and translated again.     *)
(***************************************************************************)
THEOREM TranslationTypeCorrect == Spec => []TypeOK
<1>1. TypeInv => TypeOK
  BY DEF TypeInv
<1>2. QED
  BY <1>1, TypeInit, TypeStep, PTL DEF Spec

(***************************************************************************)
(* proto.go, DecodeProto: whatever lengths a body announces, every turn of *)
(* the loop fails or consumes at least one byte, and none beyond the end.  *)
(***************************************************************************)
THEOREM DecodeAdvancesAlways == Spec => DecodeAdvances
<1>1. ASSUME TypeOK, [Next]_vars
      PROVE  [DecodeField => at' = "failed" \/ i' \in (i + 1)..Len(body)]_vars
  <2>1. ASSUME DecodeField PROVE at' = "failed" \/ i' \in (i + 1)..Len(body)
    <3>1. i < Len(body)
      BY <2>1 DEF DecodeField
    <3>2. CASE Key.ok /\ Content.ok /\ i' = i + Key.n + Content.n
      BY <1>1, <3>1, <3>2, TurnTypes
    <3>3. CASE at' = "failed"
      BY <3>3
    <3>4. QED
      BY <2>1, <3>2, <3>3 DEF DecodeField
  <2>2. QED
    BY <2>1
<1>2. QED
  BY <1>1, TranslationTypeCorrect, PTL DEF Spec, DecodeAdvances

(***************************************************************************)
(* What DynamicReader makes of the rest of a body, in the terms of the     *)
(* bridge's reader.                                                        *)
(***************************************************************************)
LEMMA NextReads ==
  ASSUME NEW data \in Seq(Bytes), NEW rest \in Seq(Bytes)
  PROVE  LET t == readVarint(data)
             r == skipField(rest, t.val % 8)
             f == next(data)
         IN  t.ok /\ rest = SubSeq(data, t.n + 1, Len(data)) =>
             /\ f.ok <=> r.ok
             /\ r.ok =>
                  /\ f.n = t.n + r.n /\ f.wire_type = t.val % 8
                  /\ f.tag = (t.val \div 8) % U32
                  /\ t.val % 8 = wireVarint => f.raw = r.val
                  /\ t.val % 8 = wireLen => f.raw = SubSeq(rest, r.from, r.n)
                  /\ t.val % 8 = wireFixed32 => f.raw = SubSeq(rest, 1, FixedLen)
<1> DEFINE t == readVarint(data)
           r == skipField(rest, t.val % 8)
           f == next(data)
<1>1. CASE ~(t.ok /\ rest = SubSeq(data, t.n + 1, Len(data)))
  BY <1>1
<1>2. CASE t.ok /\ rest = SubSeq(data, t.n + 1, Len(data))
  <2> DEFINE wire == t.val % 8
             key == (t.val \div 8) % U32
             v == readVarint(rest)
             Read(n, raw) == [ok |-> TRUE, n |-> t.n + n, wire_type |-> wire,
                              tag |-> key, raw |-> raw]
             Agree == /\ f.ok <=> r.ok
                      /\ r.ok =>
                           /\ f.n = t.n + r.n /\ f.wire_type = wire /\ f.tag = key
                           /\ wire = 0 => f.raw = r.val
                           /\ wire = 2 => f.raw = SubSeq(rest, r.from, r.n)
                           /\ wire = 5 => f.raw = SubSeq(rest, 1, FixedLen)
  <2>1. /\ v.ok \in BOOLEAN /\ (v.ok => v.n \in Int /\ v.val \in Int)
        /\ t.n \in Int /\ t.val \in Int
    <3>1. t.n \in 1..Len(data) /\ t.val \in 0..(U64 - 1)
      BY <1>2, ReadVarintType
    <3>2. v.ok \in BOOLEAN /\ (v.ok => v.n \in 1..Len(rest) /\ v.val \in 0..(U64 - 1))
      BY ReadVarintType
    <3> HIDE DEF wire, key, v, Agree
    <3>3. QED
      BY <3>1, <3>2
  <2>2. /\ wire = 0 => f = IF v.ok THEN Read(v.n, v.val) ELSE Failed
        /\ wire = 2 => f = IF v.ok /\ v.val <= Len(rest) - v.n
                           THEN Read(v.n + v.val, SubSeq(rest, v.n + 1, v.n + v.val))
                           ELSE Failed
        /\ wire = 5 => f = IF Len(rest) >= FixedLen
                           THEN Read(FixedLen, SubSeq(rest, 1, FixedLen)) ELSE Failed
        /\ wire \notin {0, 2, 5} => f = Failed
    BY <1>2 DEF next
  <2>3. /\ wire = 0 => r = v
        /\ wire = 2 => r = readLength(rest)
        /\ wire = 5 => r = IF Len(rest) < FixedLen THEN Failed
                           ELSE [ok |-> TRUE, n |-> FixedLen]
        /\ wire \notin {0, 2, 5} => r = Failed
    BY DEF skipField, wireVarint, wireLen, wireFixed32
  <2>4. readLength(rest) = IF v.ok /\ v.val <= Len(rest) - v.n
                           THEN [ok |-> TRUE, n |-> v.n + v.val, from |-> v.n + 1]
                           ELSE Failed
    BY DEF readLength
  <2>5. Failed.ok = FALSE
    BY DEF Failed
  <2> HIDE DEF wire, key, v, t, r, f
  <2>6. \A n, raw : /\ Read(n, raw).ok /\ Read(n, raw).n = t.n + n
                    /\ Read(n, raw).wire_type = wire /\ Read(n, raw).tag = key
                    /\ Read(n, raw).raw = raw
    OBVIOUS
  <2>7. ASSUME f = Failed /\ r = Failed PROVE Agree
    BY <2>5, <2>7
  <2>8. ASSUME wire = 0 PROVE Agree
    <3>1. CASE v.ok
      <4>1. f = Read(v.n, v.val) /\ r = v
        BY <2>2, <2>3, <2>8, <3>1
      <4>2. QED
        BY <2>8, <3>1, <4>1
    <3>2. CASE ~v.ok
      BY <2>2, <2>3, <2>5, <2>8, <3>2
    <3>3. QED
      BY <3>1, <3>2
  <2>9. ASSUME wire = 2 PROVE Agree
    <3>1. CASE v.ok /\ v.val <= Len(rest) - v.n
      <4>1. r = [ok |-> TRUE, n |-> v.n + v.val, from |-> v.n + 1]
        BY <2>3, <2>4, <2>9, <3>1
      <4>2. f = Read(v.n + v.val, SubSeq(rest, v.n + 1, v.n + v.val))
        BY <2>2, <2>9, <3>1
      <4>3. r.ok /\ r.n = v.n + v.val /\ r.from = v.n + 1
        BY <4>1
      <4> HIDE DEF Read
      <4>4. /\ f.ok /\ f.n = t.n + (v.n + v.val) /\ f.wire_type = wire /\ f.tag = key
            /\ f.raw = SubSeq(rest, v.n + 1, v.n + v.val)
        BY <2>6, <4>2
      <4>5. wire # 0 /\ wire # 5
        BY <2>9
      <4>6. QED
        BY <4>3, <4>4, <4>5, Zenon
    <3>2. CASE ~(v.ok /\ v.val <= Len(rest) - v.n)
      <4>1. f = Failed /\ r = Failed
        BY <2>2, <2>3, <2>4, <2>9, <3>2
      <4>2. QED
        BY <2>7, <4>1
    <3>3. QED
      BY <3>1, <3>2
  <2>10. ASSUME wire = 5 PROVE Agree
    <3>1. Len(rest) \in Nat /\ FixedLen \in Nat
      BY CodecAssumption
    <3>2. CASE Len(rest) >= FixedLen
      <4>1. r = [ok |-> TRUE, n |-> FixedLen]
        BY <2>3, <2>10, <3>1, <3>2
      <4>2. f = Read(FixedLen, SubSeq(rest, 1, FixedLen))
        BY <2>2, <2>10, <3>2
      <4>3. r.ok /\ r.n = FixedLen
        BY <4>1
      <4> HIDE DEF Read
      <4>4. /\ f.ok /\ f.n = t.n + FixedLen /\ f.wire_type = wire /\ f.tag = key
            /\ f.raw = SubSeq(rest, 1, FixedLen)
        BY <2>6, <4>2
      <4>5. wire # 0 /\ wire # 2
        BY <2>10
      <4>6. QED
        BY <4>3, <4>4, <4>5, Zenon
    <3>3. CASE Len(rest) < FixedLen
      <4>1. f = Failed /\ r = Failed
        BY <2>2, <2>3, <2>10, <3>1, <3>3
      <4>2. QED
        BY <2>7, <4>1
    <3> HIDE DEF Agree
    <3>4. QED
      BY <3>1, <3>2, <3>3
  <2>11. ASSUME wire \notin {0, 2, 5} PROVE Agree
    BY <2>2, <2>3, <2>7, <2>11
  <2>12. Agree
    BY <2>8, <2>9, <2>10, <2>11
  <2>13. QED
    BY <2>12 DEF wire, key, t, r, f, wireVarint, wireLen, wireFixed32
<1>3. QED
  BY <1>1, <1>2

(***************************************************************************)
(* DecodeProto and DynamicReader::next cut every body into the same        *)
(* fields, with the same values; the bridge alone refuses a known field of *)
(* another wire type.                                                      *)
(***************************************************************************)
THEOREM ReadersAgreeAlways == Spec => []ReadersAgree
<1>1. ASSUME TypeOK PROVE ReadersAgree
  <2> SUFFICES ASSUME at = "body", i < Len(body)
               PROVE  LET f == next(Rest(i))
                          typ == FieldTagged(schema, KeyField).type
                      IN  IF Key.ok /\ Content.ok
                          THEN /\ f.ok /\ f.n = Key.n + Content.n /\ f.tag = KeyField
                               /\ Known => HasType(f, typ) /\ as(f, typ) = Content.val
                          ELSE f.ok => Known /\ ~HasType(f, typ)
    BY DEF ReadersAgree
  <2> DEFINE f == next(Rest(i))
             typ == FieldTagged(schema, KeyField).type
             rest == Rest(i + Key.n)
             r == skipField(rest, WireType)
  <2>1. CASE ~Key.ok
    <3>1. f = Failed
      BY <2>1 DEF next, Key
    <3>2. QED
      BY <2>1, <3>1 DEF Failed
  <2>2. CASE Key.ok
    <3>1. /\ rest = SubSeq(Rest(i), Key.n + 1, Len(Rest(i)))
          /\ Rest(i) \in Seq(Bytes) /\ rest \in Seq(Bytes) /\ Content.ok \in BOOLEAN
      BY <1>1, <2>2, TurnTypes
    <3>2. /\ f.ok <=> r.ok
          /\ r.ok =>
               /\ f.n = Key.n + r.n /\ f.wire_type = WireType /\ f.tag = KeyField
               /\ WireType = wireVarint => f.raw = r.val
               /\ WireType = wireLen => f.raw = SubSeq(rest, r.from, r.n)
               /\ WireType = wireFixed32 => f.raw = SubSeq(rest, 1, FixedLen)
      BY <2>2, <3>1, NextReads DEF Key, WireType, KeyField
    <3>3. r.ok \in BOOLEAN
      BY <3>1, SkipFieldType
    <3>4. CASE ~Known
      <4>1. Content = r
        BY <3>4 DEF Content
      <4> HIDE DEF f, r, rest, typ
      <4>2. QED
        BY <2>2, <3>2, <3>4, <4>1 DEF f, typ
    <3>5. CASE Known
      <4> DEFINE val == CASE typ = "float" -> Float(Uint32(SubSeq(rest, 1, FixedLen)))
                          [] typ \in {"string", "bytes"} ->
                               FromBytes(typ, SubSeq(rest, r.from, r.n))
                          [] OTHER -> FromVarint(typ, r.val)
      <4>1. Content = IF WireType # wireTypeFor(typ) \/ ~r.ok THEN Failed
                      ELSE [ok |-> TRUE, n |-> r.n, val |-> val]
        BY <3>5 DEF Content, decodeValue
      <4> HIDE DEF f, r, rest, typ, val
      <4>2. CASE WireType = wireTypeFor(typ) /\ r.ok
        <5>1. Content = [ok |-> TRUE, n |-> r.n, val |-> val]
          BY <4>1, <4>2
        <5>2. HasType(f, typ)
          BY <3>2, <4>2 DEF HasType
        <5>3. as(f, typ) = val
          BY <3>2, <4>2 DEF as, val, wireTypeFor
        <5>4. QED
          BY <2>2, <3>2, <4>2, <5>1, <5>2, <5>3 DEF f, typ
      <4>3. CASE WireType # wireTypeFor(typ) \/ ~r.ok
        <5>1. Content = Failed
          BY <4>1, <4>3
        <5>2. f.ok => r.ok /\ ~HasType(f, typ)
          BY <3>2, <3>3, <4>3 DEF HasType
        <5>3. QED
          BY <3>5, <5>1, <5>2 DEF f, typ, Failed
      <4>4. QED
        BY <3>3, <4>2, <4>3
    <3>6. QED
      BY <3>4, <3>5
  <2>3. QED
    BY <1>1, <2>1, <2>2, TurnTypes
<1>2. QED
  BY <1>1, TranslationTypeCorrect, PTL

-----------------------------------------------------------------------------
(***************************************************************************)
(* Division with remainder is unique.                                      *)
(***************************************************************************)
LEMMA Remainder ==
  ASSUME NEW d \in Nat \ {0}, NEW k \in Int, NEW r \in 0..(d - 1)
  PROVE  (d * k + r) % d = r
<1> DEFINE x == d * k + r
           q == x \div d
           m == x % d
<1>1. d * k \in Int /\ x \in Int
  OBVIOUS
<1> HIDE DEF x
<1>2. q \in Int /\ m \in 0..(d - 1) /\ x = d * q + m
  BY <1>1
<1> HIDE DEF q, m
<1>3. d * k + r = d * q + m
  BY <1>2 DEF x
<1>4. k <= q
  <2>1. SUFFICES ASSUME k >= q + 1 PROVE FALSE
    BY <1>2
  <2>2. d * k >= d * (q + 1)
    BY <1>2, <2>1
  <2>3. d * (q + 1) = d * q + d
    BY <1>2
  <2>4. d * q \in Int /\ d * k \in Int
    BY <1>2
  <2>5. QED
    BY <1>2, <1>3, <2>2, <2>3, <2>4
<1>5. q <= k
  <2>1. SUFFICES ASSUME q >= k + 1 PROVE FALSE
    BY <1>2
  <2>2. d * q >= d * (k + 1)
    BY <1>2, <2>1
  <2>3. d * (k + 1) = d * k + d
    BY <1>2
  <2>4. d * q \in Int /\ d * k \in Int
    BY <1>2
  <2>5. QED
    BY <1>2, <1>3, <2>2, <2>3, <2>4
<1>6. k = q
  BY <1>2, <1>4, <1>5
<1>7. m = r
  BY <1>1, <1>2, <1>3, <1>6
<1>8. QED
  BY <1>7 DEF m, x

(***************************************************************************)
(* The conversions are undone: intN(uintN(n)), and both zigzags.           *)
(***************************************************************************)
LEMMA ConversionsUndone ==
  ASSUME NEW U \in Nat \ {0}, U % 2 = 0, NEW n \in -(U \div 2)..((U \div 2) - 1)
  PROVE  /\ n % U \in 0..(U - 1) /\ n % U = IF n >= 0 THEN n ELSE U + n
         /\ Signed(n % U, U) = n
         /\ zigzag(n, U) \in 0..(U - 1) /\ unzigzag(zigzag(n, U), U) = n
<1> DEFINE H == U \div 2
<1>1. U = 2 * H /\ H \in Nat /\ n \in -H..(H - 1) /\ n \in Int
  OBVIOUS
<1>2. n >= 0 => n % U = n /\ (2 * n) % U = 2 * n
  <2>1. n >= 0 => n \in 0..(U - 1) /\ 2 * n \in 0..(U - 1)
    BY <1>1
  <2>2. QED
    BY <2>1, SmallRemainder
<1>3. n < 0 => n % U = U + n /\ (2 * n) % U = U + 2 * n
  <2>1. n < 0 => U + n \in 0..(U - 1) /\ U + 2 * n \in 0..(U - 1)
    BY <1>1
  <2>2. U * (-1) + (U + n) = n /\ U * (-1) + (U + 2 * n) = 2 * n
    BY <1>1
  <2>3. n < 0 => (U * (-1) + (U + n)) % U = U + n /\ (U * (-1) + (U + 2 * n)) % U = U + 2 * n
    BY <2>1, Remainder
  <2>4. QED
    BY <2>2, <2>3
<1>4. U \div 2 = H
  OBVIOUS
<1> HIDE DEF H
<1>5. Signed(n % U, U) = n
  BY <1>1, <1>2, <1>3, <1>4 DEF Signed
<1>6. zigzag(n, U) = IF n >= 0 THEN 2 * n ELSE -(2 * n) - 1
  BY <1>1, <1>2, <1>3 DEF zigzag
<1>7. n >= 0 => (2 * n) % 2 = 0 /\ (2 * n) \div 2 = n
  BY <1>1
<1>8. n < 0 => (-(2 * n) - 1) % 2 = 1 /\ (-(2 * n) - 1) \div 2 = -n - 1
  BY <1>1
<1>9. unzigzag(zigzag(n, U), U) = n
  <2>1. CASE n >= 0
    <3>1. zigzag(n, U) = 2 * n
      BY <1>6, <2>1
    <3>2. unzigzag(2 * n, U) = Signed(n, U)
      BY <1>7, <2>1 DEF unzigzag
    <3>3. Signed(n, U) = n
      BY <1>1, <1>4, <2>1 DEF Signed
    <3>4. QED
      BY <3>1, <3>2, <3>3
  <2>2. CASE n < 0
    <3>1. zigzag(n, U) = -(2 * n) - 1
      BY <1>1, <1>6, <2>2
    <3>2. unzigzag(-(2 * n) - 1, U) = Signed((U - 1) - (-n - 1), U)
      BY <1>8, <2>2 DEF unzigzag
    <3>3. (U - 1) - (-n - 1) = U + n
      BY <1>1
    <3>4. Signed(U + n, U) = n
      BY <1>1, <1>4, <2>2 DEF Signed
    <3>5. QED
      BY <3>1, <3>2, <3>3, <3>4
  <2>3. QED
    BY <1>1, <2>1, <2>2
<1>10. zigzag(n, U) \in 0..(U - 1)
  BY <1>1, <1>6
<1>11. n % U \in 0..(U - 1) /\ n % U = IF n >= 0 THEN n ELSE U + n
  BY <1>1, <1>2, <1>3
<1>12. QED
  BY <1>5, <1>9, <1>10, <1>11

(***************************************************************************)
(* int32 is sent with 64 bits: its lower 32 are what they were.            *)
(***************************************************************************)
LEMMA LowerBits ==
  ASSUME NEW n \in -(U32 \div 2)..((U32 \div 2) - 1)
  PROVE  /\ n \in -(U64 \div 2)..((U64 \div 2) - 1)
         /\ (n % U64) % U32 = n % U32 /\ (n % U32) % U32 = n % U32
<1>1. /\ U32 \in Nat \ {0} /\ U64 \in Nat \ {0} /\ U32 % 8 = 0 /\ U64 % U32 = 0
      /\ U32 <= U64 /\ n \in Int
  <2>1. 0 \in Int /\ 0 \in 0..(U64 - 1)
    BY CodecAssumption
  <2>2. U32 <= U64
    BY <2>1, ConversionTypes
  <2>3. QED
    BY <2>2, CodecAssumption
<1>2. U32 % 2 = 0
  BY <1>1
<1> DEFINE q == U64 \div U32
<1>3. q \in Nat /\ U64 = U32 * q
  BY <1>1
<1>4. U64 % 2 = 0
  <2> DEFINE h == U32 \div 2
  <2>1. h \in Nat /\ U32 = 2 * h
    BY <1>1, <1>2
  <2> HIDE DEF q, h
  <2>2. h * q \in Int /\ U64 = 2 * (h * q) + 0
    BY <1>3, <2>1
  <2>3. QED
    BY <2>2, Remainder
<1>5. n \in -(U64 \div 2)..((U64 \div 2) - 1)
  <2>1. U32 \div 2 <= U64 \div 2 /\ U32 \div 2 \in Int /\ U64 \div 2 \in Int
    BY <1>1
  <2>2. QED
    BY <1>1, <2>1
<1>6. n % U64 = IF n >= 0 THEN n ELSE U64 + n
  BY <1>1, <1>4, <1>5, ConversionsUndone
<1>7. n % U32 = (IF n >= 0 THEN n ELSE U32 + n) /\ n % U32 \in 0..(U32 - 1)
  BY <1>1, <1>2, ConversionsUndone
<1>8. (n % U32) % U32 = n % U32
  BY <1>1, <1>7, SmallRemainder
<1>9. CASE n >= 0
  <2>1. n % U64 = n /\ n % U32 = n
    BY <1>6, <1>7, <1>9
  <2>2. QED
    BY <1>5, <1>8, <2>1
<1>10. CASE n < 0
  <2>1. U32 + n \in 0..(U32 - 1)
    BY <1>1, <1>7, <1>10
  <2> HIDE DEF q
  <2>2. U32 * (q - 1) + (U32 + n) = U64 + n
    BY <1>1, <1>3
  <2>3. (U32 * (q - 1) + (U32 + n)) % U32 = U32 + n
    BY <1>1, <1>3, <2>1, Remainder
  <2>4. (U64 + n) % U32 = U32 + n
    BY <2>2, <2>3
  <2>5. n % U64 = U64 + n /\ n % U32 = U32 + n
    BY <1>1, <1>6, <1>7, <1>10
  <2>6. QED
    BY <1>5, <1>8, <2>4, <2>5
<1>11. QED
  BY <1>1, <1>5, <1>8, <1>9, <1>10

(***************************************************************************)
(* Uint32 undoes PutUint32.                                                *)
(***************************************************************************)
LEMMA FixedReadsBack ==
  ASSUME NEW bits \in 0..(FixedPatterns - 1), NEW bytes,
         \A j \in 1..FixedLen : bytes[j] = PutUint32(bits)[j]
  PROVE  Uint32(bytes) = bits
<1> DEFINE B == 2 * Base
           L == FixedLen
           s == Shifts(bits)
           sum == Uint32Sum(bytes)
<1>1. B \in Nat \ {0} /\ L \in Nat \ {0} /\ bits \in Nat /\ bits < Power(B, L)
  BY Uint32Type, CodecAssumption DEF FixedPatterns
<1>2. /\ s \in [0..L -> Nat] /\ s[0] = bits
      /\ \A k \in 1..L : s[k] = s[k - 1] \div B
  BY <1>1, ShiftsSteps
<1>3. \A k \in 1..L : bytes[k] = s[k - 1] % B /\ bytes[k] \in Bytes
  <2>1. /\ PutUint32(bits) \in Seq(Bytes) /\ Len(PutUint32(bits)) = L
        /\ \A k \in 1..L : PutUint32(bits)[k] = s[k - 1] % B
    BY <1>1, PutUint32Type
  <2>2. \A k \in 1..L : PutUint32(bits)[k] \in Bytes
    BY <2>1
  <2>3. QED
    BY <2>1, <2>2
<1>4. /\ sum \in [0..L -> Nat] /\ sum[0] = 0
      /\ \A k \in 1..L : sum[k] = bytes[L + 1 - k] + B * sum[k - 1]
  BY <1>3, Uint32Sums
<1> HIDE DEF B, L, s, sum
<1>5. s[L] = 0
  <2> DEFINE D == {k \in 0..L : s[k] < Power(B, L - k)}
  <2>1. 0 \in D
    BY <1>1, <1>2
  <2>2. ASSUME NEW k \in 1..L, k - 1 \in D PROVE k \in D
    <3>1. k \in Nat /\ L - k \in Nat /\ L - (k - 1) = (L - k) + 1 /\ k - 1 \in 0..L
      BY <1>1
    <3>2. Power(B, (L - k) + 1) = B * Power(B, L - k) /\ Power(B, L - k) \in Nat
      BY <1>1, <3>1, PowerSteps
    <3>3. s[k - 1] < B * Power(B, L - k) /\ s[k - 1] \in Nat /\ s[k] = s[k - 1] \div B
      BY <1>2, <2>2, <3>1, <3>2
    <3> DEFINE P == Power(B, L - k)
               x == s[k - 1]
    <3>4. x < B * P /\ x \in Nat /\ P \in Nat /\ s[k] = x \div B
      BY <3>2, <3>3
    <3> HIDE DEF P, x
    <3>5. x \div B \in Nat /\ B * (x \div B) <= x
      BY <1>1, <3>4
    <3>6. x \div B < P
      <4> DEFINE q == x \div B
      <4>1. q \in Nat /\ B * q <= x
        BY <3>5
      <4> HIDE DEF q
      <4>2. q < P
        <5>1. SUFFICES ASSUME P <= q PROVE FALSE
          BY <3>4, <4>1
        <5>2. B * P <= B * q /\ B * P \in Nat /\ B * q \in Nat
          BY <1>1, <3>4, <4>1, <5>1
        <5>3. QED
          BY <3>4, <4>1, <5>2
      <4>3. QED
        BY <4>2 DEF q
    <3>7. QED
      BY <3>1, <3>4, <3>6 DEF P
  <2>3. \A k \in 0..L : k \in D
    <3> HIDE DEF D
    <3>1. QED
      BY <1>1, <2>1, <2>2, IntervalInduction
  <2>4. s[L] < Power(B, L - L) /\ L - L = 0 /\ s[L] \in Nat
    BY <1>1, <1>2, <2>3
  <2>5. Power(B, 0) = 1
    BY <1>1, PowerSteps
  <2>6. QED
    BY <2>4, <2>5
<1> DEFINE D == {k \in 0..L : sum[k] = s[L - k]}
<1>6. 0 \in D
  BY <1>1, <1>4, <1>5
<1>7. ASSUME NEW k \in 1..L, k - 1 \in D PROVE k \in D
  <2>1. L + 1 - k \in 1..L /\ L + 1 - k - 1 = L - k /\ L - (k - 1) = L + 1 - k
    BY <1>1
  <2>2. /\ sum[k] = bytes[L + 1 - k] + B * sum[k - 1]
        /\ bytes[L + 1 - k] = s[L - k] % B
        /\ sum[k - 1] = s[L + 1 - k] /\ s[L + 1 - k] = s[L - k] \div B
    <3> DEFINE j == L + 1 - k
    <3>1. j \in 1..L /\ j - 1 = L - k /\ L - (k - 1) = j
      BY <1>1
    <3>2. sum[k - 1] = s[L - (k - 1)]
      BY <1>7
    <3> HIDE DEF j, D
    <3>3. bytes[j] = s[j - 1] % B /\ s[j] = s[j - 1] \div B
      BY <1>2, <1>3, <3>1
    <3>4. sum[k] = bytes[L + 1 - k] + B * sum[k - 1]
      BY <1>4
    <3>5. QED
      BY <3>1, <3>2, <3>3, <3>4 DEF j
  <2>3. L - k \in 0..L /\ s[L - k] \in Nat
    BY <1>1, <1>2
  <2> DEFINE x == s[L - k]
  <2>4. x \in Nat /\ sum[k] = (x % B) + B * (x \div B)
    BY <2>2, <2>3
  <2> HIDE DEF x
  <2>5. (x % B) + B * (x \div B) = x
    BY <1>1, <2>4
  <2>6. sum[k] = s[L - k]
    BY <2>4, <2>5 DEF x
  <2>7. QED
    BY <2>6
<1>8. \A k \in 0..L : k \in D
  <2> HIDE DEF D
  <2>1. QED
    BY <1>1, <1>6, <1>7, IntervalInduction
<1>9. sum[L] = bits
  BY <1>1, <1>2, <1>8
<1>10. Uint32(bytes) = sum[L]
  BY DEF Uint32, Uint32Sum, sum, L
<1>11. QED
  BY <1>9, <1>10

(***************************************************************************)
(* The beginning of a concatenation, and what comes after it.              *)
(***************************************************************************)
LEMMA Concatenated ==
  ASSUME NEW S, NEW a \in Seq(S), NEW b \in Seq(S)
  PROVE  /\ SubSeq(a \o b, 1, Len(a)) = a
         /\ SubSeq(a \o b, Len(a) + 1, Len(a \o b)) = b
         /\ Len(a \o b) = Len(a) + Len(b) /\ a \o b \in Seq(S)
<1> DEFINE c == a \o b
<1>1. /\ c \in Seq(S) /\ Len(c) = Len(a) + Len(b) /\ Len(a) \in Nat /\ Len(b) \in Nat
      /\ \A j \in 1..(Len(a) + Len(b)) :
           c[j] = IF j <= Len(a) THEN a[j] ELSE b[j - Len(a)]
  BY ConcatProperties
<1> HIDE DEF c
<1>2. SubSeq(c, 1, Len(a)) = a
  <2> DEFINE x == SubSeq(c, 1, Len(a))
  <2>1. \A j \in 1..Len(a) : c[j] = a[j] /\ c[j] \in S
    BY <1>1
  <2>2. /\ x \in Seq(S) /\ Len(x) = (IF 1 <= Len(a) THEN Len(a) - 1 + 1 ELSE 0)
        /\ \A j \in 1..(Len(a) - 1 + 1) : x[j] = c[1 + j - 1]
    BY <1>1, <2>1, SubSeqProperties
  <2> HIDE DEF x
  <2>3. Len(x) = Len(a)
    BY <1>1, <2>2
  <2>4. ASSUME NEW j \in 1..Len(x) PROVE x[j] = a[j]
    <3>1. j \in 1..(Len(a) - 1 + 1) /\ 1 + j - 1 = j /\ j \in 1..Len(a)
      BY <1>1, <2>3
    <3>2. QED
      BY <2>1, <2>2, <3>1
  <2>5. x = a
    BY <2>2, <2>3, <2>4, SeqEqual
  <2>6. QED
    BY <2>5 DEF x
<1>3. SubSeq(c, Len(a) + 1, Len(c)) = b
  <2> DEFINE x == SubSeq(c, Len(a) + 1, Len(c))
             n == Len(c) - (Len(a) + 1) + 1
  <2>1. \A j \in (Len(a) + 1)..Len(c) : c[j] \in S
    BY <1>1
  <2>2. /\ x \in Seq(S) /\ Len(x) = (IF Len(a) + 1 <= Len(c) THEN n ELSE 0)
        /\ \A j \in 1..n : x[j] = c[Len(a) + 1 + j - 1]
    BY <1>1, <2>1, SubSeqProperties
  <2>3. n = Len(b)
    BY <1>1
  <2> HIDE DEF x, n
  <2>4. Len(x) = Len(b)
    BY <1>1, <2>2, <2>3
  <2>5. ASSUME NEW j \in 1..Len(x) PROVE x[j] = b[j]
    <3>1. /\ j \in 1..n /\ Len(a) + 1 + j - 1 = Len(a) + j
          /\ Len(a) + j \in 1..(Len(a) + Len(b)) /\ ~(Len(a) + j <= Len(a))
          /\ Len(a) + j - Len(a) = j
      BY <1>1, <2>3, <2>4
    <3>2. QED
      BY <1>1, <2>2, <3>1
  <2>6. x = b
    BY <2>2, <2>4, <2>5, SeqEqual
  <2>7. QED
    BY <2>6 DEF x
<1>4. QED
  BY <1>1, <1>2, <1>3 DEF c

(***************************************************************************)
(* Records of one kind.                                                    *)
(***************************************************************************)
LEMMA KindsAre ==
  ASSUME NEW v \in Scalar
  PROVE  /\ "number" \in DOMAIN v => v = [number |-> v.number]
         /\ "bool" \in DOMAIN v => v = [bool |-> v.bool]
         /\ "string" \in DOMAIN v => v = [string |-> v.string]
         /\ "bytes" \in DOMAIN v => v = [bytes |-> v.bytes]
<1>1. CASE v \in [number : Int]
  BY <1>1
<1>2. CASE v \in [bool : BOOLEAN]
  BY <1>2
<1>3. CASE v \in [string : Seq(Bytes)]
  BY <1>3
<1>4. CASE v \in [bytes : Seq(Bytes)]
  BY <1>4
<1>5. CASE v \in [null : {TRUE}] \/ v \in [inf : {TRUE}]
  BY <1>5
<1>6. QED
  BY <1>1, <1>2, <1>3, <1>4, <1>5 DEF Scalar

(***************************************************************************)
(* The number a varint type is sent as, and what becomes of it.            *)
(***************************************************************************)
LEMMA NumberReadsBack ==
  ASSUME NEW typ \in validTypes \ {"float", "string", "bytes"},
         NEW v \in Scalar, Carries(typ, v), NEW u \in 0..(U64 - 1)
  PROVE  \E x \in 0..(U64 - 1) : /\ appendValue(typ, v, u) = appendVarint[x]
                                 /\ FromVarint(typ, x) = v
<1>1. /\ U32 \in Nat \ {0} /\ U64 \in Nat \ {0} /\ U32 % 2 = 0 /\ U64 % 2 = 0
      /\ U32 <= U64 /\ U64 > 1
  <2>1. U32 \in Nat \ {0} /\ U64 \in Nat \ {0} /\ U32 % 8 = 0 /\ U64 % U32 = 0
    BY CodecAssumption
  <2>2. U32 % 2 = 0 /\ U32 > 1
    BY <2>1
  <2>3. U32 <= U64
    <3>1. 0 \in Int
      OBVIOUS
    <3>2. QED
      BY <3>1, ConversionTypes
  <2> DEFINE q == U64 \div U32
             h == U32 \div 2
  <2>4. q \in Nat /\ U64 = U32 * q /\ h \in Nat /\ U32 = 2 * h
    BY <2>1, <2>2
  <2> HIDE DEF q, h
  <2>5. h * q \in Int /\ U64 = 2 * (h * q) + 0
    BY <2>4
  <2>6. U64 % 2 = 0
    BY <2>5, Remainder
  <2>7. QED
    BY <2>1, <2>2, <2>3, <2>6
<1>2. CASE typ = "bool"
  <2> DEFINE x == IF v.bool THEN 1 ELSE 0
  <2>1. v = [bool |-> v.bool] /\ v.bool \in BOOLEAN
    BY <1>2, Kinds, KindsAre DEF Carries
  <2>2. x \in 0..(U64 - 1) /\ (x # 0) = v.bool
    BY <1>1, <2>1
  <2>3. appendValue(typ, v, u) = appendVarint[x]
    BY <1>2 DEF appendValue
  <2>4. FromVarint(typ, x) = [bool |-> x # 0]
    BY <1>2 DEF FromVarint
  <2> HIDE DEF x
  <2>5. QED
    BY <2>1, <2>2, <2>3, <2>4
<1>3. CASE typ # "bool"
  <2> DEFINE h == v.number
             n == h \div 2
  <2>1. "number" \in DOMAIN v /\ h % 2 = 0 /\ n \in Ints(typ)
    BY <1>3 DEF Carries, validTypes
  <2>2. v = [number |-> h] /\ h \in Int
    BY <2>1, Kinds, KindsAre
  <2> HIDE DEF h
  <2>3. h = 2 * n /\ n \in Int
    BY <2>1, <2>2
  <2>4. v = Number(n)
    BY <2>2, <2>3 DEF Number
  <2>5. n \in -(U64 \div 2)..((U64 \div 2) - 1) => toInt64(h, u) = n
    BY DEF toInt64
  <2>6. n \in 0..(U64 - 1) => toUint64(h, u) = n
    BY <1>1, <2>3 DEF toUint64
  <2> HIDE DEF n
  <2>7. CASE typ = "int32"
    <3>1. n \in -(U32 \div 2)..((U32 \div 2) - 1)
      BY <2>1, <2>7 DEF Ints
    <3>2. n \in -(U64 \div 2)..((U64 \div 2) - 1) /\ (n % U64) % U32 = n % U32
      BY <3>1, LowerBits
    <3>3. Signed((n % U64) % U32, U32) = n /\ n % U64 \in 0..(U64 - 1)
      BY <1>1, <3>1, <3>2, ConversionsUndone
    <3>4. appendValue(typ, v, u) = appendVarint[n % U64]
      BY <2>5, <2>7, <3>2 DEF appendValue, h
    <3>5. FromVarint(typ, n % U64) = Number(Signed((n % U64) % U32, U32))
      BY <2>7 DEF FromVarint
    <3>6. QED
      BY <2>4, <3>3, <3>4, <3>5
  <2>8. CASE typ = "int64"
    <3>1. n \in -(U64 \div 2)..((U64 \div 2) - 1)
      BY <2>1, <2>8 DEF Ints
    <3>2. Signed(n % U64, U64) = n /\ n % U64 \in 0..(U64 - 1)
      BY <1>1, <3>1, ConversionsUndone
    <3>3. appendValue(typ, v, u) = appendVarint[n % U64]
      BY <2>5, <2>8, <3>1 DEF appendValue, h
    <3>4. FromVarint(typ, n % U64) = Number(Signed(n % U64, U64))
      BY <2>8 DEF FromVarint
    <3>5. QED
      BY <2>4, <3>2, <3>3, <3>4
  <2>9. CASE typ \in {"uint32", "uint64"}
    <3>1. n \in 0..(U64 - 1) /\ (typ = "uint32" => n \in 0..(U32 - 1))
      BY <1>1, <2>1, <2>9 DEF Ints
    <3>2. typ = "uint32" => n % U32 = n
      BY <1>1, <3>1, SmallRemainder
    <3>3. appendValue(typ, v, u) = appendVarint[n]
      BY <2>6, <2>9, <3>1 DEF appendValue, h
    <3>4. FromVarint(typ, n) = Number(n)
      BY <2>9, <3>2 DEF FromVarint
    <3>5. QED
      BY <2>4, <3>1, <3>3, <3>4
  <2>10. CASE typ = "sint32"
    <3>1. n \in -(U32 \div 2)..((U32 \div 2) - 1)
      BY <2>1, <2>10 DEF Ints
    <3>2. n \in -(U64 \div 2)..((U64 \div 2) - 1)
      BY <3>1, LowerBits
    <3>3. /\ Signed(n % U32, U32) = n /\ zigzag(n, U32) \in 0..(U32 - 1)
          /\ unzigzag(zigzag(n, U32), U32) = n
      BY <1>1, <3>1, ConversionsUndone
    <3> DEFINE x == zigzag(n, U32)
    <3>4. x \in 0..(U64 - 1) /\ x % U32 = x
      <4>1. x \in 0..(U32 - 1)
        BY <3>3
      <4> HIDE DEF x
      <4>2. QED
        BY <1>1, <4>1, SmallRemainder
    <3>5. appendValue(typ, v, u) = appendVarint[x]
      BY <2>5, <2>10, <3>2, <3>3 DEF appendValue, h
    <3>6. FromVarint(typ, x) = Number(unzigzag(x % U32, U32))
      BY <2>10 DEF FromVarint
    <3>7. unzigzag(x % U32, U32) = n
      BY <3>3, <3>4
    <3> HIDE DEF x
    <3>8. QED
      BY <2>4, <3>4, <3>5, <3>6, <3>7
  <2>11. CASE typ = "sint64"
    <3>1. n \in -(U64 \div 2)..((U64 \div 2) - 1)
      BY <2>1, <2>11 DEF Ints
    <3>2. zigzag(n, U64) \in 0..(U64 - 1) /\ unzigzag(zigzag(n, U64), U64) = n
      BY <1>1, <3>1, ConversionsUndone
    <3>3. appendValue(typ, v, u) = appendVarint[zigzag(n, U64)]
      BY <2>5, <2>11, <3>1 DEF appendValue, h
    <3>4. FromVarint(typ, zigzag(n, U64)) = Number(unzigzag(zigzag(n, U64), U64))
      BY <2>11 DEF FromVarint
    <3>5. QED
      BY <2>4, <3>2, <3>3, <3>4
  <2>12. QED
    BY <1>3, <2>7, <2>8, <2>9, <2>10, <2>11 DEF validTypes
<1>4. QED
  BY <1>2, <1>3

(***************************************************************************)
(* proto.go: decodeValue undoes appendValue for every type, up to the      *)
(* limits of its range, whatever follows; and skipField, for a reader that *)
(* does not know the field, goes just as far.                              *)
(***************************************************************************)
THEOREM ValueReadsBack ==
  ASSUME NEW typ \in validTypes, NEW v \in Scalar, Carries(typ, v),
         NEW u \in 0..(U64 - 1), NEW rest \in Seq(Bytes)
  PROVE  LET a == appendValue(typ, v, u)
             wt == wireTypeFor(typ)
         IN  /\ decodeValue(a \o rest, typ, wt) = [ok |-> TRUE, n |-> Len(a), val |-> v]
             /\ skipField(a \o rest, wt).ok /\ skipField(a \o rest, wt).n = Len(a)
<1> DEFINE a == appendValue(typ, v, u)
           wt == wireTypeFor(typ)
           data == a \o rest
           r == skipField(data, wt)
           val == CASE typ = "float" -> Float(Uint32(SubSeq(data, 1, FixedLen)))
                    [] typ \in {"string", "bytes"} ->
                         FromBytes(typ, SubSeq(data, r.from, r.n))
                    [] OTHER -> FromVarint(typ, r.val)
<1>1. a \in Seq(Bytes)
  BY CarriedIsEncodable, AppendValueType
<1>2. decodeValue(data, typ, wt) = IF ~r.ok THEN Failed
                                   ELSE [ok |-> TRUE, n |-> r.n, val |-> val]
  BY DEF decodeValue
<1>3. SUFFICES r.ok = TRUE /\ r.n = Len(a) /\ val = v
  BY <1>2
<1>4. CASE typ \notin {"float", "string", "bytes"}
  <2>1. PICK x \in 0..(U64 - 1) : a = appendVarint[x] /\ FromVarint(typ, x) = v
    BY <1>4, NumberReadsBack
  <2>2. wt = wireVarint
    BY <1>4 DEF wireTypeFor
  <2>3. r = readVarint(data)
    BY <2>2 DEF skipField, wireVarint, wireLen, wireFixed32
  <2>4. readVarint(data) = [ok |-> TRUE, val |-> x, n |-> Len(a)]
    BY <2>1, VarintReadsBack
  <2>5. val = FromVarint(typ, r.val)
    BY <1>4
  <2> HIDE DEF a, r, data, val
  <2>6. QED
    BY <2>1, <2>3, <2>4, <2>5
<1>5. CASE typ = "float"
  <2> DEFINE bits == Float32bits(v.number)
  <2>1. v.number \in Int /\ Float(bits) = v
    BY <1>5, Kinds DEF Carries
  <2>2. FixedPatterns \in Nat \ {0}
    <3>1. 2 * Base \in Nat \ {0} /\ FixedLen \in Nat
      BY CodecAssumption
    <3>2. QED
      BY <3>1, PowerPositive DEF FixedPatterns
  <2>3. bits \in 0..(FixedPatterns - 1)
    <3>1. \A h \in Int : Float32bits(h) \in 0..(FixedPatterns - 1)
      BY <2>2 DEF Float32bits
    <3>2. QED
      BY <2>1, <3>1
  <2>4. a = PutUint32(bits)
    BY <1>5 DEF appendValue
  <2> HIDE DEF bits
  <2>5. Len(a) = FixedLen /\ bits \in Nat /\ FixedLen \in Nat
    BY <2>2, <2>3, <2>4, PutUint32Type, CodecAssumption
  <2> HIDE DEF a
  <2>6. SubSeq(data, 1, Len(a)) = a /\ Len(data) = Len(a) + Len(rest)
    BY <1>1, Concatenated
  <2>7. Uint32(SubSeq(data, 1, FixedLen)) = bits
    BY <2>3, <2>4, <2>5, <2>6, FixedReadsBack
  <2>8. val = Float(Uint32(SubSeq(data, 1, FixedLen)))
    BY <1>5
  <2>9. wt = wireFixed32
    BY <1>5 DEF wireTypeFor
  <2>10. r = IF Len(data) < FixedLen THEN Failed ELSE [ok |-> TRUE, n |-> FixedLen]
    BY <2>9 DEF skipField, wireVarint, wireLen, wireFixed32
  <2>11. ~(Len(data) < FixedLen)
    BY <2>5, <2>6
  <2> HIDE DEF r, data, val
  <2>12. QED
    BY <2>1, <2>5, <2>7, <2>8, <2>10, <2>11
<1>6. CASE typ \in {"string", "bytes"}
  <2> DEFINE s == v[typ]
             l == appendVarint[Len(s)]
             k == Len(l)
  <2>1. s \in Seq(Bytes) /\ Len(s) < U64 /\ v = FromBytes(typ, s)
    BY <1>6, Kinds, KindsAre DEF Carries, FromBytes
  <2> HIDE DEF s
  <2>2. Len(s) \in Nat /\ Len(s) \in 0..(U64 - 1) /\ U64 \in Nat
    BY <2>1, CodecAssumption
  <2>3. Len(s) % U64 = Len(s)
    BY <2>2, SmallRemainder
  <2>4. a = l \o s
    BY <1>6, <2>3 DEF appendValue, s
  <2>5. l \in Seq(Bytes) /\ k \in Nat
    BY <2>2, AppendVarintType
  <2>6. s \o rest \in Seq(Bytes) /\ data = l \o (s \o rest)
    <3>1. s \o rest \in Seq(Bytes)
      BY <2>1, ConcatProperties
    <3>2. (l \o s) \o rest = l \o (s \o rest)
      <4> HIDE DEF l
      <4>1. QED
        BY <2>1, <2>5, ConcatAssociative
    <3>3. QED
      BY <2>4, <3>1, <3>2
  <2>7. readVarint(data) = [ok |-> TRUE, val |-> Len(s), n |-> k]
    BY <2>2, <2>6, VarintReadsBack
  <2> HIDE DEF l, k
  <2>8. Len(a) = k + Len(s) /\ SubSeq(a, k + 1, Len(a)) = s
    BY <2>1, <2>4, <2>5, Concatenated DEF k
  <2> HIDE DEF a
  <2>9. Len(data) = Len(a) + Len(rest) /\ Len(rest) \in Nat /\ Len(a) \in Nat
    BY <1>1, Concatenated
  <2>10. SubSeq(data, k + 1, Len(a)) = s
    <3>1. \A j \in 1..Len(a) : data[j] = a[j]
      BY <1>1, ConcatProperties
    <3> DEFINE x == SubSeq(data, k + 1, Len(a))
               y == SubSeq(a, k + 1, Len(a))
               n == Len(a) - (k + 1) + 1
    <3>2. \A j \in (k + 1)..Len(a) : data[j] \in Bytes /\ a[j] \in Bytes
      BY <1>1, <2>5, <2>9, <3>1
    <3>3. k + 1 \in Int /\ Len(a) \in Int
      BY <2>5, <2>9
    <3>4. /\ x \in Seq(Bytes) /\ Len(x) = (IF k + 1 <= Len(a) THEN n ELSE 0)
          /\ \A j \in 1..n : x[j] = data[k + 1 + j - 1]
      <4> HIDE DEF data
      <4>1. QED
        BY <3>2, <3>3, SubSeqProperties
    <3>5. /\ y \in Seq(Bytes) /\ Len(y) = (IF k + 1 <= Len(a) THEN n ELSE 0)
          /\ \A j \in 1..n : y[j] = a[k + 1 + j - 1]
      BY <3>2, <3>3, SubSeqProperties
    <3> HIDE DEF x, y, data
    <3>6. ASSUME NEW j \in 1..Len(x) PROVE x[j] = y[j]
      <4>1. j \in 1..n /\ k + 1 + j - 1 \in 1..Len(a)
        BY <2>5, <2>9, <3>4
      <4>2. QED
        BY <3>1, <3>4, <3>5, <4>1
    <3>7. x = y
      BY <3>4, <3>5, <3>6, SeqEqual
    <3>8. QED
      BY <2>8, <3>7 DEF x, y
  <2>11. r = readLength(data)
    BY <1>6 DEF wireTypeFor, skipField, wireVarint, wireLen, wireFixed32
  <2>12. val = FromBytes(typ, SubSeq(data, r.from, r.n))
    BY <1>6
  <2> HIDE DEF data, val, r
  <2>13. Len(s) <= Len(data) - k
    BY <2>2, <2>5, <2>8, <2>9
  <2>14. r = [ok |-> TRUE, n |-> k + Len(s), from |-> k + 1]
    BY <2>7, <2>11, <2>13 DEF readLength
  <2>15. r.ok = TRUE /\ r.n = Len(a) /\ r.from = k + 1
    BY <2>8, <2>14
  <2>16. QED
    BY <2>1, <2>10, <2>12, <2>15
<1>7. QED
  BY <1>4, <1>5, <1>6

-----------------------------------------------------------------------------
(***************************************************************************)
(* A body as the fields it was written from.  Field k lies between e[k-1]  *)
(* and e[k].                                                               *)
(***************************************************************************)
IsField(a) ==
  /\ a.tag \in 1..MaxTag /\ a.type \in validTypes
  /\ a.val \in Scalar /\ Carries(a.type, a.val)

After(b, n) == SubSeq(b, n + 1, Len(b))

Laid(items, b, u, e) ==
  /\ e \in [0..Len(items) -> 0..Len(b)] /\ e[0] = 0 /\ e[Len(items)] = Len(b)
  /\ \A j, k \in 0..Len(items) : j < k => e[j] < e[k]
  /\ \A k \in 1..Len(items) :
       After(b, e[k - 1]) = EncodeField(items[k], items[k].val, u) \o After(b, e[k])

(***************************************************************************)
(* A turn of DecodeProto's loop at the beginning of a field reads its tag  *)
(* and goes to its end.  If the schema has the tag with the same type, the *)
(* turn gives its value; it fails only if it has it with another type.     *)
(***************************************************************************)
LEMMA TurnReads ==
  ASSUME TypeOK, NEW items, Len(items) \in Nat, NEW e, NEW u \in 0..(U64 - 1),
         Laid(items, body, u, e), \A k \in 1..Len(items) : IsField(items[k]),
         NEW m \in 0..Len(items), i = e[m], i < Len(body)
  PROVE  /\ m + 1 \in 1..Len(items)
         /\ Key.ok /\ KeyField = items[m + 1].tag
         /\ Content.ok => i + Key.n + Content.n = e[m + 1]
         /\ ~Known => Content.ok
         /\ (Known /\ FieldTagged(schema, KeyField).type = items[m + 1].type) =>
              Content.ok /\ Content.val = items[m + 1].val
<1> DEFINE a == items[m + 1]
           wt == wireTypeFor(a.type)
           x == 8 * a.tag + wt
           t == appendTag(a.tag, wt)
           v == appendValue(a.type, a.val, u)
           rest == After(body, e[m + 1])
<1>1. /\ body \in Seq(Bytes) /\ Len(body) \in Nat /\ i \in 0..Len(body)
      /\ schema \in Schemas
  BY DEF TypeOK
<1>2. m + 1 \in 1..Len(items) /\ (m + 1) - 1 = m /\ m + 1 \in 0..Len(items)
  <2>1. m # Len(items)
    BY <1>1 DEF Laid
  <2>2. QED
    BY <2>1
<1>3. IsField(a)
  BY <1>2
<1>4. e[m + 1] \in 0..Len(body) /\ After(body, i) = EncodeField(a, a.val, u) \o rest
  BY <1>2 DEF Laid
<1> HIDE DEF a
<1>5. /\ a.tag \in 1..MaxTag /\ a.type \in validTypes /\ a.val \in Scalar
      /\ Carries(a.type, a.val) /\ Encodable(a.type, a.val)
  BY <1>3, CarriedIsEncodable DEF IsField
<1>6. t \in Seq(Bytes) /\ x \in 0..(U32 - 1) /\ x \in 0..(U64 - 1) /\ t = appendVarint[x]
  BY <1>5, EncodeFieldType DEF appendTag
<1>7. v \in Seq(Bytes)
  BY <1>5, AppendValueType
<1>8. rest \in Seq(Bytes) /\ Len(rest) = Len(body) - e[m + 1]
  BY <1>1, <1>4, Suffix DEF After
<1>9. v \o rest \in Seq(Bytes) /\ Rest(i) = t \o (v \o rest)
  <2>1. EncodeField(a, a.val, u) = t \o v
    BY DEF EncodeField
  <2>2. Rest(i) = After(body, i)
    BY DEF Rest, After
  <2> HIDE DEF t, v, rest, x, wt
  <2>3. v \o rest \in Seq(Bytes) /\ (t \o v) \o rest = t \o (v \o rest)
    <3>1. t \in Seq(Bytes) /\ v \in Seq(Bytes) /\ rest \in Seq(Bytes)
      BY <1>6, <1>7, <1>8
    <3>2. v \o rest \in Seq(Bytes)
      BY <3>1, ConcatProperties
    <3>3. (t \o v) \o rest = t \o (v \o rest)
      BY <3>1, BytesAssociative
    <3>4. QED
      BY <3>2, <3>3
  <2>4. QED
    BY <1>4, <2>1, <2>2, <2>3
<1>10. Key = [ok |-> TRUE, val |-> x, n |-> Len(t)]
  <2>1. readVarint(appendVarint[x] \o (v \o rest))
          = [ok |-> TRUE, val |-> x, n |-> Len(appendVarint[x])]
    BY <1>6, <1>9, VarintReadsBack
  <2> HIDE DEF x, t, v, rest
  <2>2. QED
    BY <1>6, <1>9, <2>1 DEF Key
<1>11. KeyField = a.tag /\ WireType = wt
  <2>1. wt \in 0..5
    BY DEF wireTypeFor, wireVarint, wireLen, wireFixed32
  <2>2. a.tag \in Nat /\ U32 \in Nat
    BY <1>5, CodecAssumption
  <2> HIDE DEF wt
  <2>3. x \div 8 = a.tag /\ x % 8 = wt /\ a.tag < U32
    <3>1. \A p \in Nat, q \in 0..5 : (8 * p + q) \div 8 = p /\ (8 * p + q) % 8 = q
      OBVIOUS
    <3>2. 8 * a.tag + wt < U32
      BY <1>6, <2>1, <2>2
    <3>3. a.tag < U32
      BY <2>1, <2>2, <3>2
    <3>4. QED
      BY <2>1, <2>2, <3>1, <3>3
  <2>4. a.tag % U32 = a.tag
    BY <2>2, <2>3, SmallRemainder
  <2> HIDE DEF x
  <2>5. Key.val = x
    BY <1>10
  <2>6. QED
    BY <2>3, <2>4, <2>5 DEF KeyField, WireType
<1>12. Key.ok /\ Key.n = Len(t)
  BY <1>10
<1>13. /\ Rest(i + Key.n) = v \o rest
       /\ e[m + 1] = i + Key.n + Len(v)
  <2> DEFINE d == v \o rest
  <2> HIDE DEF t, v, rest, x, wt
  <2>1. /\ SubSeq(Rest(i), Key.n + 1, Len(Rest(i))) = Rest(i + Key.n)
        /\ Len(Rest(i + Key.n)) = Len(body) - (i + Key.n)
        /\ Key.n \in 1..(Len(body) - i)
    BY <1>12, TurnTypes
  <2>2. Rest(i + Key.n) = v \o rest
    <3>1. t \in Seq(Bytes) /\ d \in Seq(Bytes) /\ Rest(i) = t \o d
      BY <1>6, <1>9
    <3> HIDE DEF d
    <3>2. SubSeq(t \o d, Len(t) + 1, Len(t \o d)) = d
      BY <3>1, Concatenated
    <3>3. QED
      BY <1>12, <2>1, <3>1, <3>2 DEF d
  <2>3. Len(v \o rest) = Len(v) + Len(rest) /\ Len(v) \in Nat
    BY <1>7, <1>8, ConcatProperties
  <2>4. Len(body) - (i + Key.n) = Len(v) + (Len(body) - e[m + 1])
    BY <1>8, <2>1, <2>2, <2>3
  <2>5. i \in Nat /\ Key.n \in Nat /\ e[m + 1] \in Nat /\ Len(v) \in Nat
    <3>1. i \in Nat /\ Len(body) \in Nat
      BY <1>1
    <3>2. Key.n \in Nat
      BY <2>1, <3>1
    <3>3. e[m + 1] \in Nat
      BY <1>4, <3>1
    <3>4. QED
      BY <2>3, <3>1, <3>2, <3>3
  <2>6. e[m + 1] = i + Key.n + Len(v)
    <3> DEFINE L == Len(body)
               p == i
               q == Key.n
               r == e[m + 1]
               w == Len(v)
    <3>1. /\ L \in Nat /\ p \in Nat /\ q \in Nat /\ r \in Nat /\ w \in Nat
          /\ L - (p + q) = w + (L - r)
      BY <1>1, <2>4, <2>5
    <3> HIDE DEF L, p, q, r, w
    <3>2. r = p + q + w
      BY <3>1
    <3>3. QED
      BY <3>2 DEF p, q, r, w
  <2>7. QED
    BY <2>2, <2>6
<1> DEFINE data == v \o rest
<1>14. /\ decodeValue(data, a.type, wt) = [ok |-> TRUE, n |-> Len(v), val |-> a.val]
       /\ skipField(data, wt).ok /\ skipField(data, wt).n = Len(v)
  BY <1>5, <1>8, ValueReadsBack
<1> HIDE DEF t, v, rest, data, wt, x
<1>15. Rest(i + Key.n) = data
  BY <1>13 DEF data
<1>16. CASE ~Known
  <2>1. Content = skipField(data, wt)
    BY <1>11, <1>15, <1>16 DEF Content
  <2>2. QED
    BY <1>2, <1>11, <1>12, <1>13, <1>14, <1>16, <2>1 DEF a
<1>17. CASE Known
  <2> DEFINE typ == FieldTagged(schema, KeyField).type
  <2>1. Content = decodeValue(data, typ, wt)
    BY <1>11, <1>15, <1>17 DEF Content
  <2> HIDE DEF typ
  <2>2. decodeValue(data, typ, wt).ok => decodeValue(data, typ, wt).n = Len(v)
    BY <1>14 DEF decodeValue, Failed
  <2>3. typ = a.type => Content.ok /\ Content.val = a.val
    BY <1>14, <2>1
  <2>4. QED
    BY <1>2, <1>11, <1>12, <1>13, <1>17, <2>1, <2>2, <2>3 DEF a, typ
<1>18. QED
  BY <1>16, <1>17

-----------------------------------------------------------------------------
(***************************************************************************)
(* Those of the first m fields that have f's tag.                          *)
(***************************************************************************)
Only(f, items) ==
  [k \in DOMAIN items |-> IF items[k].tag = f.tag THEN <<items[k]>> ELSE <<>>]
Mine(f, items, m) == IF m = 0 THEN <<>> ELSE Flattened(Only(f, items))[m]

(***************************************************************************)
(* They are gathered one by one, in their order.                           *)
(***************************************************************************)
LEMMA MineSteps ==
  ASSUME NEW S, NEW items \in Seq(S), NEW f
  PROVE  /\ Mine(f, items, 0) = <<>>
         /\ \A m \in 0..Len(items) : Mine(f, items, m) \in Seq({a \in S : a.tag = f.tag})
         /\ \A m \in 1..Len(items) :
              Mine(f, items, m) =
                IF items[m].tag = f.tag THEN Append(Mine(f, items, m - 1), items[m])
                ELSE Mine(f, items, m - 1)
         /\ FlattenSeq(Only(f, items)) = Mine(f, items, Len(items))
<1> DEFINE T == {a \in S : a.tag = f.tag}
           only == Only(f, items)
           n == Len(items)
<1>1. n \in Nat /\ DOMAIN items = 1..n /\ \A k \in 1..n : items[k] \in S
  OBVIOUS
<1>2. /\ only \in Seq(Seq(T)) /\ Len(only) = n
      /\ \A k \in 1..n :
           only[k] = IF items[k].tag = f.tag THEN <<items[k]>> ELSE <<>>
  <2>1. only = [k \in 1..n |-> IF items[k].tag = f.tag THEN <<items[k]>> ELSE <<>>]
    BY <1>1 DEF Only
  <2>2. ASSUME NEW k \in 1..n
        PROVE  (IF items[k].tag = f.tag THEN <<items[k]>> ELSE <<>>) \in Seq(T)
    <3>1. items[k].tag = f.tag => items[k] \in T
      BY <1>1
    <3> HIDE DEF T
    <3>2. items[k].tag = f.tag => <<items[k]>> \in Seq(T)
      BY <3>1
    <3>3. QED
      BY <3>2
  <2> HIDE DEF only, n, T
  <2>3. QED
    BY <1>1, <2>1, <2>2
<1> HIDE DEF T
<1>3. Mine(f, items, 0) = <<>> /\ Mine(f, items, 0) \in Seq(T)
  BY DEF Mine
<1>4. CASE n = 0
  <2>1. only = <<>>
    BY <1>2, <1>4
  <2>2. FlattenSeq(only) = <<>>
    BY <1>2, <1>4, <2>1 DEF FlattenSeq
  <2>3. QED
    BY <1>3, <1>4, <2>2 DEF T
<1>5. CASE n # 0
  <2> DEFINE F == Flattened(only)
  <2>1. /\ F \in [1..n -> Seq(T)] /\ F[1] = only[1]
        /\ \A k \in 2..n : F[k] = F[k - 1] \o only[k]
    BY <1>2, <1>5, FlattenedSteps
  <2>2. \A m \in 1..n : Mine(f, items, m) = F[m]
    BY DEF Mine
  <2>3. FlattenSeq(only) = F[n]
    BY <1>2, <1>5 DEF FlattenSeq, Flattened
  <2> HIDE DEF F, only, n
  <2>4. \A m \in 0..n : Mine(f, items, m) \in Seq(T)
    <3>1. \A m \in 0..n : m = 0 \/ m \in 1..n
      BY <1>1
    <3>2. QED
      BY <1>3, <2>1, <2>2, <3>1
  <2>5. ASSUME NEW m \in 1..n
        PROVE  Mine(f, items, m) =
                 IF items[m].tag = f.tag THEN Append(Mine(f, items, m - 1), items[m])
                 ELSE Mine(f, items, m - 1)
    <3> DEFINE before == Mine(f, items, m - 1)
    <3>1. before \in Seq(T)
      BY <1>1, <2>4
    <3>2. Mine(f, items, m) = before \o only[m]
      <4>1. CASE m = 1
        <5>1. only[1] \in Seq(T) /\ <<>> \o only[1] = only[1]
          BY <1>1, <1>2, <4>1, ConcatEmptySeq
        <5>2. QED
          BY <1>3, <2>1, <2>2, <4>1, <5>1
      <4>2. CASE m \in 2..n
        <5>1. m - 1 \in 1..n
          BY <1>1, <4>2
        <5>2. QED
          BY <2>1, <2>2, <4>2, <5>1
      <4>3. m = 1 \/ m \in 2..n
        BY <1>1
      <4>4. QED
        BY <4>1, <4>2, <4>3
    <3> HIDE DEF before
    <3>3. CASE items[m].tag = f.tag
      <4>1. only[m] = <<items[m]>> /\ items[m] \in T
        BY <1>1, <1>2, <3>3 DEF T
      <4>2. before \o <<items[m]>> = Append(before, items[m])
        BY <3>1, <4>1, AppendIsConcat
      <4>3. QED
        BY <3>2, <3>3, <4>1, <4>2 DEF before
    <3>4. CASE items[m].tag # f.tag
      <4>1. only[m] = <<>>
        BY <1>2, <3>4
      <4>2. before \o <<>> = before
        BY <3>1, ConcatEmptySeq
      <4>3. QED
        BY <3>2, <3>4, <4>1, <4>2 DEF before
    <3>5. QED
      BY <3>3, <3>4
  <2>6. QED
    BY <1>1, <1>3, <2>2, <2>3, <2>4, <2>5, <1>5 DEF T, n, only
<1>6. QED
  BY <1>4, <1>5

(***************************************************************************)
(* What one more field adds to the list of values and who comes last.      *)
(***************************************************************************)
LEMMA OneMore ==
  ASSUME NEW S, NEW s \in Seq(S), NEW a \in S
  PROVE  LET t == Append(s, a)
         IN  /\ t # <<>> /\ Last(t) = a /\ a \in Range(t)
             /\ Range(s) \subseteq Range(t)
             /\ [k \in DOMAIN t |-> t[k].val] = Append([k \in DOMAIN s |-> s[k].val], a.val)
<1> DEFINE t == Append(s, a)
           n == Len(s)
           vs == [k \in DOMAIN s |-> s[k].val]
           vt == [k \in DOMAIN t |-> t[k].val]
<1>1. /\ n \in Nat /\ DOMAIN s = 1..n /\ Len(t) = n + 1 /\ DOMAIN t = 1..(n + 1)
      /\ t \in Seq(S) /\ t[n + 1] = a /\ \A k \in 1..n : t[k] = s[k]
  OBVIOUS
<1> HIDE DEF t, n
<1>2. t # <<>> /\ Last(t) = a
  BY <1>1 DEF Last
<1>3. a \in Range(t) /\ Range(s) \subseteq Range(t)
  BY <1>1 DEF Range
<1>4. vt = Append(vs, a.val)
  <2> DEFINE V == {b.val : b \in S}
  <2>1. \A b \in S : b.val \in V
    OBVIOUS
  <2> HIDE DEF V
  <2>2. /\ vs = [k \in 1..n |-> s[k].val] /\ vs \in Seq(V) /\ Len(vs) = n
        /\ \A k \in 1..n : vs[k] = s[k].val
    BY <1>1, <2>1
  <2>3. /\ vt = [k \in 1..(n + 1) |-> t[k].val] /\ vt \in Seq(V) /\ Len(vt) = n + 1
        /\ \A k \in 1..(n + 1) : vt[k] = t[k].val
    BY <1>1, <2>1
  <2> HIDE DEF vs, vt
  <2>4. /\ Append(vs, a.val) \in Seq(V) /\ Len(Append(vs, a.val)) = n + 1
        /\ Append(vs, a.val)[n + 1] = a.val
        /\ \A k \in 1..n : Append(vs, a.val)[k] = vs[k]
    <3>1. a.val \in V /\ vs \in Seq(V) /\ Len(vs) = n
      BY <2>1, <2>2
    <3> DEFINE v == a.val
    <3> HIDE DEF v
    <3>2. v \in V
      BY <3>1 DEF v
    <3>3. /\ Append(vs, v) \in Seq(V) /\ Len(Append(vs, v)) = n + 1
          /\ Append(vs, v)[n + 1] = v /\ \A k \in 1..n : Append(vs, v)[k] = vs[k]
      BY <3>1, <3>2, AppendProperties
    <3>4. QED
      BY <3>3 DEF v
  <2>5. ASSUME NEW k \in 1..(n + 1) PROVE vt[k] = Append(vs, a.val)[k]
    <3>1. k = n + 1 \/ k \in 1..n
      BY <1>1
    <3>2. QED
      BY <1>1, <2>2, <2>3, <2>4, <3>1
  <2>6. QED
    BY <2>3, <2>4, <2>5, SeqEqual
<1>5. QED
  BY <1>2, <1>3, <1>4 DEF t

-----------------------------------------------------------------------------
(***************************************************************************)
(* What the first m fields of a body tell a reader with schema s: the      *)
(* values vs, as DynamicIsUnderstood describes them.                       *)
(***************************************************************************)
Gathers(f, mine, vs) ==
  /\ mine = <<>> => f.name \notin DOMAIN vs
  /\ (mine # <<>> /\ \A a \in Range(mine) : a.type = f.type) =>
       /\ f.name \in DOMAIN vs
       /\ vs[f.name] =
            IF f.repeated THEN [array |-> [k \in DOMAIN mine |-> mine[k].val]]
            ELSE Last(mine).val

Understood(s, items, m, vs) ==
  \A f \in Range(s) : Gathers(f, Mine(f, items, m), vs)

(***************************************************************************)
(* Nothing has been told before the first field.                           *)
(***************************************************************************)
LEMMA NothingYet ==
  ASSUME NEW s, NEW items PROVE Understood(s, items, 0, NoObject)
<1>1. DOMAIN NoObject = {}
  BY DEF NoObject
<1>2. \A f : Mine(f, items, 0) = <<>>
  BY DEF Mine
<1>3. QED
  BY <1>1, <1>2 DEF Understood, Gathers

(***************************************************************************)
(* Set takes in one more value of a field.                                 *)
(***************************************************************************)
LEMMA SetGathers ==
  ASSUME TypeOK, NEW f \in Range(schema), NEW S, NEW mine \in Seq(S), NEW a \in S,
         NEW v, a.type = f.type => v = a.val, Gathers(f, mine, values)
  PROVE  Gathers(f, Append(mine, a), Set(f, v))
<1> DEFINE t == Append(mine, a)
           vals == [k \in DOMAIN mine |-> mine[k].val]
<1>1. /\ t # <<>> /\ Last(t) = a /\ a \in Range(t) /\ Range(mine) \subseteq Range(t)
      /\ [k \in DOMAIN t |-> t[k].val] = Append(vals, a.val)
  BY OneMore
<1>2. f.name \in DOMAIN Set(f, v)
  BY DEF Set
<1> HIDE DEF t
<1>3. ASSUME \A b \in Range(t) : b.type = f.type
      PROVE  Set(f, v)[f.name] =
               IF f.repeated THEN [array |-> [k \in DOMAIN t |-> t[k].val]]
               ELSE Last(t).val
  <2>1. v = a.val
    BY <1>1, <1>3
  <2>2. CASE ~f.repeated
    <3>1. Set(f, v)[f.name] = v
      BY <2>2 DEF Set
    <3>2. QED
      BY <1>1, <2>1, <2>2, <3>1
  <2>3. CASE f.repeated /\ mine = <<>>
    <3>1. f.name \notin DOMAIN values
      BY <2>3 DEF Gathers
    <3>2. Set(f, v)[f.name] = [array |-> <<v>>]
      BY <2>3, <3>1 DEF Set
    <3>3. vals = <<>>
      BY <2>3
    <3>4. Append(<<>>, a.val) = <<a.val>>
      OBVIOUS
    <3> HIDE DEF vals
    <3>5. QED
      BY <1>1, <2>1, <2>3, <3>2, <3>3, <3>4
  <2>4. CASE f.repeated /\ mine # <<>>
    <3>1. f.name \in DOMAIN values /\ values[f.name] = [array |-> vals]
      BY <1>1, <1>3, <2>4 DEF Gathers
    <3> HIDE DEF vals
    <3>2. Set(f, v)[f.name] = [array |-> Append(values[f.name].array, v)]
      BY <2>4, <3>1 DEF Set
    <3>3. values[f.name].array = vals
      BY <3>1
    <3>4. Set(f, v)[f.name] = [array |-> Append(vals, a.val)]
      BY <2>1, <3>2, <3>3
    <3>5. QED
      BY <1>1, <2>4, <3>4
  <2>5. f.repeated \in BOOLEAN
    BY SchemaFields DEF TypeOK
  <2>6. QED
    BY <2>2, <2>3, <2>4, <2>5
<1>4. QED
  BY <1>1, <1>2, <1>3 DEF Gathers, t

(***************************************************************************)
(* A turn of the loop over a laid out body understands one more field, or  *)
(* fails at one that the schema has with another type.                     *)
(***************************************************************************)
LEMMA TurnUnderstands ==
  ASSUME TypeOK, NEW S, NEW items \in Seq(S), NEW e, NEW u \in 0..(U64 - 1),
         Laid(items, body, u, e), \A k \in 1..Len(items) : IsField(items[k]),
         NEW m \in 0..Len(items), i = e[m], Understood(schema, items, m, values),
         DecodeField
  PROVE  \/ /\ at' = "failed"
            /\ \E a \in Range(items), f \in Range(schema) :
                 a.tag = f.tag /\ a.type # f.type
         \/ /\ at' = "body" /\ m + 1 \in 0..Len(items) /\ i' = e[m + 1]
            /\ Understood(schema, items, m + 1, values')
<1> DEFINE a == items[m + 1]
           g == FieldTagged(schema, KeyField)
<1>1. Len(items) \in Nat /\ i < Len(body) /\ at = "body" /\ schema \in Schemas
  BY DEF DecodeField, TypeOK
<1>2. /\ m + 1 \in 1..Len(items)
      /\ Key.ok /\ KeyField = a.tag
      /\ Content.ok => i + Key.n + Content.n = e[m + 1]
      /\ ~Known => Content.ok
      /\ (Known /\ g.type = a.type) => Content.ok /\ Content.val = a.val
  BY <1>1, TurnReads
<1>3. /\ a \in S /\ a \in Range(items) /\ m + 1 \in 0..Len(items) /\ (m + 1) - 1 = m
      /\ m \in 0..Len(items)
  BY <1>2 DEF Range
<1>4. Known => g \in Range(schema) /\ g.tag = a.tag
  BY <1>1, <1>2, SchemaFields DEF Known
<1>5. \A f \in Range(schema) : f.tag = a.tag => Known /\ g = f
  BY <1>1, <1>2, SchemaFields DEF Known, HasTag
<1>6. ASSUME NEW f \in Range(schema)
      PROVE  Mine(f, items, m + 1) =
               IF a.tag = f.tag THEN Append(Mine(f, items, m), a)
               ELSE Mine(f, items, m)
  <2> DEFINE k == m + 1
  <2>1. k \in 1..Len(items) /\ k - 1 = m /\ a = items[k]
    BY <1>2, <1>3
  <2> HIDE DEF k, a
  <2>2. Mine(f, items, k) =
          IF items[k].tag = f.tag THEN Append(Mine(f, items, k - 1), items[k])
          ELSE Mine(f, items, k - 1)
    BY <2>1, MineSteps
  <2>3. QED
    BY <2>1, <2>2 DEF k
<1> HIDE DEF a, g
<1>7. CASE ~Content.ok
  <2>1. at' = "failed"
    BY <1>2, <1>7 DEF DecodeField
  <2>2. g \in Range(schema) /\ a.tag = g.tag /\ a.type # g.type
    BY <1>2, <1>4, <1>7
  <2>3. QED
    BY <1>3, <2>1, <2>2
<1>8. CASE Content.ok /\ ~Known
  <2>1. at' = "body" /\ i' = e[m + 1] /\ values' = values
    BY <1>1, <1>2, <1>8 DEF DecodeField
  <2>2. \A f \in Range(schema) : Mine(f, items, m + 1) = Mine(f, items, m)
    BY <1>5, <1>6, <1>8
  <2>3. Understood(schema, items, m + 1, values')
    BY <2>1, <2>2 DEF Understood
  <2>4. QED
    BY <1>3, <2>1, <2>3
<1>9. CASE Content.ok /\ Known
  <2>1. at' = "body" /\ i' = e[m + 1] /\ values' = Set(g, Content.val)
    BY <1>1, <1>2, <1>9 DEF DecodeField, g
  <2>2. ASSUME NEW f \in Range(schema)
        PROVE  Gathers(f, Mine(f, items, m + 1), values')
    <3>1. Gathers(f, Mine(f, items, m), values)
      BY DEF Understood
    <3>2. CASE f.tag = a.tag
      <4>1. g = f /\ (a.type = f.type => Content.val = a.val)
        BY <1>2, <1>5, <1>9, <3>2
      <4>2. Mine(f, items, m) \in Seq({b \in S : b.tag = f.tag})
        BY <1>3, MineSteps
      <4>3. a \in {b \in S : b.tag = f.tag}
        BY <1>3, <3>2
      <4>4. Gathers(f, Append(Mine(f, items, m), a), Set(f, Content.val))
        BY <3>1, <4>1, <4>2, <4>3, SetGathers
      <4>5. QED
        BY <1>6, <2>1, <3>2, <4>1, <4>4
    <3>3. CASE f.tag # a.tag
      <4>1. g \in Range(schema) /\ g # f
        BY <1>4, <1>9, <3>3
      <4>2. g.name # f.name
        BY <1>1, <4>1, SchemaFields
      <4>3. /\ f.name \in DOMAIN values' <=> f.name \in DOMAIN values
            /\ f.name \in DOMAIN values => values'[f.name] = values[f.name]
        BY <2>1, <4>2 DEF Set
      <4>4. Mine(f, items, m + 1) = Mine(f, items, m)
        BY <1>6, <3>3
      <4>5. QED
        BY <3>1, <4>3, <4>4 DEF Gathers
    <3>4. QED
      BY <3>2, <3>3
  <2>3. QED
    BY <1>3, <2>1, <2>2 DEF Understood
<1>10. QED
  BY <1>7, <1>8, <1>9

-----------------------------------------------------------------------------
(***************************************************************************)
(* The end of a body to which something is appended.                       *)
(***************************************************************************)
LEMMA LongerBody ==
  ASSUME NEW b \in Seq(Bytes), NEW c \in Seq(Bytes), NEW n \in 0..Len(b)
  PROVE  After(b \o c, n) = After(b, n) \o c
<1> DEFINE bc == b \o c
           L == Len(b) + Len(c) - n
           x == After(bc, n)
           y == After(b, n)
<1>1. Len(b) \in Nat /\ Len(c) \in Nat /\ n \in Nat /\ n <= Len(b)
  OBVIOUS
<1>2. /\ bc \in Seq(Bytes) /\ Len(bc) = Len(b) + Len(c)
      /\ \A j \in 1..(Len(b) + Len(c)) :
           bc[j] = IF j <= Len(b) THEN b[j] ELSE c[j - Len(b)]
  BY ConcatProperties
<1> HIDE DEF bc
<1>3. n \in 0..Len(bc)
  BY <1>1, <1>2
<1>4. x \in Seq(Bytes) /\ Len(x) = L /\ \A j \in 1..L : x[j] = bc[n + j]
  <2>1. /\ x \in Seq(Bytes) /\ Len(x) = Len(bc) - n
        /\ \A j \in 1..(Len(bc) - n) : x[j] = bc[n + j]
    BY <1>2, <1>3, Suffix DEF After
  <2>2. Len(bc) - n = L
    BY <1>1, <1>2
  <2> HIDE DEF x, L
  <2>3. QED
    BY <2>1, <2>2
<1>5. /\ y \in Seq(Bytes) /\ Len(y) = Len(b) - n
      /\ \A j \in 1..(Len(b) - n) : y[j] = b[n + j]
  BY Suffix DEF After
<1> HIDE DEF x, y
<1>6. /\ y \o c \in Seq(Bytes) /\ Len(y \o c) = Len(y) + Len(c)
      /\ \A j \in 1..(Len(y) + Len(c)) :
           (y \o c)[j] = IF j <= Len(y) THEN y[j] ELSE c[j - Len(y)]
  BY <1>5, ConcatProperties
<1>7. Len(y) + Len(c) = L
  BY <1>1, <1>5
<1>8. ASSUME NEW j \in 1..L PROVE x[j] = (y \o c)[j]
  <2>1. n + j \in 1..(Len(b) + Len(c)) /\ j \in 1..(Len(y) + Len(c))
    BY <1>1, <1>7
  <2>2. CASE j <= Len(b) - n
    <3>1. n + j <= Len(b) /\ j \in 1..(Len(b) - n) /\ j <= Len(y)
      BY <1>1, <1>5, <2>2
    <3>2. QED
      BY <1>2, <1>4, <1>5, <1>6, <2>1, <3>1
  <2>3. CASE ~(j <= Len(b) - n)
    <3>1. ~(n + j <= Len(b)) /\ ~(j <= Len(y)) /\ n + j - Len(b) = j - Len(y)
      BY <1>1, <1>5, <2>3
    <3>2. x[j] = c[n + j - Len(b)]
      BY <1>2, <1>4, <2>1, <3>1
    <3>3. (y \o c)[j] = c[j - Len(y)]
      BY <1>6, <2>1, <3>1
    <3>4. QED
      BY <3>1, <3>2, <3>3
  <2>4. QED
    BY <2>2, <2>3
<1> HIDE DEF L
<1>9. x = y \o c
  BY <1>4, <1>6, <1>7, <1>8, SeqEqual
<1>10. QED
  BY <1>9 DEF x, y, bc

(***************************************************************************)
(* Appending a field lays the body out anew.                               *)
(***************************************************************************)
LEMMA LaidLonger ==
  ASSUME NEW S, NEW items \in Seq(S), NEW b \in Seq(Bytes), NEW u \in 0..(U64 - 1),
         NEW e, Laid(items, b, u, e), NEW a \in S, IsField(a),
         \A k \in 1..Len(items) : IsField(items[k])
  PROVE  \E e1 : Laid(Append(items, a), b \o EncodeField(a, a.val, u), u, e1)
<1> DEFINE c == EncodeField(a, a.val, u)
           bc == b \o c
           its == Append(items, a)
           n == Len(items)
           e1 == [k \in 0..(n + 1) |-> IF k = n + 1 THEN Len(bc) ELSE e[k]]
<1>1. /\ n \in Nat /\ its \in Seq(S) /\ Len(its) = n + 1 /\ its[n + 1] = a
      /\ \A k \in 1..n : its[k] = items[k]
  OBVIOUS
<1>2. \A x : IsField(x) => EncodeField(x, x.val, u) \in Seq(Bytes)
  BY CarriedIsEncodable, EncodeFieldType DEF IsField
<1>3. c \in Seq(Bytes) /\ Len(c) \in Nat /\ Len(c) # 0
  <2> DEFINE x == 8 * a.tag + wireTypeFor(a.type)
             t == appendTag(a.tag, wireTypeFor(a.type))
             v == appendValue(a.type, a.val, u)
  <2>1. Encodable(a.type, a.val) /\ a.tag \in 1..MaxTag /\ a.type \in validTypes
        /\ a.val \in Scalar
    BY CarriedIsEncodable DEF IsField
  <2>2. t \in Seq(Bytes) /\ t = appendVarint[x] /\ x \in 0..(U64 - 1)
    BY <2>1, EncodeFieldType DEF appendTag
  <2>3. v \in Seq(Bytes) /\ c = t \o v
    BY <2>1, AppendValueType DEF EncodeField
  <2>4. Len(t) # 0
    <3>1. readVarint(appendVarint[x] \o <<>>)
            = [ok |-> TRUE, val |-> x, n |-> Len(appendVarint[x])]
      <4>1. x \in 0..(U64 - 1) /\ <<>> \in Seq(Bytes)
        BY <2>2
      <4> HIDE DEF x
      <4>2. QED
        BY <4>1, VarintReadsBack
    <3> HIDE DEF x, t
    <3>2. appendVarint[x] \o <<>> = t
      BY <2>2, ConcatEmptySeq
    <3>3. readVarint(t).ok /\ readVarint(t).n = Len(t)
      BY <2>2, <3>1, <3>2
    <3>4. Len(t) \in 1..Len(t)
      BY <2>2, <3>3, ReadVarintType
    <3>5. Len(t) \in Nat
      BY <2>2
    <3>6. QED
      BY <3>4, <3>5
  <2> HIDE DEF t, v, c
  <2>5. Len(t \o v) = Len(t) + Len(v) /\ Len(t) \in Nat /\ Len(v) \in Nat
    BY <2>2, <2>3, ConcatProperties
  <2>6. t \o v \in Seq(Bytes)
    BY <2>2, <2>3, ConcatProperties
  <2>7. QED
    BY <2>3, <2>4, <2>5, <2>6
<1> HIDE DEF c
<1>4. bc \in Seq(Bytes) /\ Len(bc) = Len(b) + Len(c) /\ Len(b) \in Nat
  BY <1>3, ConcatProperties
<1>5. /\ e \in [0..n -> 0..Len(b)] /\ e[0] = 0 /\ e[n] = Len(b)
      /\ \A j, k \in 0..n : j < k => e[j] < e[k]
      /\ \A k \in 1..n :
           After(b, e[k - 1]) = EncodeField(items[k], items[k].val, u) \o After(b, e[k])
  BY DEF Laid
<1> HIDE DEF bc, its, n
<1>6. /\ e1 \in [0..(n + 1) -> 0..Len(bc)] /\ e1[0] = 0 /\ e1[n + 1] = Len(bc)
      /\ \A k \in 0..n : e1[k] = e[k]
  <2>1. \A k \in 0..(n + 1) : (k = n + 1 \/ k \in 0..n) /\ (k \in 0..n => k # n + 1)
    BY <1>1
  <2>2. \A k \in 0..n : e[k] \in 0..Len(bc)
    BY <1>3, <1>4, <1>5
  <2>3. Len(bc) \in 0..Len(bc) /\ 0 \in 0..n /\ n + 1 \in 0..(n + 1)
        /\ \A k \in 0..n : k \in 0..(n + 1) /\ k # n + 1
    BY <1>1, <1>3, <1>4
  <2>4. QED
    BY <1>5, <2>1, <2>2, <2>3
<1> HIDE DEF e1
<1>7. ASSUME NEW j \in 0..(n + 1), NEW k \in 0..(n + 1), j < k PROVE e1[j] < e1[k]
  <2>1. j \in 0..n
    BY <1>1, <1>7
  <2>2. CASE k \in 0..n
    BY <1>5, <1>6, <1>7, <2>1, <2>2
  <2>3. CASE k = n + 1
    <3>1. e[j] \in Nat /\ e[j] <= Len(b) /\ e1[j] = e[j] /\ e1[k] = Len(b) + Len(c)
      BY <1>4, <1>5, <1>6, <2>1, <2>3
    <3>2. QED
      BY <1>3, <1>4, <3>1
  <2>4. QED
    BY <1>1, <2>2, <2>3
<1>8. ASSUME NEW k \in 1..(n + 1)
      PROVE  After(bc, e1[k - 1])
               = EncodeField(its[k], its[k].val, u) \o After(bc, e1[k])
  <2>1. k - 1 \in 0..n /\ e1[k - 1] = e[k - 1] /\ e[k - 1] \in 0..Len(b)
    BY <1>1, <1>5, <1>6
  <2>2. After(bc, e1[k - 1]) = After(b, e[k - 1]) \o c
    BY <1>3, <2>1, LongerBody DEF bc
  <2>3. CASE k = n + 1
    <3>1. k - 1 = n /\ e[k - 1] = Len(b) /\ its[k] = a /\ e1[k] = Len(bc)
      BY <1>1, <1>5, <1>6, <2>3
    <3>2. ASSUME NEW d \in Seq(Bytes) PROVE After(d, Len(d)) = <<>>
      <4>1. Len(d) \in 0..Len(d) /\ Len(d) - Len(d) = 0
        OBVIOUS
      <4>2. After(d, Len(d)) \in Seq(Bytes) /\ Len(After(d, Len(d))) = Len(d) - Len(d)
        BY <4>1, Suffix DEF After
      <4>3. QED
        BY <4>1, <4>2
    <3>3. After(b, e[k - 1]) = <<>> /\ After(bc, e1[k]) = <<>>
      BY <1>4, <3>1, <3>2
    <3>4. <<>> \o c = c /\ c \o <<>> = c
      BY <1>3, ConcatEmptySeq
    <3>5. EncodeField(its[k], its[k].val, u) = c
      BY <3>1 DEF c
    <3>6. QED
      BY <2>2, <3>3, <3>4, <3>5
  <2>4. CASE k \in 1..n
    <3> DEFINE f == EncodeField(items[k], items[k].val, u)
               z == After(b, e[k])
    <3>1. k \in 0..n /\ e1[k] = e[k] /\ e[k] \in 0..Len(b) /\ its[k] = items[k]
      <4>1. k \in 0..n
        BY <1>1, <2>4
      <4>2. QED
        BY <1>1, <1>5, <1>6, <2>4, <4>1
    <3>2. After(b, e[k - 1]) = f \o z
      BY <1>5, <2>4
    <3>3. f \in Seq(Bytes)
      BY <1>2, <2>4 DEF n
    <3>4. z \in Seq(Bytes)
      BY <3>1, Suffix DEF After
    <3>5. After(bc, e1[k]) = z \o c
      BY <1>3, <3>1, LongerBody DEF bc
    <3>6. EncodeField(its[k], its[k].val, u) = f
      BY <3>1
    <3> HIDE DEF f, z
    <3>7. (f \o z) \o c = f \o (z \o c)
      BY <1>3, <3>3, <3>4, BytesAssociative
    <3>8. QED
      BY <2>2, <3>2, <3>5, <3>6, <3>7
  <2>5. k = n + 1 \/ k \in 1..n
    BY <1>1
  <2>6. QED
    BY <2>3, <2>4, <2>5
<1>9. Len(its) = n + 1
  BY <1>1
<1>10. Laid(its, bc, u, e1)
  BY <1>6, <1>7, <1>8, <1>9 DEF Laid
<1>11. QED
  BY <1>10 DEF its, bc, c

-----------------------------------------------------------------------------
(***************************************************************************)
(* The invariant of a body that a node builds: it is the fields added, in  *)
(* their order; decoding is at the beginning of one of them or at the end, *)
(* and has understood those before; it has failed only at a field of       *)
(* another type.                                                           *)
(***************************************************************************)
Misfit == \E a \in Range(added), f \in Range(schema) :
            a.tag = f.tag /\ a.type # f.type

Reads(e, m) == /\ Laid(added, body, 0, e) /\ i = e[m]
               /\ Understood(schema, added, m, values)

DynamicInv ==
  /\ at \in {"mqtt", "foreign"} => added = <<>>
  /\ at = "build" => values = NoObject /\ origin = <<>>
  /\ (origin = <<>> /\ (at = "build" \/ (at = "body" /\ added # <<>>))) =>
       \E e : \E m \in 0..Len(added) : Reads(e, m)
  /\ (origin = <<>> /\ at = "failed" /\ added # <<>>) => Misfit

(***************************************************************************)
(* Everything a node adds is a field.                                      *)
(***************************************************************************)
LEMMA AddedAreFields ==
  ASSUME TypeOK
  PROVE  /\ added \in Seq(Additions) /\ Len(added) \in Nat
         /\ \A a \in Additions : IsField(a)
         /\ \A k \in 1..Len(added) : IsField(added[k])
         /\ 0 \in 0..(U64 - 1)
<1>1. added \in Seq(Additions) /\ Len(added) \in Nat
  BY DEF TypeOK
<1>2. \A a \in Additions : IsField(a)
  BY TranslationAssumption DEF IsField
<1>3. 0 \in 0..(U64 - 1)
  BY CodecAssumption
<1>4. QED
  BY <1>1, <1>2, <1>3

(***************************************************************************)
(* At the end of the body every field has been read.                       *)
(***************************************************************************)
LEMMA AllRead ==
  ASSUME TypeOK, NEW e, NEW m \in 0..Len(added), Reads(e, m), i = Len(body)
  PROVE  Understood(schema, added, Len(added), values)
<1> DEFINE n == Len(added)
<1>1. n \in Nat /\ Len(body) \in Nat
  BY DEF TypeOK
<1>2. e[m] = Len(body) /\ e[n] = Len(body) /\ (m < n => e[m] < e[n])
  <2>1. e[m] = Len(body) /\ Laid(added, body, 0, e)
    BY DEF Reads
  <2>2. e[n] = Len(body) /\ \A j, k \in 0..n : j < k => e[j] < e[k]
    BY <2>1 DEF Laid
  <2>3. n \in 0..n /\ m \in 0..n
    BY <1>1
  <2> HIDE DEF n
  <2>4. QED
    BY <2>1, <2>2, <2>3
<1> HIDE DEF n
<1>3. ~(m < n)
  BY <1>1, <1>2
<1>4. m = n
  BY <1>1, <1>3 DEF n
<1>5. QED
  BY <1>4 DEF Reads, n

(***************************************************************************)
(* A body that was understood holds no infinity, so it can be published.   *)
(***************************************************************************)
LEMMA UnderstoodMarshals ==
  ASSUME TypeOK, Understood(schema, added, Len(added), values), ~Misfit
  PROVE  Marshals(schema, values)
<1>1. SUFFICES ASSUME NEW name \in DOMAIN values,
                      NEW v \in Range(Elements(FieldNamed(schema, name), values[name]))
               PROVE  "inf" \notin DOMAIN v
  BY DEF Marshals
<1> DEFINE f == FieldNamed(schema, name)
           mine == Mine(f, added, Len(added))
           T == {a \in Range(added) : a.tag = f.tag}
<1>2. schema \in Schemas /\ HasName(schema, name)
  BY DEF TypeOK
<1>3. f \in Range(schema) /\ f.name = name
  BY <1>2, SchemaFields
<1>4. mine \in Seq(T)
  <2>1. added \in Seq(Range(added)) /\ Len(added) \in 0..Len(added)
    BY AddedAreFields DEF Range
  <2> HIDE DEF f
  <2>2. QED
    BY <2>1, MineSteps
<1>5. \A a \in T : IsField(a) /\ a.type = f.type
  <2>1. \A a \in Range(added) : IsField(a)
    BY AddedAreFields DEF Range
  <2>2. QED
    BY <1>3, <2>1 DEF Misfit
<1>6. Gathers(f, mine, values)
  BY <1>3 DEF Understood
<1> HIDE DEF f, mine, T
<1>7. Len(mine) \in Nat /\ DOMAIN mine = 1..Len(mine) /\ \A k \in 1..Len(mine) : mine[k] \in T
  BY <1>4
<1>8. Range(mine) \subseteq T
  BY <1>7 DEF Range
<1>9. /\ mine # <<>>
      /\ values[name] = IF f.repeated THEN [array |-> [k \in DOMAIN mine |-> mine[k].val]]
                        ELSE Last(mine).val
  BY <1>3, <1>5, <1>6, <1>8 DEF Gathers
<1>10. \E k \in 1..Len(mine) : v = mine[k].val
  <2>1. v \in Range(Elements(f, values[name]))
    BY <1>1 DEF f
  <2>2. CASE f.repeated
    <3>1. Elements(f, values[name]) = [k \in DOMAIN mine |-> mine[k].val]
      BY <1>9, <2>2 DEF Elements
    <3>2. QED
      BY <1>7, <2>1, <3>1 DEF Range
  <2>3. CASE ~f.repeated
    <3>1. Elements(f, values[name]) = <<Last(mine).val>>
      BY <1>9, <2>3 DEF Elements
    <3>2. v = Last(mine).val
      BY <2>1, <3>1 DEF Range
    <3>3. Len(mine) \in 1..Len(mine)
      BY <1>4, <1>7, <1>9
    <3>4. QED
      BY <3>2, <3>3 DEF Last
  <2>4. QED
    BY <2>2, <2>3
<1>11. PICK k \in 1..Len(mine) : v = mine[k].val
  BY <1>10
<1>12. v \in Scalar /\ \E typ \in validTypes : Carries(typ, v)
  BY <1>5, <1>7, <1>11 DEF IsField
<1>13. \/ "bool" \in DOMAIN v \/ "string" \in DOMAIN v \/ "bytes" \in DOMAIN v
       \/ "number" \in DOMAIN v
  BY <1>12 DEF Carries, validTypes
<1>14. QED
  BY <1>12, <1>13, KindsAre

(***************************************************************************)
(* Initially the body is empty and so are the additions.                   *)
(***************************************************************************)
LEMMA DynamicInit == Init => DynamicInv
<1> SUFFICES ASSUME Init PROVE DynamicInv
  OBVIOUS
<1>1. /\ added = <<>> /\ body = <<>> /\ i = 0 /\ values = NoObject /\ origin = <<>>
      /\ at \in {"mqtt", "build", "foreign"}
  BY DEF Init
<1> DEFINE e == [k \in 0..0 |-> 0]
<1>2. Len(added) = 0 /\ Len(body) = 0
  BY <1>1
<1>3. e \in [0..0 -> 0..0] /\ e[0] = 0 /\ \A j, k \in 0..0 : ~(j < k)
  OBVIOUS
<1>4. \A k \in 1..0 : FALSE
  OBVIOUS
<1> HIDE DEF e
<1>5. Laid(added, body, 0, e)
  BY <1>2, <1>3, <1>4 DEF Laid
<1>6. Understood(schema, added, 0, values)
  BY <1>1, NothingYet
<1>7. 0 \in 0..Len(added) /\ Reads(e, 0)
  BY <1>1, <1>2, <1>3, <1>5, <1>6 DEF Reads
<1>8. QED
  BY <1>1, <1>7 DEF DynamicInv

(***************************************************************************)
(* One step per action.                                                    *)
(***************************************************************************)
LEMMA DynamicStep == TypeInv /\ DynamicInv /\ [Next]_vars => DynamicInv'
<1> SUFFICES ASSUME TypeInv, DynamicInv, [Next]_vars PROVE DynamicInv'
  OBVIOUS
<1>1. TypeOK /\ schema' = schema
  BY DEF TypeInv, Next, Arrive, Publish, DecodeField, Emit, Translate, Add, vars
<1>2. CASE Arrive
  <2>1. /\ at' \in {"json", "body"} /\ added' = added /\ added = <<>>
    BY <1>2 DEF Arrive, DynamicInv
  <2>2. QED
    BY <2>1 DEF DynamicInv
<1>3. ASSUME NEW u \in OutOfRange, Translate(u) PROVE DynamicInv'
  <2>1. /\ at' = "refused" \/ (at' = "body" /\ origin' # <<>>)
    <3>1. ASSUME NEW x, NEW y PROVE <<x, y>> # <<>>
      OBVIOUS
    <3>2. QED
      BY <1>3, <3>1 DEF Translate
  <2>2. QED
    BY <2>1 DEF DynamicInv
<1>4. ASSUME NEW a \in Additions, Add(a) PROVE DynamicInv'
  <2>1. /\ at = "build" /\ at' = "build" /\ values' = values /\ values = NoObject
        /\ origin' = origin /\ origin = <<>> /\ i' = i /\ i = 0
        /\ added' = Append(added, a) /\ body' = body \o EncodeField(a, a.val, 0)
    BY <1>4 DEF Add, DynamicInv, TypeInv
  <2>2. PICK e : \E m \in 0..Len(added) : Reads(e, m)
    BY <2>1 DEF DynamicInv
  <2>2a. PICK m \in 0..Len(added) : Reads(e, m)
    BY <2>2
  <2>3. PICK e1 : Laid(added', body', 0, e1)
    <3>1. Laid(added, body, 0, e) /\ body \in Seq(Bytes)
      BY <1>1, <2>2a DEF Reads, TypeOK
    <3>2. \E e1 : Laid(Append(added, a), body \o EncodeField(a, a.val, 0), 0, e1)
      BY <1>1, <3>1, AddedAreFields, LaidLonger
    <3>3. QED
      BY <2>1, <3>2
  <2>4. i' = e1[0]
    BY <2>1, <2>3 DEF Laid
  <2>5. Understood(schema', added', 0, values')
    BY <2>1, NothingYet
  <2>6. 0 \in 0..Len(added')
    <3>1. added' \in Seq(Additions)
      BY <1>1, <2>1, AddedAreFields, AppendProperties
    <3>2. QED
      BY <3>1
  <2>7. Reads(e1, 0)'
    BY <2>3, <2>4, <2>5 DEF Reads
  <2>8. QED
    BY <2>1, <2>6, <2>7 DEF DynamicInv
<1>5. CASE Publish
  <2>1. /\ at = "build" /\ at' = "body"
        /\ UNCHANGED <<schema, body, i, values, added, origin>>
    BY <1>5 DEF Publish
  <2>2. PICK e : \E m \in 0..Len(added) : Reads(e, m)
    BY <2>1 DEF DynamicInv
  <2>2a. PICK m \in 0..Len(added) : Reads(e, m)
    BY <2>2
  <2>3. m \in 0..Len(added') /\ Reads(e, m)'
    BY <2>1, <2>2a DEF Reads
  <2>4. QED
    BY <2>1, <2>3 DEF DynamicInv
<1>6. CASE DecodeField
  <2>1. /\ at = "body" /\ UNCHANGED <<schema, body, added, origin>>
        /\ at' \in {"body", "failed"}
    BY <1>6 DEF DecodeField
  <2>2. CASE origin # <<>> \/ added = <<>>
    BY <2>1, <2>2 DEF DynamicInv
  <2>3. CASE origin = <<>> /\ added # <<>>
    <3>1. PICK e : \E m \in 0..Len(added) : Reads(e, m)
      BY <2>1, <2>3 DEF DynamicInv
    <3>1a. PICK m \in 0..Len(added) : Reads(e, m)
      BY <3>1
    <3>2. \/ at' = "failed" /\ Misfit
          \/ /\ at' = "body" /\ m + 1 \in 0..Len(added) /\ i' = e[m + 1]
             /\ Understood(schema, added, m + 1, values')
      <4>1. /\ Laid(added, body, 0, e) /\ i = e[m]
            /\ Understood(schema, added, m, values)
        BY <3>1a DEF Reads
      <4>2. QED
        BY <1>1, <1>6, <4>1, AddedAreFields, TurnUnderstands DEF Misfit
    <3>3. CASE at' = "failed" /\ Misfit
      <4>1. Misfit'
        BY <2>1, <3>3 DEF Misfit
      <4>2. QED
        BY <3>3, <4>1 DEF DynamicInv
    <3>4. CASE /\ at' = "body" /\ m + 1 \in 0..Len(added) /\ i' = e[m + 1]
               /\ Understood(schema, added, m + 1, values')
      <4>1. m + 1 \in 0..Len(added') /\ Reads(e, m + 1)'
        BY <2>1, <3>1a, <3>4 DEF Reads
      <4>2. QED
        BY <3>4, <4>1 DEF DynamicInv
    <3>5. QED
      BY <3>2, <3>3, <3>4
  <2>4. QED
    BY <2>2, <2>3
<1>7. CASE Emit
  <2>1. /\ at = "body" /\ i = Len(body) /\ UNCHANGED <<schema, added, origin>>
        /\ \/ at' = "json"
           \/ at' = "failed" /\ ~Marshals(schema, values)
    BY <1>1, <1>7 DEF Emit, TypeOK
  <2>2. CASE at' = "json" \/ origin # <<>> \/ added = <<>>
    BY <2>1, <2>2 DEF DynamicInv
  <2>3. CASE at' = "failed" /\ ~Marshals(schema, values) /\ origin = <<>> /\ added # <<>>
    <3>1. PICK e : \E m \in 0..Len(added) : Reads(e, m)
      BY <2>1, <2>3 DEF DynamicInv
    <3>1a. PICK m \in 0..Len(added) : Reads(e, m)
      BY <3>1
    <3>2. Misfit
      BY <1>1, <2>1, <2>3, <3>1a, AllRead, UnderstoodMarshals
    <3>3. Misfit'
      BY <2>1, <3>2 DEF Misfit
    <3>4. QED
      BY <2>3, <3>3 DEF DynamicInv
  <2>4. QED
    BY <2>1, <2>2, <2>3
<1>8. CASE UNCHANGED vars
  <2>1. UNCHANGED <<at, schema, body, i, values, added, origin>>
    BY <1>8 DEF vars
  <2>2. QED
    BY <2>1 DEF DynamicInv, Reads, Misfit
<1>9. QED
  BY <1>2, <1>3, <1>4, <1>5, <1>6, <1>7, <1>8 DEF Next

(***************************************************************************)
(* Whatever a node adds, in whatever order, the bridge understands it      *)
(* field by field: the last value of a singular field, all values of a     *)
(* repeated one, nothing of a field that is missing or unknown; and it     *)
(* refuses the body only for a field of another type.                      *)
(***************************************************************************)
THEOREM DynamicUnderstoodAlways == Spec => []DynamicIsUnderstood
<1>1. TypeInv /\ DynamicInv => DynamicIsUnderstood
  <2> SUFFICES ASSUME TypeInv, DynamicInv, added # <<>>, origin = <<>>
               PROVE  DynamicIsUnderstood
    BY DEF DynamicIsUnderstood
  <2>1. at = "failed" => Misfit
    BY DEF DynamicInv
  <2>2. ASSUME at = "body", i = Len(body), NEW f \in Range(schema)
        PROVE  Gathers(f, AddedTo(f), values)
    <3>1. PICK e : \E m \in 0..Len(added) : Reads(e, m)
      BY <2>2 DEF DynamicInv
    <3>1a. PICK m \in 0..Len(added) : Reads(e, m)
      BY <3>1
    <3>2. TypeOK
      BY DEF TypeInv
    <3>3. Gathers(f, Mine(f, added, Len(added)), values)
      BY <2>2, <3>1a, <3>2, AllRead DEF Understood
    <3>4. AddedTo(f) = FlattenSeq(Only(f, added))
      BY DEF AddedTo, Only
    <3>5. FlattenSeq(Only(f, added)) = Mine(f, added, Len(added))
      BY <3>2, AddedAreFields, MineSteps
    <3>6. QED
      BY <3>3, <3>4, <3>5
  <2>3. QED
    BY <2>1, <2>2 DEF DynamicIsUnderstood, Misfit, Gathers
<1>2. Init => TypeInv /\ DynamicInv
  BY TypeInit, DynamicInit
<1>3. TypeInv /\ DynamicInv /\ [Next]_vars => TypeInv' /\ DynamicInv'
  BY TypeStep, DynamicStep
<1>4. QED
  BY <1>1, <1>2, <1>3, PTL DEF Spec
-----------------------------------------------------------------------------
(***************************************************************************)
(* The first k of some sequences, concatenated: none, then one more each   *)
(* time, and in the end what FlattenSeq makes of all.                      *)
(***************************************************************************)
Upto(seqs, k) == IF k = 0 THEN <<>> ELSE Flattened(seqs)[k]

LEMMA UptoSteps ==
  ASSUME NEW S, NEW seqs \in Seq(Seq(S))
  PROVE  /\ Upto(seqs, 0) = <<>>
         /\ \A k \in 0..Len(seqs) : Upto(seqs, k) \in Seq(S)
         /\ \A k \in 1..Len(seqs) : Upto(seqs, k) = Upto(seqs, k - 1) \o seqs[k]
         /\ FlattenSeq(seqs) = Upto(seqs, Len(seqs))
<1> DEFINE n == Len(seqs)
           F == Flattened(seqs)
           Q == Seq(S)
<1>1. /\ n \in Nat /\ \A k \in 1..n : seqs[k] \in Q
      /\ Upto(seqs, 0) = <<>> /\ <<>> \in Q
  BY DEF Upto
<1>2. \A k \in 1..n : Upto(seqs, k) = F[k]
  BY DEF Upto
<1>3. CASE n = 0
  <2>1. FlattenSeq(seqs) = seqs /\ seqs = <<>>
    BY <1>3 DEF FlattenSeq
  <2>2. \A k \in 0..n : k = 0
    BY <1>3
  <2>3. \A k \in 1..n : FALSE
    BY <1>3
  <2> HIDE DEF Q, F
  <2>4. \A k \in 0..n : Upto(seqs, k) \in Q
    BY <1>1, <2>2
  <2>5. FlattenSeq(seqs) = Upto(seqs, n)
    BY <1>1, <1>3, <2>1
  <2>6. \A k \in 1..n : Upto(seqs, k) = Upto(seqs, k - 1) \o seqs[k]
    BY <2>3
  <2>7. QED
    BY <1>1, <2>4, <2>5, <2>6 DEF Q
<1>4. CASE n # 0
  <2>1. /\ F \in [1..n -> Q] /\ F[1] = seqs[1]
        /\ \A k \in 2..n : F[k] = F[k - 1] \o seqs[k]
    BY <1>4, FlattenedSteps
  <2>2. FlattenSeq(seqs) = F[n]
    BY <1>4 DEF FlattenSeq, Flattened
  <2>3. seqs[1] \in Q
    BY <1>1, <1>4
  <2>4. <<>> \o seqs[1] = seqs[1]
    BY <2>3, ConcatEmptySeq
  <2> HIDE DEF n, F, Q
  <2>5. \A k \in 0..n : Upto(seqs, k) \in Q
    <3>1. \A k \in 0..n : k = 0 \/ k \in 1..n
      BY <1>1
    <3>2. QED
      BY <1>1, <1>2, <2>1, <3>1
  <2>6. ASSUME NEW k \in 1..n PROVE Upto(seqs, k) = Upto(seqs, k - 1) \o seqs[k]
    <3>1. CASE k = 1
      <4>1. k - 1 = 0
        BY <3>1
      <4>2. Upto(seqs, 1) = seqs[1]
        BY <1>2, <2>1, <3>1
      <4>3. QED
        BY <1>1, <2>4, <3>1, <4>1, <4>2
    <3>2. CASE k \in 2..n
      <4>1. k - 1 \in 1..n
        BY <1>1, <3>2
      <4>2. QED
        BY <1>2, <2>1, <3>2, <4>1
    <3>3. k = 1 \/ k \in 2..n
      BY <1>1
    <3>4. QED
      BY <3>1, <3>2, <3>3
  <2>7. n \in 1..n
    BY <1>1, <1>4
  <2>8. QED
    BY <1>1, <1>2, <2>2, <2>5, <2>6, <2>7 DEF n, Q
<1>5. QED
  BY <1>3, <1>4

(***************************************************************************)
(* All the fields that have f's tag, and what one more field adds to them. *)
(***************************************************************************)
Whole(f, items) == Mine(f, items, Len(items))

LEMMA WholeLonger ==
  ASSUME NEW S, NEW items \in Seq(S), NEW a \in S, NEW f
  PROVE  /\ a.tag = f.tag => Whole(f, Append(items, a)) = Append(Whole(f, items), a)
         /\ a.tag # f.tag => Whole(f, Append(items, a)) = Whole(f, items)
<1> DEFINE its == Append(items, a)
           n == Len(items)
           T == Seq({b \in S : b.tag = f.tag})
           P == {m \in 0..n : Mine(f, its, m) = Mine(f, items, m)}
           More(x, m) == IF x[m].tag = f.tag THEN Append(Mine(f, x, m - 1), x[m])
                         ELSE Mine(f, x, m - 1)
<1>0. ASSUME NEW x \in Seq(S)
      PROVE  /\ Mine(f, x, 0) = <<>>
             /\ \A m \in 0..Len(x) : Mine(f, x, m) \in Seq({b \in S : b.tag = f.tag})
             /\ \A m \in 1..Len(x) : Mine(f, x, m) = More(x, m)
  <2> HIDE DEF its, n, T, P, More
  <2>1. Mine(f, x, 0) = <<>>
    BY MineSteps
  <2>2. \A m \in 0..Len(x) : Mine(f, x, m) \in Seq({b \in S : b.tag = f.tag})
    BY MineSteps
  <2>3. ASSUME NEW m \in 1..Len(x), x[m].tag = f.tag
        PROVE  Mine(f, x, m) = Append(Mine(f, x, m - 1), x[m])
    BY <2>3, MineSteps
  <2>4. ASSUME NEW m \in 1..Len(x), x[m].tag # f.tag
        PROVE  Mine(f, x, m) = Mine(f, x, m - 1)
    BY <2>4, MineSteps
  <2>5. QED
    BY <2>1, <2>2, <2>3, <2>4 DEF More
<1> HIDE DEF T, More
<1>1. /\ n \in Nat /\ its \in Seq(S) /\ Len(its) = n + 1 /\ its[n + 1] = a
      /\ \A k \in 1..n : its[k] = items[k]
  OBVIOUS
<1>2. /\ Mine(f, items, 0) = <<>>
      /\ \A m \in 0..n : Mine(f, items, m) \in T
      /\ \A m \in 1..n : Mine(f, items, m) = More(items, m)
  BY <1>0 DEF T
<1> HIDE DEF its, n
<1>3. /\ Mine(f, its, 0) = <<>>
      /\ \A m \in 1..(n + 1) : Mine(f, its, m) = More(its, m)
  BY <1>0, <1>1
<1>4. \A m \in 0..n : m \in P
  <2>1. 0 \in P
    BY <1>1, <1>2, <1>3
  <2>2. ASSUME NEW m \in 1..n, m - 1 \in P PROVE m \in P
    <3>1. /\ m \in 1..(n + 1) /\ its[m] = items[m] /\ m \in 0..n
          /\ Mine(f, its, m - 1) = Mine(f, items, m - 1)
      BY <1>1, <2>2
    <3>2. Mine(f, its, m) = Mine(f, items, m)
      BY <1>2, <1>3, <3>1 DEF More
    <3>3. QED
      BY <3>1, <3>2
  <2> HIDE DEF P
  <2>3. QED
    BY <1>1, <2>1, <2>2, IntervalInduction
<1>5. n \in 0..n /\ n + 1 \in 1..(n + 1) /\ (n + 1) - 1 = n
  BY <1>1
<1>6. Mine(f, its, n) = Mine(f, items, n)
  BY <1>4, <1>5
<1>7. Mine(f, its, n + 1) = IF a.tag = f.tag THEN Append(Mine(f, its, n), a)
                            ELSE Mine(f, its, n)
  <2> DEFINE m == n + 1
  <2>1. m \in 1..(n + 1) /\ its[m] = a /\ m - 1 = n
    BY <1>1, <1>5
  <2> HIDE DEF m
  <2>2. Mine(f, its, m) = IF its[m].tag = f.tag THEN Append(Mine(f, its, m - 1), its[m])
                          ELSE Mine(f, its, m - 1)
    BY <1>3, <2>1 DEF More
  <2>3. QED
    BY <2>1, <2>2 DEF m
<1>8. Whole(f, items) = Mine(f, items, n) /\ Whole(f, its) = Mine(f, its, n + 1)
  BY <1>1 DEF Whole, n
<1> HIDE DEF P
<1>9. QED
  BY <1>6, <1>7, <1>8 DEF its

-----------------------------------------------------------------------------
(***************************************************************************)
(* What EncodeProto writes for one field: its elements, each with its tag. *)
(***************************************************************************)
Tagged(f, vs) ==
  [k \in DOMAIN vs |-> [tag |-> f.tag, type |-> f.type, val |-> vs[k]]]
Codes(f, vs, u) == [k \in DOMAIN vs |-> EncodeField(f, vs[k], u)]

(***************************************************************************)
(* The first k elements of a sequence, one more each time.                 *)
(***************************************************************************)
Begin(s, k) == [j \in 1..k |-> s[j]]

LEMMA Beginnings ==
  ASSUME NEW S, NEW s \in Seq(S)
  PROVE  /\ Begin(s, 0) = <<>> /\ Begin(s, Len(s)) = s
         /\ \A k \in 0..Len(s) : Begin(s, k) \in Seq(S)
         /\ \A k \in 1..Len(s) : Begin(s, k) = Append(Begin(s, k - 1), s[k])
<1> DEFINE n == Len(s)
<1>1. n \in Nat /\ \A j \in 1..n : s[j] \in S
  OBVIOUS
<1>2. ASSUME NEW k \in 0..n
      PROVE  /\ Begin(s, k) \in Seq(S) /\ Len(Begin(s, k)) = k
             /\ \A j \in 1..k : Begin(s, k)[j] = s[j]
  <2>1. k \in Nat /\ \A j \in 1..k : s[j] \in S
    BY <1>1
  <2>2. QED
    BY <2>1 DEF Begin
<1>3. Begin(s, 0) = <<>>
  BY DEF Begin
<1>4. Begin(s, n) = s
  <2>1. n \in 0..n
    BY <1>1
  <2>2. Begin(s, n) \in Seq(S) /\ Len(Begin(s, n)) = Len(s) /\ \A j \in 1..Len(s) : Begin(s, n)[j] = s[j]
    BY <1>2, <2>1
  <2> HIDE DEF n
  <2>3. QED
    BY <2>2, SeqEqual
<1>5. ASSUME NEW k \in 1..n PROVE Begin(s, k) = Append(Begin(s, k - 1), s[k])
  <2> DEFINE b == Begin(s, k - 1)
             c == Append(b, s[k])
  <2>1. k - 1 \in 0..n /\ k \in 0..n /\ k \in Nat /\ s[k] \in S
    BY <1>1
  <2>2. b \in Seq(S) /\ Len(b) = k - 1 /\ \A j \in 1..(k - 1) : b[j] = s[j]
    BY <1>2, <2>1
  <2>3. Begin(s, k) \in Seq(S) /\ Len(Begin(s, k)) = k /\ \A j \in 1..k : Begin(s, k)[j] = s[j]
    BY <1>2, <2>1
  <2> HIDE DEF b, n
  <2>4. /\ c \in Seq(S) /\ Len(c) = (k - 1) + 1 /\ c[(k - 1) + 1] = s[k]
        /\ \A j \in 1..(k - 1) : c[j] = b[j]
    BY <2>1, <2>2, AppendProperties
  <2> HIDE DEF c
  <2>5. (k - 1) + 1 = k
    BY <2>1
  <2>6. ASSUME NEW j \in 1..k PROVE Begin(s, k)[j] = c[j]
    <3>1. j = k \/ j \in 1..(k - 1)
      BY <2>1
    <3>2. QED
      BY <2>2, <2>3, <2>4, <2>5, <3>1
  <2>7. Begin(s, k) = c
    BY <2>3, <2>4, <2>5, <2>6, SeqEqual
  <2>8. QED
    BY <2>7 DEF c, b
<1>6. QED
  BY <1>2, <1>3, <1>4, <1>5 DEF n

(***************************************************************************)
(* The fields with f's tag are new, and those with other tags as before.   *)
(***************************************************************************)
Gains(items, items1, f, vs) ==
  \A g : /\ g.tag = f.tag => Whole(g, items1) = Tagged(f, vs)
         /\ g.tag # f.tag => Whole(g, items1) = Whole(g, items)
Lacks(items, f) == \A g : g.tag = f.tag => Whole(g, items) = <<>>

(***************************************************************************)
(* Writing a field that a laid out body does not have yet lays it out anew *)
(* and adds exactly the field's elements, in their order.                  *)
(***************************************************************************)
LEMMA LaidField ==
  ASSUME NEW S, \A a \in S : IsField(a), NEW items \in Seq(S), NEW b \in Seq(Bytes),
         NEW u \in 0..(U64 - 1), NEW e, Laid(items, b, u, e),
         NEW f, NEW vs \in Seq(Scalar), Tagged(f, vs) \in Seq(S),
         Lacks(items, f)
  PROVE  \E items1 \in Seq(S) :
           /\ \E e1 : Laid(items1, b \o FlattenSeq(Codes(f, vs, u)), u, e1)
           /\ Gains(items, items1, f, vs)
<1> DEFINE its == Tagged(f, vs)
           codes == Codes(f, vs, u)
           n == Len(vs)
           Told(items1, k) ==
             \A g : Whole(g, items1) = IF g.tag = f.tag THEN Begin(its, k)
                                       ELSE Whole(g, items)
           Written(k) == b \o Upto(codes, k)
           P == {k \in 0..n : \E items1 \in Seq(S) :
                   Told(items1, k) /\ \E e1 : Laid(items1, Written(k), u, e1)}
<1>1. n \in Nat /\ DOMAIN vs = 1..n
  OBVIOUS
<1>2. /\ Len(its) = n /\ Len(codes) = n
      /\ \A k \in 1..n : /\ its[k] = [tag |-> f.tag, type |-> f.type, val |-> vs[k]]
                         /\ codes[k] = EncodeField(f, vs[k], u)
  BY <1>1 DEF Tagged, Codes
<1>5. its \in Seq(S)
  OBVIOUS
<1> HIDE DEF its
<1>3. ASSUME NEW k \in 1..n
      PROVE  /\ its[k] \in S /\ IsField(its[k]) /\ its[k].tag = f.tag
             /\ codes[k] = EncodeField(its[k], its[k].val, u)
             /\ codes[k] \in Seq(Bytes)
  <2>1. its[k] \in S /\ IsField(its[k])
    BY <1>2, <1>5
  <2> HIDE DEF n, codes
  <2>2. its[k].tag = f.tag /\ its[k].type = f.type /\ its[k].val = vs[k]
    BY <1>2
  <2>3. codes[k] = EncodeField(its[k], its[k].val, u)
    BY <1>2, <2>2 DEF EncodeField
  <2> HIDE DEF codes
  <2>4. EncodeField(its[k], its[k].val, u) \in Seq(Bytes)
    BY <2>1, CarriedIsEncodable, EncodeFieldType DEF IsField
  <2>5. QED
    BY <2>1, <2>2, <2>3, <2>4
<1>4. codes \in Seq(Seq(Bytes))
  <2>1. codes = [k \in 1..n |-> EncodeField(f, vs[k], u)]
    BY <1>1 DEF Codes
  <2> HIDE DEF codes, n
  <2>2. codes \in [1..n -> Seq(Bytes)]
    BY <1>3, <2>1
  <2>3. QED
    BY <1>1, <2>2
<1> HIDE DEF codes, n
<1>6. /\ Upto(codes, 0) = <<>>
      /\ \A k \in 0..n : Upto(codes, k) \in Seq(Bytes)
      /\ \A k \in 1..n : Upto(codes, k) = Upto(codes, k - 1) \o codes[k]
      /\ FlattenSeq(codes) = Upto(codes, n)
  BY <1>2, <1>4, UptoSteps
<1>7. /\ Begin(its, 0) = <<>> /\ Begin(its, n) = its
      /\ \A k \in 1..n : Begin(its, k) = Append(Begin(its, k - 1), its[k])
  BY <1>2, <1>5, Beginnings
<1>8. 0 \in P
  <2>1. Written(0) = b
    BY <1>6, ConcatEmptySeq
  <2>2. Told(items, 0)
    BY <1>7 DEF Lacks
  <2> HIDE DEF Told, Written
  <2>3. QED
    BY <1>1, <2>1, <2>2
<1>9. ASSUME NEW k \in 1..n, k - 1 \in P PROVE k \in P
  <2>1. k - 1 \in 0..n /\ k \in 0..n
    BY <1>1
  <2>2. PICK items1 \in Seq(S) :
          Told(items1, k - 1) /\ \E e1 : Laid(items1, Written(k - 1), u, e1)
    BY <1>9
  <2>3. PICK e1 : Laid(items1, Written(k - 1), u, e1)
    BY <2>2
  <2> DEFINE a == its[k]
             more == Append(items1, a)
  <2>4. a \in S /\ IsField(a) /\ a.tag = f.tag /\ codes[k] = EncodeField(a, a.val, u)
    BY <1>3
  <2>5. Written(k - 1) \in Seq(Bytes)
    BY <1>6, <2>1, ConcatProperties
  <2>6. Written(k) = Written(k - 1) \o EncodeField(a, a.val, u)
    <3> DEFINE x == Upto(codes, k - 1)
               c == codes[k]
    <3>1. x \in Seq(Bytes) /\ c \in Seq(Bytes) /\ Upto(codes, k) = x \o c
      BY <1>3, <1>6, <2>1
    <3>1a. x \in Seq(Bytes) /\ c \in Seq(Bytes)
      BY <3>1
    <3> HIDE DEF x, c, Written, P, Told, a, more
    <3>2. (b \o x) \o c = b \o (x \o c)
      BY <3>1a, BytesAssociative
    <3>3. Written(k) = b \o (x \o c) /\ Written(k - 1) = b \o x
      BY <3>1 DEF x, Written
    <3>4. c = EncodeField(a, a.val, u)
      BY <2>4 DEF c
    <3>5. QED
      BY <3>2, <3>3, <3>4
  <2> HIDE DEF Written, a
  <2>7. \E e2 : Laid(more, Written(k - 1) \o EncodeField(a, a.val, u), u, e2)
    <3>1. \A j \in 1..Len(items1) : items1[j] \in S /\ IsField(items1[j])
      BY <2>2
    <3> DEFINE w == Written(k - 1)
    <3>2. w \in Seq(Bytes) /\ Laid(items1, w, u, e1)
      BY <2>3, <2>5
    <3> HIDE DEF w
    <3>3. \E e2 : Laid(Append(items1, a), w \o EncodeField(a, a.val, u), u, e2)
      BY <2>4, <3>1, <3>2, LaidLonger
    <3>4. QED
      BY <3>3 DEF w
  <2>8. more \in Seq(S)
    BY <2>4, AppendProperties
  <2>9. Told(more, k)
    <3>1. SUFFICES ASSUME NEW g
                   PROVE  Whole(g, more) = IF g.tag = f.tag THEN Begin(its, k)
                                           ELSE Whole(g, items)
      OBVIOUS
    <3>1a. a.tag = g.tag => Whole(g, more) = Append(Whole(g, items1), a)
      BY <2>4, WholeLonger
    <3>2. a.tag # g.tag => Whole(g, more) = Whole(g, items1)
      BY <2>4, WholeLonger
    <3>3. Whole(g, items1) = IF g.tag = f.tag THEN Begin(its, k - 1) ELSE Whole(g, items)
      BY <2>2
    <3>4. Begin(its, k) = Append(Begin(its, k - 1), a)
      BY <1>7 DEF a
    <3> HIDE DEF more
    <3>5. QED
      BY <2>4, <3>1a, <3>2, <3>3, <3>4
  <2> HIDE DEF Told, more
  <2>10. QED
    BY <2>1, <2>6, <2>7, <2>8, <2>9
<1>10. n \in P
  <2> HIDE DEF P
  <2>1. \A k \in 0..n : k \in P
    BY <1>1, <1>8, <1>9, IntervalInduction
  <2>2. QED
    BY <1>1, <2>1
<1>11. PICK items1 \in Seq(S) : Told(items1, n) /\ \E e1 : Laid(items1, Written(n), u, e1)
  BY <1>10
<1>12. Written(n) = b \o FlattenSeq(codes)
  BY <1>6
<1>13. QED
  BY <1>7, <1>11, <1>12 DEF its, codes, Gains

(***************************************************************************)
(* The elements that some values have for a field; fields of a schema.     *)
(***************************************************************************)
Parts(f, vals) == IF f.name \in DOMAIN vals THEN Elements(f, vals[f.name]) ELSE <<>>

FieldsOf(s) ==
  {a \in [tag : 1..MaxTag, type : validTypes, val : Scalar] :
     IsField(a) /\ \E f \in Range(s) : a.tag = f.tag /\ a.type = f.type}

Tells(s, vals, items) ==
  /\ \A f \in Range(s) : \A g : g.tag = f.tag =>
       Whole(g, items) = Tagged(f, Parts(f, vals))
  /\ \A g : ~HasTag(s, g.tag) => Whole(g, items) = <<>>

(***************************************************************************)
(* The empty body is laid out already.                                     *)
(***************************************************************************)
LEMMA LaidNothing ==
  ASSUME NEW u
  PROVE  /\ \E e : Laid(<<>>, <<>>, u, e)
         /\ \A g : Whole(g, <<>>) = <<>>
<1> DEFINE e == [k \in 0..0 |-> 0]
           none == <<>>
<1>1. none = <<>> /\ Len(none) = 0
  OBVIOUS
<1> HIDE DEF none
<1>2. e \in [0..0 -> 0..0] /\ e[0] = 0 /\ \A j, k \in 0..0 : ~(j < k)
  OBVIOUS
<1>3. \A k \in 1..0 : FALSE
  OBVIOUS
<1> HIDE DEF e
<1>4. Laid(none, none, u, e)
  BY <1>1, <1>2, <1>3 DEF Laid
<1>5. \A g : Whole(g, none) = <<>>
  BY <1>1 DEF Whole, Mine
<1>6. QED
  BY <1>1, <1>4, <1>5

(***************************************************************************)
(* EncodeProto lays its body out: every field of the schema is there with  *)
(* all its elements, in their order, and nothing else.                     *)
(***************************************************************************)
LEMMA LaidSchema ==
  ASSUME NEW s \in Schemas, NEW vals, NEW u \in 0..(U64 - 1),
         \A f \in Range(s) : /\ Parts(f, vals) \in Seq(Scalar)
                             /\ \A v \in Range(Parts(f, vals)) : Carries(f.type, v)
  PROVE  \E items \in Seq(FieldsOf(s)) :
           /\ Tells(s, vals, items)
           /\ \E e : Laid(items, EncodeProto(s, vals, u), u, e)
<1> DEFINE S == FieldsOf(s)
           n == Len(s)
           Code(f) == FlattenSeq(Codes(f, Parts(f, vals), u))
           all == [j \in 1..n |-> Code(s[j])]
           Told(items, j) ==
             \A g : /\ \A k \in 1..j : s[k].tag = g.tag =>
                         Whole(g, items) = Tagged(s[k], Parts(s[k], vals))
                    /\ (\A k \in 1..j : s[k].tag # g.tag) => Whole(g, items) = <<>>
           P == {j \in 0..n : \E items \in Seq(S) :
                   Told(items, j) /\ \E e : Laid(items, Upto(all, j), u, e)}
<1>1. /\ n \in Nat /\ DOMAIN s = 1..n /\ \A j \in 1..n : s[j] \in Range(s)
      /\ \A f \in Range(s) : \E j \in 1..n : f = s[j]
  BY SchemaFields DEF Range
<1>2. EncodeProto(s, vals, u) = FlattenSeq(all)
  <2> DEFINE Field(f) == IF f.name \notin DOMAIN vals THEN <<>>
                         ELSE LET vs == Elements(f, vals[f.name])
                              IN  FlattenSeq([k \in DOMAIN vs |-> EncodeField(f, vs[k], u)])
  <2>1. EncodeProto(s, vals, u) = FlattenSeq([j \in DOMAIN s |-> Field(s[j])])
    BY DEF EncodeProto
  <2>2. ASSUME NEW f PROVE Field(f) = Code(f)
    <3>1. CASE f.name \in DOMAIN vals
      BY <3>1 DEF Codes, Parts
    <3>2. CASE f.name \notin DOMAIN vals
      <4>1. Parts(f, vals) = <<>>
        BY <3>2 DEF Parts
      <4>2. Codes(f, <<>>, u) = <<>>
        BY DEF Codes
      <4>3. FlattenSeq(<<>>) = <<>>
        <5>1. <<>> \in Seq(Seq({}))
          OBVIOUS
        <5>2. Upto(<<>>, 0) = <<>> /\ Len(<<>>) = 0
          BY DEF Upto
        <5>3. FlattenSeq(<<>>) = Upto(<<>>, Len(<<>>))
          BY <5>1, UptoSteps
        <5>4. QED
          BY <5>2, <5>3
      <4>4. QED
        BY <3>2, <4>1, <4>2, <4>3
    <3>3. QED
      BY <3>1, <3>2
  <2> HIDE DEF Field, Code
  <2>3. [j \in DOMAIN s |-> Field(s[j])] = all
    BY <1>1, <2>2
  <2>4. QED
    BY <2>1, <2>3
<1>3. ASSUME NEW f \in Range(s)
      PROVE  /\ Parts(f, vals) \in Seq(Scalar) /\ Tagged(f, Parts(f, vals)) \in Seq(S)
             /\ Codes(f, Parts(f, vals), u) \in Seq(Seq(Bytes))
  <2> DEFINE vs == Parts(f, vals)
  <2>1. /\ Len(vs) \in Nat /\ DOMAIN vs = 1..Len(vs) /\ vs \in Seq(Scalar)
        /\ \A k \in 1..Len(vs) : vs[k] \in Scalar /\ Carries(f.type, vs[k])
    <3>1. vs \in Seq(Scalar) /\ \A v \in Range(vs) : Carries(f.type, v)
      OBVIOUS
    <3> HIDE DEF vs
    <3>2. QED
      BY <3>1 DEF Range
  <2>2. f.tag \in 1..MaxTag /\ f.type \in validTypes
    BY SchemaFields
  <2> HIDE DEF vs
  <2>3. ASSUME NEW k \in 1..Len(vs)
        PROVE  /\ [tag |-> f.tag, type |-> f.type, val |-> vs[k]] \in S
               /\ EncodeField(f, vs[k], u) \in Seq(Bytes)
    <3> DEFINE a == [tag |-> f.tag, type |-> f.type, val |-> vs[k]]
    <3>1. /\ a \in [tag : 1..MaxTag, type : validTypes, val : Scalar]
          /\ a.tag = f.tag /\ a.type = f.type /\ a.val = vs[k]
      BY <2>1, <2>2
    <3> HIDE DEF a
    <3>2. IsField(a)
      BY <2>1, <2>2, <3>1 DEF IsField
    <3>3. a \in S
      BY <3>1, <3>2 DEF FieldsOf
    <3>4. EncodeField(f, vs[k], u) \in Seq(Bytes)
      BY <2>1, <2>2, CarriedIsEncodable, EncodeFieldType
    <3>5. QED
      BY <3>3, <3>4 DEF a
  <2> HIDE DEF S
  <2>4. Tagged(f, vs) \in [1..Len(vs) -> S]
    BY <2>1, <2>3 DEF Tagged
  <2>5. Codes(f, vs, u) \in [1..Len(vs) -> Seq(Bytes)]
    BY <2>1, <2>3 DEF Codes
  <2>6. Tagged(f, vs) \in Seq(S) /\ Codes(f, vs, u) \in Seq(Seq(Bytes))
    <3>1. ASSUME NEW m \in Nat, NEW T, NEW x \in [1..m -> T] PROVE x \in Seq(T)
      OBVIOUS
    <3>2. QED
      BY <2>1, <2>4, <2>5, <3>1
  <2>7. QED
    BY <2>1, <2>6 DEF vs
<1>4. all \in Seq(Seq(Bytes)) /\ Len(all) = n /\ \A j \in 1..n : all[j] = Code(s[j])
  <2>1. \A j \in 1..n : Code(s[j]) \in Seq(Bytes)
    BY <1>1, <1>3, FlattenType
  <2> HIDE DEF Code
  <2>2. all \in [1..n -> Seq(Bytes)]
    BY <2>1
  <2>3. QED
    BY <1>1, <2>2
<1> HIDE DEF all, n
<1>5. /\ Upto(all, 0) = <<>>
      /\ \A j \in 0..n : Upto(all, j) \in Seq(Bytes)
      /\ \A j \in 1..n : Upto(all, j) = Upto(all, j - 1) \o all[j]
      /\ FlattenSeq(all) = Upto(all, n)
  BY <1>4, UptoSteps
<1>6. \A a \in S : IsField(a)
  BY DEF FieldsOf
<1>7. 0 \in P
  <2> DEFINE none == <<>>
  <2>1. none \in Seq(S)
    OBVIOUS
  <2>2. Told(none, 0)
    BY LaidNothing
  <2>3. \E e : Laid(none, Upto(all, 0), u, e)
    BY <1>5, LaidNothing
  <2> HIDE DEF Told, S, none
  <2>4. QED
    BY <1>1, <2>1, <2>2, <2>3
<1>8. ASSUME NEW j \in 1..n, j - 1 \in P PROVE j \in P
  <2> DEFINE f == s[j]
             vs == Parts(f, vals)
             b == Upto(all, j - 1)
  <2>1. j - 1 \in 0..n /\ j \in 0..n /\ f \in Range(s)
    BY <1>1
  <2>2. PICK items \in Seq(S) : Told(items, j - 1) /\ \E e : Laid(items, b, u, e)
    BY <1>8
  <2>3. PICK e : Laid(items, b, u, e)
    BY <2>2
  <2>4. \A k \in 1..(j - 1) : s[k].tag # f.tag
    <3>1. s \in Schemas /\ j \in DOMAIN s
      BY <1>1
    <3>2. QED
      BY <3>1 DEF Schemas, NewSchema
  <2>5. Lacks(items, f)
    BY <2>2, <2>4 DEF Lacks
  <2>6. b \in Seq(Bytes) /\ Upto(all, j) = b \o FlattenSeq(Codes(f, vs, u))
    BY <1>4, <1>5, <2>1
  <2>7. vs \in Seq(Scalar) /\ Tagged(f, vs) \in Seq(S)
    BY <1>3, <2>1
  <2> HIDE DEF b, vs, f, S, Told
  <2>8. PICK items1 \in Seq(S) :
          /\ \E e1 : Laid(items1, b \o FlattenSeq(Codes(f, vs, u)), u, e1)
          /\ Gains(items, items1, f, vs)
    BY <1>6, <2>3, <2>5, <2>6, <2>7, LaidField
  <2>9. Told(items1, j)
    <3>1. ASSUME NEW g, NEW k \in 1..j, s[k].tag = g.tag
          PROVE  Whole(g, items1) = Tagged(s[k], Parts(s[k], vals))
      <4>1. CASE k = j
        <5>1. g.tag = f.tag /\ s[k] = f
          BY <3>1, <4>1 DEF f
        <5>2. QED
          BY <2>8, <5>1 DEF vs, Gains
      <4>2. CASE k \in 1..(j - 1)
        <5>1. g.tag # f.tag
          BY <2>4, <3>1, <4>2
        <5>2. Whole(g, items) = Tagged(s[k], Parts(s[k], vals))
          BY <2>2, <3>1, <4>2 DEF Told
        <5>3. QED
          BY <2>8, <5>1, <5>2 DEF Gains
      <4>3. k = j \/ k \in 1..(j - 1)
        BY <1>1
      <4>4. QED
        BY <4>1, <4>2, <4>3
    <3>2. ASSUME NEW g, \A k \in 1..j : s[k].tag # g.tag
          PROVE  Whole(g, items1) = <<>>
      <4>1. j \in 1..j /\ \A k \in 1..(j - 1) : k \in 1..j
        BY <1>1
      <4>2. g.tag # f.tag
        BY <3>2, <4>1 DEF f
      <4>3. Whole(g, items) = <<>>
        BY <2>2, <3>2, <4>1 DEF Told
      <4>4. QED
        BY <2>8, <4>2, <4>3 DEF Gains
    <3>3. QED
      BY <3>1, <3>2 DEF Told
  <2>10. \E e1 : Laid(items1, Upto(all, j), u, e1)
    BY <2>6, <2>8
  <2>11. QED
    BY <2>1, <2>8, <2>9, <2>10
<1>9. n \in P
  <2> HIDE DEF P
  <2>1. \A j \in 0..n : j \in P
    BY <1>1, <1>7, <1>8, IntervalInduction
  <2>2. QED
    BY <1>1, <2>1
<1> HIDE DEF S
<1>10. PICK items \in Seq(S) : Told(items, n) /\ \E e : Laid(items, Upto(all, n), u, e)
  BY <1>9
<1>11. Tells(s, vals, items)
  <2>1. ASSUME NEW f \in Range(s), NEW g, g.tag = f.tag
        PROVE  Whole(g, items) = Tagged(f, Parts(f, vals))
    <3>1. PICK j \in 1..n : f = s[j]
      BY <1>1
    <3>2. QED
      BY <1>10, <2>1, <3>1
  <2>2. ASSUME NEW g, ~HasTag(s, g.tag) PROVE Whole(g, items) = <<>>
    BY <1>1, <1>10, <2>2 DEF HasTag
  <2>3. QED
    BY <2>1, <2>2 DEF Tells
<1>12. QED
  BY <1>2, <1>5, <1>10, <1>11 DEF S

-----------------------------------------------------------------------------
(***************************************************************************)
(* Base64 text that was decoded is encoded again as it was ...             *)
(***************************************************************************)
LEMMA TextReadsBack ==
  ASSUME NEW text \in Seq(Bytes), IsBase64(text)
  PROVE  /\ EncodeToString(DecodeString(text)) = text
         /\ Len(DecodeString(text)) = Len(text) \div 2
<1> DEFINE n == Len(text) \div 2
           d == DecodeString(text)
           e == EncodeToString(d)
<1>1. n \in Nat /\ Len(text) = 2 * n
  BY DEF IsBase64
<1>2. /\ d \in Seq(Bytes) /\ Len(d) = n
      /\ \A k \in 1..n : d[k] = text[2 * k - 1] * Base + text[2 * k]
  <2>1. d \in Seq(Bytes)
    BY DecodeStringType
  <2>2. d = [k \in 1..n |-> text[2 * k - 1] * Base + text[2 * k]]
    BY DEF DecodeString
  <2> HIDE DEF d, n
  <2>3. Len(d) = n
    BY <1>1, <2>2
  <2>4. QED
    BY <2>1, <2>2, <2>3
<1> HIDE DEF d, n
<1>3. e = [k \in 1..(2 * n) |-> IF k % 2 = 1 THEN d[(k + 1) \div 2] \div Base
                                ELSE d[k \div 2] % Base]
  BY <1>2 DEF EncodeToString
<1> HIDE DEF e
<1>4. ASSUME NEW k \in 1..(2 * n) PROVE e[k] = text[k]
  <2>1. /\ Base \in Nat
        /\ \A m \in 1..(2 * n) : text[m] \in Nat /\ text[m] < IF m % 2 = 1 THEN 2 ELSE Base
    <3>1. \A m \in 1..(2 * n) : m \in DOMAIN text /\ text[m] \in Bytes
      BY <1>1
    <3>2. QED
      BY <3>1, CodecAssumption DEF IsBase64, Bytes
  <2>2. \A q \in Nat, r \in 0..(Base - 1) : (q * Base + r) \div Base = q /\ (q * Base + r) % Base = r
    <3> TAKE q \in Nat, r \in 0..(Base - 1)
    <3> DEFINE B == Base
               x == q * B + r
    <3>1. B \in Nat \ {0} /\ q * B \in Int /\ B * q = q * B
      BY CodecAssumption
    <3> HIDE DEF B
    <3>2. (B * q + r) % B = r
      BY <3>1, Remainder DEF B
    <3>3. x % B = r /\ x \in Int
      BY <3>1, <3>2 DEF B
    <3> HIDE DEF x
    <3>4. x \div B \in Int /\ x = B * (x \div B) + r
      BY <3>1, <3>3
    <3>5. B * (x \div B) = B * q
      BY <3>1, <3>4 DEF x, B
    <3> DEFINE y == x \div B
    <3>6. y \in Int /\ B * y = B * q
      BY <3>4, <3>5
    <3> HIDE DEF y
    <3>7. y = q
      BY <3>1, <3>6
    <3>8. x \div B = q
      BY <3>7 DEF y
    <3>9. QED
      BY <3>3, <3>8 DEF x, B
  <2>3. CASE k % 2 = 1
    <3> DEFINE m == (k + 1) \div 2
    <3>1. m \in 1..n /\ 2 * m - 1 = k /\ 2 * m \in 1..(2 * n) /\ (2 * m) % 2 # 1
      BY <1>1, <2>3
    <3> HIDE DEF m
    <3>2. text[k] \in Nat /\ text[2 * m] \in 0..(Base - 1)
      <4> DEFINE j == 2 * m
      <4>1. j \in 1..(2 * n) /\ j % 2 # 1
        BY <3>1
      <4> HIDE DEF j
      <4>2. text[j] \in Nat /\ text[j] < Base
        BY <2>1, <4>1
      <4>3. QED
        BY <2>1, <4>2 DEF j
    <3>3. d[m] = text[k] * Base + text[2 * m]
      BY <1>2, <3>1
    <3>4. d[m] \div Base = text[k]
      BY <2>2, <3>2, <3>3
    <3>5. QED
      BY <1>3, <2>3, <3>4 DEF m
  <2>4. CASE k % 2 # 1
    <3> DEFINE m == k \div 2
    <3>1. m \in 1..n /\ 2 * m = k /\ 2 * m - 1 \in 1..(2 * n)
      BY <1>1, <2>4
    <3> HIDE DEF m
    <3>2. text[2 * m - 1] \in Nat /\ text[k] \in 0..(Base - 1)
      <4>1. text[k] \in Nat /\ text[k] < Base
        BY <2>1, <2>4
      <4>2. text[2 * m - 1] \in Nat
        BY <2>1, <3>1
      <4>3. QED
        BY <2>1, <4>1, <4>2
    <3>3. d[m] = text[2 * m - 1] * Base + text[k]
      BY <1>2, <3>1
    <3>4. d[m] % Base = text[k]
      BY <2>2, <3>2, <3>3
    <3>5. QED
      BY <1>3, <2>4, <3>4 DEF m
  <2>5. QED
    BY <2>3, <2>4
<1>5. e = text
  <2>1. text = [k \in 1..(2 * n) |-> text[k]]
    BY <1>1
  <2>2. QED
    BY <1>3, <1>4, <2>1
<1>6. QED
  BY <1>2, <1>5 DEF e, d, n

(***************************************************************************)
(* ... and encoded bytes are base64 text.                                  *)
(***************************************************************************)
LEMMA BytesMakeText ==
  ASSUME NEW b \in Seq(Bytes)
  PROVE  IsBase64(EncodeToString(b)) /\ Len(EncodeToString(b)) = 2 * Len(b)
<1> DEFINE n == Len(b)
           e == EncodeToString(b)
<1>1. n \in Nat
  OBVIOUS
<1>2. e = [k \in 1..(2 * n) |-> IF k % 2 = 1 THEN b[(k + 1) \div 2] \div Base
                                ELSE b[k \div 2] % Base]
  BY DEF EncodeToString
<1>3. \A x \in Bytes : x \div Base < 2 /\ x % Base < Base
  <2> TAKE x \in Bytes
  <2>1. x \in Nat /\ x < 2 * Base
    BY CodecAssumption DEF Bytes
  <2>2. x % Base \in 0..(Base - 1) /\ x \div Base \in Int
        /\ x = (x % Base) + Base * (x \div Base)
    BY <2>1, CodecAssumption
  <2>3. x \div Base < 2
    <3>1. \A B \in Nat, q \in Int, r \in Nat : q >= 2 => B * q + r >= 2 * B
      OBVIOUS
    <3>2. Base \in Nat
      BY CodecAssumption
    <3>3. QED
      BY <2>1, <2>2, <3>1, <3>2
  <2>4. QED
    BY <2>2, <2>3, CodecAssumption
<1> HIDE DEF e
<1>4. ASSUME NEW k \in 1..(2 * n) PROVE e[k] < IF k % 2 = 1 THEN 2 ELSE Base
  <2>1. CASE k % 2 = 1
    <3>1. (k + 1) \div 2 \in 1..n
      BY <1>1, <2>1
    <3>2. b[(k + 1) \div 2] \in Bytes
      BY <3>1
    <3>3. QED
      BY <1>2, <1>3, <2>1, <3>2
  <2>2. CASE k % 2 # 1
    <3>1. k \div 2 \in 1..n
      BY <1>1, <2>2
    <3>2. b[k \div 2] \in Bytes
      BY <3>1
    <3>3. QED
      BY <1>2, <1>3, <2>2, <3>2
  <2>3. QED
    BY <2>1, <2>2
<1>5. DOMAIN e = 1..(2 * n) /\ Len(e) = 2 * n /\ (2 * n) % 2 = 0
  <2> DEFINE m == 2 * n
  <2>1. m \in Nat /\ m % 2 = 0
    BY <1>1
  <2>2. DOMAIN e = 1..m
    BY <1>2
  <2> HIDE DEF m
  <2>3. Len(e) = m
    BY <1>2, <2>1, <2>2
  <2>4. QED
    BY <2>1, <2>2, <2>3 DEF m
<1>6. IsBase64(e)
  BY <1>4, <1>5 DEF IsBase64
<1>7. QED
  BY <1>5, <1>6 DEF e

(***************************************************************************)
(* json.Marshal leaves valid text alone, and makes all text valid.         *)
(***************************************************************************)
LEMMA TextIsMadeValid ==
  ASSUME NEW t \in Seq(Bytes)
  PROVE  /\ (\A c \in Range(t) : c <= Base) => ToValidUTF8(t) = t
         /\ \A c \in Range(ToValidUTF8(t)) : c <= Base
         /\ Len(ToValidUTF8(t)) = Len(t)
<1> DEFINE n == Len(t)
           w == ToValidUTF8(t)
<1>1. n \in Nat /\ DOMAIN t = 1..n /\ t = [k \in 1..n |-> t[k]] /\ Base \in Nat
      /\ \A k \in 1..n : t[k] \in Nat
  BY Sizes
<1>2. w = [k \in 1..n |-> IF t[k] > Base THEN Base ELSE t[k]]
  BY <1>1 DEF ToValidUTF8
<1> HIDE DEF w, n
<1>3. Len(w) = n
  BY <1>1, <1>2
<1>4. (\A c \in Range(t) : c <= Base) => w = t
  <2>1. SUFFICES ASSUME \A c \in Range(t) : c <= Base PROVE w = t
    OBVIOUS
  <2>2. \A k \in 1..n : t[k] <= Base
    BY <1>1, <2>1 DEF Range
  <2>3. \A k \in 1..n : w[k] = t[k]
    BY <1>1, <1>2, <2>2
  <2>4. QED
    BY <1>1, <1>2, <2>3
<1>5. \A c \in Range(w) : c <= Base
  <2>1. \A k \in 1..n : w[k] <= Base
    BY <1>1, <1>2
  <2>2. DOMAIN w = 1..n
    BY <1>2
  <2>3. QED
    BY <2>1, <2>2 DEF Range
<1>6. QED
  BY <1>3, <1>4, <1>5 DEF w, n

(***************************************************************************)
(* A number that a float32 holds, a float64 holds as well.                 *)
(***************************************************************************)
LEMMA FloatIsFloat64 ==
  ASSUME NEW h \in Int, Float(Float32bits(h)) = [number |-> h]
  PROVE  h \in -(2 * Exact)..(2 * Exact)
<1>1. FixedPatterns \in Nat /\ Exact \in Nat /\ FixedPatterns <= 4 * Exact
  <2>1. FixedPatterns \in Nat
    <3>1. 2 * Base \in Nat \ {0} /\ FixedLen \in Nat
      BY CodecAssumption
    <3>2. QED
      BY <3>1, PowerPositive DEF FixedPatterns
  <2>2. QED
    BY <2>1, CodecAssumption, FloatAssumption
<1>2. Float32bits(h) # FixedPatterns \div 2
  <2>1. SUFFICES ASSUME Float32bits(h) = FixedPatterns \div 2 PROVE FALSE
    OBVIOUS
  <2>2. Float(Float32bits(h)) = [inf |-> TRUE]
    BY <2>1 DEF Float
  <2>3. "number" \notin DOMAIN [inf |-> TRUE] /\ "number" \in DOMAIN [number |-> h]
    OBVIOUS
  <2>4. QED
    BY <2>2, <2>3
<1>3. 2 * h \in (1 - FixedPatterns)..(FixedPatterns - 1)
  BY <1>2 DEF Float32bits
<1> DEFINE F == FixedPatterns
<1> HIDE DEF F
<1>4. F \in Nat /\ F <= 4 * Exact /\ 2 * h \in (1 - F)..(F - 1)
  BY <1>1, <1>3 DEF F
<1>5. QED
  BY <1>1, <1>4

(***************************************************************************)
(* What fits a field is translated to what its type can hold, and back to  *)
(* what it was ...                                                         *)
(***************************************************************************)
LEMMA FittingReadsBack ==
  ASSUME NEW typ \in validTypes, NEW v \in Scalar, Fits(typ, v)
  PROVE  /\ typ = "bytes" => "string" \in DOMAIN v /\ IsBase64(v.string)
         /\ jsonScalarToGo(typ, v) \in Scalar
         /\ Carries(typ, jsonScalarToGo(typ, v))
         /\ goScalarToJSON(typ, jsonScalarToGo(typ, v)) = v
<1> DEFINE x == jsonScalarToGo(typ, v)
<1>1. \A h \in -(2 * Exact)..(2 * Exact) : Float64(h) = h
  BY DEF Float64
<1>2. ASSUME typ # "bytes", "number" \in DOMAIN v, v.number \in -(2 * Exact)..(2 * Exact)
      PROVE  x = v /\ goScalarToJSON(typ, v) = v
  <2>1. v = [number |-> v.number]
    BY <1>2, KindsAre
  <2>2. x = [number |-> Float64(v.number)]
    BY <1>2 DEF jsonScalarToGo
  <2>3. "bytes" \notin DOMAIN v /\ "string" \notin DOMAIN v
    BY <2>1
  <2>4. goScalarToJSON(typ, v) = v
    BY <2>3 DEF goScalarToJSON
  <2> HIDE DEF x
  <2>5. QED
    BY <1>1, <1>2, <2>1, <2>2, <2>4
<1>3. CASE typ = "bool"
  <2>1. "bool" \in DOMAIN v
    BY <1>3 DEF Fits
  <2>2. v = [bool |-> v.bool]
    BY <2>1, KindsAre
  <2>3. "number" \notin DOMAIN v /\ "bytes" \notin DOMAIN v /\ "string" \notin DOMAIN v
    BY <2>2
  <2>4. x = v /\ goScalarToJSON(typ, v) = v
    BY <1>3, <2>3 DEF jsonScalarToGo, goScalarToJSON
  <2>5. Carries(typ, v)
    BY <1>3, <2>1 DEF Carries
  <2>6. QED
    BY <1>3, <2>4, <2>5
<1>4. CASE typ = "string"
  <2>1. "string" \in DOMAIN v /\ Len(v.string) < U64 /\ \A c \in Range(v.string) : c <= Base
    BY <1>4 DEF Fits
  <2>2. v = [string |-> v.string] /\ v.string \in Seq(Bytes)
    BY <2>1, Kinds, KindsAre
  <2>3. "number" \notin DOMAIN v /\ "bytes" \notin DOMAIN v
    BY <2>2
  <2>4. x = v /\ goScalarToJSON(typ, v) = [string |-> ToValidUTF8(v.string)]
    BY <1>4, <2>1, <2>3 DEF jsonScalarToGo, goScalarToJSON
  <2>5. ToValidUTF8(v.string) = v.string
    BY <2>1, <2>2, TextIsMadeValid
  <2>6. Carries(typ, v)
    BY <1>4, <2>1 DEF Carries
  <2>7. QED
    BY <1>4, <2>2, <2>4, <2>5, <2>6
<1>5. CASE typ = "bytes"
  <2> DEFINE t == v.string
             d == DecodeString(t)
  <2>1. "string" \in DOMAIN v /\ Len(t) < 2 * U64 /\ IsBase64(t)
    BY <1>5 DEF Fits
  <2>2. v = [string |-> t] /\ t \in Seq(Bytes)
    BY <2>1, Kinds, KindsAre
  <2>3. x = [bytes |-> d]
    BY <1>5 DEF jsonScalarToGo
  <2> HIDE DEF t
  <2>4. d \in Seq(Bytes) /\ Len(d) = Len(t) \div 2 /\ EncodeToString(d) = t
    BY <2>1, <2>2, TextReadsBack, DecodeStringType
  <2>5. Len(d) < U64
    <3>1. \A n, m \in Nat : n < 2 * m => n \div 2 < m
      OBVIOUS
    <3>2. Len(t) \in Nat /\ U64 \in Nat
      BY <2>2, CodecAssumption
    <3>3. QED
      BY <2>1, <2>4, <3>1, <3>2
  <2> HIDE DEF d, x
  <2>6. x \in Scalar
    BY <2>3, <2>4, KindsMade
  <2>7. Carries(typ, x)
    BY <1>5, <2>3, <2>5 DEF Carries
  <2>8. goScalarToJSON(typ, x) = [string |-> EncodeToString(d)]
    BY <2>3 DEF goScalarToJSON
  <2>9. QED
    BY <1>5, <2>1, <2>2, <2>4, <2>6, <2>7, <2>8 DEF x, t
<1>6. CASE typ = "float"
  <2>1. "number" \in DOMAIN v /\ Float(Float32bits(v.number)) = v
    BY <1>6 DEF Fits
  <2>2. v = [number |-> v.number] /\ v.number \in Int
    BY <2>1, Kinds, KindsAre
  <2>3. v.number \in -(2 * Exact)..(2 * Exact)
    BY <2>1, <2>2, FloatIsFloat64
  <2>4. Carries(typ, v)
    BY <1>6, <2>1 DEF Carries
  <2>5. QED
    BY <1>2, <1>6, <2>1, <2>3, <2>4
<1>7. CASE typ \notin {"bool", "string", "bytes", "float"}
  <2>1. /\ "number" \in DOMAIN v /\ v.number % 2 = 0
        /\ v.number \div 2 \in Ints(typ) \cap -Exact..Exact
    BY <1>7 DEF Fits
  <2>2. v.number \in Int /\ Exact \in Nat
    BY <2>1, Kinds, CodecAssumption
  <2>3. v.number \in -(2 * Exact)..(2 * Exact)
    BY <2>1, <2>2
  <2>4. Carries(typ, v)
    BY <1>7, <2>1 DEF Carries
  <2>5. QED
    BY <1>2, <1>7, <2>1, <2>3, <2>4
<1>8. QED
  BY <1>3, <1>4, <1>5, <1>6, <1>7

(***************************************************************************)
(* ... and what a field's type holds is translated to what fits the field, *)
(* except a number that a float64 does not hold.                           *)
(***************************************************************************)
LEMMA CarriedFits ==
  ASSUME NEW typ \in validTypes, NEW v \in Scalar, Carries(typ, v),
         LET x == goScalarToJSON(typ, v)
         IN  "number" \in DOMAIN x => x.number \in -(2 * Exact)..(2 * Exact)
  PROVE  Fits(typ, goScalarToJSON(typ, v))
<1> DEFINE x == goScalarToJSON(typ, v)
<1>1. CASE typ \notin {"string", "bytes"}
  <2>1. "bool" \in DOMAIN v \/ "number" \in DOMAIN v
    BY <1>1 DEF Carries
  <2>2. "bytes" \notin DOMAIN v /\ "string" \notin DOMAIN v
    <3>1. CASE "bool" \in DOMAIN v
      <4>1. v = [bool |-> v.bool]
        BY <3>1, KindsAre
      <4>2. QED
        BY <4>1
    <3>2. CASE "number" \in DOMAIN v
      <4>1. v = [number |-> v.number]
        BY <3>2, KindsAre
      <4>2. QED
        BY <4>1
    <3>3. QED
      BY <2>1, <3>1, <3>2
  <2>3. x = v
    BY <2>2 DEF goScalarToJSON
  <2> HIDE DEF x
  <2>4. CASE typ \in {"bool", "float"}
    BY <2>3, <2>4 DEF Carries, Fits, x
  <2>5. CASE typ \notin {"bool", "float"}
    <3>1. "number" \in DOMAIN v /\ v.number % 2 = 0 /\ v.number \div 2 \in Ints(typ)
      BY <1>1, <2>5 DEF Carries
    <3>2. v.number \in Int /\ Exact \in Nat /\ v.number \in -(2 * Exact)..(2 * Exact)
      BY <2>3, <3>1, Kinds, CodecAssumption DEF x
    <3>3. v.number \div 2 \in -Exact..Exact
      BY <3>2
    <3>4. Fits(typ, v)
      BY <1>1, <2>5, <3>1, <3>3 DEF Fits
    <3>5. QED
      BY <2>3, <3>4 DEF x
  <2>6. QED
    BY <2>4, <2>5
<1>2. CASE typ = "string"
  <2> DEFINE t == v.string
             w == ToValidUTF8(t)
  <2>1. "string" \in DOMAIN v /\ Len(t) < U64
    BY <1>2 DEF Carries
  <2>2. t \in Seq(Bytes) /\ "bytes" \notin DOMAIN v
    BY <2>1, Kinds
  <2>3. x = [string |-> w]
    BY <2>1, <2>2 DEF goScalarToJSON
  <2> HIDE DEF t
  <2>4. Len(w) = Len(t) /\ \A c \in Range(w) : c <= Base
    BY <2>2, TextIsMadeValid
  <2> HIDE DEF w, x
  <2>5. Fits(typ, x)
    BY <1>2, <2>1, <2>3, <2>4 DEF Fits
  <2>6. QED
    BY <2>5 DEF x
<1>3. CASE typ = "bytes"
  <2> DEFINE b == v.bytes
             w == EncodeToString(b)
  <2>1. "bytes" \in DOMAIN v /\ Len(b) < U64
    BY <1>3 DEF Carries
  <2>2. b \in Seq(Bytes) /\ U64 \in Nat /\ "string" \notin DOMAIN v
    BY <2>1, Kinds, CodecAssumption
  <2>3. x = [string |-> w]
    BY <2>1, <2>2 DEF goScalarToJSON
  <2> HIDE DEF b
  <2>4. IsBase64(w) /\ Len(w) = 2 * Len(b) /\ Len(b) \in Nat
    BY <2>2, BytesMakeText
  <2> HIDE DEF w, x
  <2>5. Len(w) < 2 * U64
    BY <2>1, <2>2, <2>4
  <2>6. Fits(typ, x)
    BY <1>3, <2>3, <2>4, <2>5 DEF Fits
  <2>7. QED
    BY <2>6 DEF x
<1>4. QED
  BY <1>1, <1>2, <1>3

-----------------------------------------------------------------------------
(***************************************************************************)
(* What a type can hold is not infinite, so json.Marshal takes it.         *)
(***************************************************************************)
LEMMA CarriedIsFinite ==
  ASSUME NEW typ \in validTypes, NEW v \in Scalar, Carries(typ, v)
  PROVE  "inf" \notin DOMAIN v
<1>1. \/ "bool" \in DOMAIN v \/ "string" \in DOMAIN v \/ "bytes" \in DOMAIN v
      \/ "number" \in DOMAIN v
  BY DEF Carries, validTypes
<1>2. QED
  BY <1>1, KindsAre

(***************************************************************************)
(* A JSON value that fits a field, element by element.                     *)
(***************************************************************************)
LEMMA FittingElements ==
  ASSUME NEW s \in Schemas, NEW f \in Range(s), NEW v \in Value,
         f.repeated => "array" \in DOMAIN v,
         \A x \in Range(Elements(f, v)) : Fits(f.type, x)
  PROVE  /\ Elements(f, v) \in Seq(Scalar)
         /\ f.repeated => v = [array |-> Elements(f, v)]
         /\ ~f.repeated => v \in Scalar /\ Elements(f, v) = <<v>>
<1>1. f.repeated \in BOOLEAN /\ f.type \in validTypes
  BY SchemaFields
<1>2. CASE f.repeated
  <2>1. v.array \in Seq(Scalar) /\ Elements(f, v) = v.array
    BY <1>2, Kinds DEF Elements
  <2>2. v \in [array : Seq(Scalar)]
    <3>1. v \notin Scalar
      BY <1>2, Kinds
    <3>2. QED
      BY <3>1 DEF Value
  <2>3. v = [array |-> v.array]
    BY <2>2
  <2>4. QED
    BY <1>2, <2>1, <2>3
<1>3. CASE ~f.repeated
  <2>1. Elements(f, v) = <<v>>
    BY <1>3 DEF Elements
  <2>2. v \in Range(<<v>>)
    BY DEF Range
  <2>3. Fits(f.type, v)
    BY <2>1, <2>2
  <2>4. "bool" \in DOMAIN v \/ "string" \in DOMAIN v \/ "number" \in DOMAIN v
    BY <1>1, <2>3 DEF Fits, validTypes
  <2>5. v \in Scalar
    BY <2>4, Kinds
  <2>6. QED
    BY <1>3, <2>1, <2>5
<1>4. QED
  BY <1>1, <1>2, <1>3

LEMMA FittingIsPrepared ==
  ASSUME NEW s \in Schemas, NEW f \in Range(s), NEW v \in Value,
         f.repeated => "array" \in DOMAIN v,
         \A x \in Range(Elements(f, v)) : Fits(f.type, x)
  PROVE  LET el == Elements(f, v)
             ps == Elements(f, jsonValueToGo(f, v))
         IN  /\ JsonAccepted(f, v)
             /\ f.repeated => "array" \in DOMAIN jsonValueToGo(f, v)
             /\ ps \in Seq(Scalar) /\ Len(ps) = Len(el)
             /\ \A k \in 1..Len(el) : /\ Carries(f.type, ps[k])
                                      /\ goScalarToJSON(f.type, ps[k]) = el[k]
<1> DEFINE el == Elements(f, v)
           ps == Elements(f, jsonValueToGo(f, v))
           n == Len(el)
<1>1. /\ el \in Seq(Scalar) /\ n \in Nat /\ DOMAIN el = 1..n
      /\ \A k \in 1..n : el[k] \in Scalar
      /\ f.repeated \in BOOLEAN /\ f.type \in validTypes
  BY FittingElements, SchemaFields
<1>2. \A k \in 1..n : Fits(f.type, el[k])
  <2>1. \A x \in Range(el) : Fits(f.type, x)
    OBVIOUS
  <2> HIDE DEF el
  <2>2. QED
    BY <1>1, <2>1 DEF Range
<1>3. ps = [k \in 1..n |-> jsonScalarToGo(f.type, el[k])]
  <2>1. CASE f.repeated
    <3>1. el = v.array
      BY <2>1 DEF Elements
    <3>2. ps = [k \in DOMAIN v.array |-> jsonScalarToGo(f.type, v.array[k])]
      BY <2>1 DEF Elements, jsonValueToGo
    <3> HIDE DEF el, ps
    <3>3. QED
      BY <1>1, <3>1, <3>2
  <2>2. CASE ~f.repeated
    <3>1. el = <<v>>
      BY <2>2 DEF Elements
    <3>2. ps = <<jsonScalarToGo(f.type, v)>>
      BY <2>2 DEF Elements, jsonValueToGo
    <3> HIDE DEF el, ps
    <3>3. n = 1 /\ el[1] = v
      BY <3>1
    <3> DEFINE y == jsonScalarToGo(f.type, v)
    <3>4. ps = <<y>>
      BY <3>2
    <3> HIDE DEF y
    <3>5. <<y>> = [k \in 1..1 |-> y]
      OBVIOUS
    <3>6. \A k \in 1..1 : jsonScalarToGo(f.type, el[k]) = y
      BY <3>3 DEF y
    <3>7. QED
      BY <3>3, <3>4, <3>5, <3>6
  <2>3. QED
    BY <1>1, <2>1, <2>2
<1>4. f.repeated => "array" \in DOMAIN jsonValueToGo(f, v)
  BY DEF jsonValueToGo
<1> HIDE DEF ps
<1>5. ASSUME NEW k \in 1..n
      PROVE  /\ f.type = "bytes" => "string" \in DOMAIN el[k] /\ IsBase64(el[k].string)
             /\ ps[k] \in Scalar /\ Carries(f.type, ps[k])
             /\ goScalarToJSON(f.type, ps[k]) = el[k]
  <2> HIDE DEF el, n
  <2>1. el[k] \in Scalar /\ Fits(f.type, el[k]) /\ f.type \in validTypes
    BY <1>1, <1>2
  <2>2. ps[k] = jsonScalarToGo(f.type, el[k])
    BY <1>3
  <2>3. QED
    BY <2>1, <2>2, FittingReadsBack
<1>6. JsonAccepted(f, v)
  <2>1. ASSUME f.type = "bytes", NEW x \in Range(el)
        PROVE  "string" \in DOMAIN x /\ IsBase64(x.string)
    <3> HIDE DEF el
    <3>1. PICK k \in 1..n : x = el[k]
      BY <1>1 DEF Range
    <3>2. QED
      BY <1>5, <2>1, <3>1
  <2>2. QED
    BY <2>1 DEF JsonAccepted
<1> HIDE DEF el, n
<1>7. ps \in Seq(Scalar) /\ Len(ps) = n
  <2>1. ps \in [1..n -> Scalar]
    BY <1>3, <1>5
  <2>2. QED
    BY <1>1, <2>1
<1>8. QED
  BY <1>4, <1>5, <1>6, <1>7 DEF ps, el, n

(***************************************************************************)
(* An object that fits a schema is accepted by JSONToProto, and every      *)
(* field of the schema is written with the elements the object has.        *)
(***************************************************************************)
LEMMA FittingObject ==
  ASSUME NEW s \in Schemas, NEW object, TypedObject(object), FitsSchema(object, s)
  PROVE  /\ TranslatesJSON(s, object)
         /\ \A f \in Range(s) :
              LET ps == Parts(f, Prepared(s, object))
                  el == Elements(f, object[f.name])
              IN  /\ ps \in Seq(Scalar)
                  /\ \A v \in Range(ps) : Carries(f.type, v)
                  /\ f.name \notin DOMAIN object => ps = <<>>
                  /\ f.name \in DOMAIN object =>
                       /\ Len(ps) = Len(el)
                       /\ el \in Seq(Scalar)
                       /\ \A k \in 1..Len(el) : goScalarToJSON(f.type, ps[k]) = el[k]
                       /\ f.repeated => object[f.name] = [array |-> el]
                       /\ ~f.repeated => el = <<object[f.name]>>
<1> DEFINE P == Prepared(s, object)
           Good(f) ==
             LET el == Elements(f, object[f.name])
                 ps == Elements(f, P[f.name])
             IN  /\ JsonAccepted(f, object[f.name])
                 /\ f.repeated => "array" \in DOMAIN P[f.name]
                 /\ ps \in Seq(Scalar) /\ Len(ps) = Len(el)
                 /\ \A k \in 1..Len(el) : /\ Carries(f.type, ps[k])
                                          /\ goScalarToJSON(f.type, ps[k]) = el[k]
                 /\ el \in Seq(Scalar)
                 /\ f.repeated => object[f.name] = [array |-> el]
                 /\ ~f.repeated => el = <<object[f.name]>>
<1>1. DOMAIN P = DOMAIN object
  BY DEF Prepared
<1>2. ASSUME NEW f \in Range(s), f.name \in DOMAIN object PROVE Good(f)
  <2> DEFINE v == object[f.name]
  <2>1. FieldNamed(s, f.name) = f
    BY SchemaFields
  <2>2. /\ v \in Value /\ (f.repeated => "array" \in DOMAIN v)
        /\ \A x \in Range(Elements(f, v)) : Fits(f.type, x)
    BY <1>2, <2>1 DEF TypedObject, FitsSchema
  <2>3. P[f.name] = jsonValueToGo(f, v)
    BY <1>2, <2>1 DEF Prepared
  <2> HIDE DEF v, P
  <2>4. LET el == Elements(f, v)
            ps == Elements(f, jsonValueToGo(f, v))
        IN  /\ JsonAccepted(f, v)
            /\ f.repeated => "array" \in DOMAIN jsonValueToGo(f, v)
            /\ ps \in Seq(Scalar) /\ Len(ps) = Len(el)
            /\ \A k \in 1..Len(el) : /\ Carries(f.type, ps[k])
                                     /\ goScalarToJSON(f.type, ps[k]) = el[k]
    BY <2>2, FittingIsPrepared
  <2>5. /\ Elements(f, v) \in Seq(Scalar)
        /\ f.repeated => v = [array |-> Elements(f, v)]
        /\ ~f.repeated => Elements(f, v) = <<v>>
    BY <2>2, FittingElements
  <2>6. QED
    BY <2>3, <2>4, <2>5 DEF v
<1>3. ASSUME NEW f \in Range(s), f.name \in DOMAIN object
      PROVE  \A x \in Range(Elements(f, P[f.name])) : Carries(f.type, x) /\ x \in Scalar
  <2> DEFINE ps == Elements(f, P[f.name])
  <2>1. /\ ps \in Seq(Scalar) /\ Len(ps) = Len(Elements(f, object[f.name]))
        /\ \A k \in 1..Len(Elements(f, object[f.name])) : Carries(f.type, ps[k])
    BY <1>2, <1>3
  <2> HIDE DEF ps
  <2>2. DOMAIN ps = 1..Len(ps) /\ \A k \in 1..Len(ps) : ps[k] \in Scalar /\ Carries(f.type, ps[k])
    BY <2>1
  <2>3. QED
    BY <2>2 DEF ps, Range
<1> HIDE DEF P
<1>4. TranslatesJSON(s, object)
  <2>1. ASSUME NEW name \in DOMAIN object
        PROVE  HasName(s, name) /\ JsonAccepted(FieldNamed(s, name), object[name])
    <3>1. HasName(s, name)
      BY DEF FitsSchema
    <3>2. FieldNamed(s, name) \in Range(s) /\ FieldNamed(s, name).name = name
      BY <3>1, SchemaFields
    <3>3. QED
      BY <1>2, <3>1, <3>2
  <2>2. ASSUME NEW f \in Range(s), f.name \in DOMAIN P
        PROVE  /\ f.repeated => "array" \in DOMAIN P[f.name]
               /\ \A v \in Range(Elements(f, P[f.name])) : Encodable(f.type, v)
    <3>1. f.name \in DOMAIN object /\ f.type \in validTypes
      BY <1>1, <2>2, SchemaFields
    <3>2. QED
      BY <1>2, <1>3, <3>1, CarriedIsEncodable
  <2>3. QED
    BY <2>1, <2>2 DEF TranslatesJSON, EncodesProto, P
<1>5. ASSUME NEW f \in Range(s)
      PROVE  LET ps == Parts(f, P)
                 el == Elements(f, object[f.name])
             IN  /\ ps \in Seq(Scalar)
                 /\ \A v \in Range(ps) : Carries(f.type, v)
                 /\ f.name \notin DOMAIN object => ps = <<>>
                 /\ f.name \in DOMAIN object =>
                      /\ Len(ps) = Len(el)
                      /\ el \in Seq(Scalar)
                      /\ \A k \in 1..Len(el) : goScalarToJSON(f.type, ps[k]) = el[k]
                      /\ f.repeated => object[f.name] = [array |-> el]
                      /\ ~f.repeated => el = <<object[f.name]>>
  <2>1. CASE f.name \in DOMAIN object
    <3>1. Parts(f, P) = Elements(f, P[f.name])
      BY <1>1, <2>1 DEF Parts
    <3>2. QED
      BY <1>2, <1>3, <2>1, <3>1
  <2>2. CASE f.name \notin DOMAIN object
    <3>1. Parts(f, P) = <<>>
      BY <1>1, <2>2 DEF Parts
    <3>2. <<>> \in Seq(Scalar) /\ Range(<<>>) = {}
      BY DEF Range
    <3>3. QED
      BY <2>2, <3>1, <3>2
  <2>3. QED
    BY <2>1, <2>2
<1>6. QED
  BY <1>4, <1>5 DEF P

(***************************************************************************)
(* What a reader with schema s understands of one of its fields, f, in the *)
(* body that a bridge with a compatible schema w made of an object: the    *)
(* object's value of the field with f's tag, if there is one.              *)
(***************************************************************************)
Kept(object, w, f) ==
  /\ HasTag(w, f.tag)
  /\ FieldTagged(w, f.tag).name \in DOMAIN object
  /\ f.repeated => object[FieldTagged(w, f.tag).name].array # <<>>

LEMMA FieldComesBack ==
  ASSUME NEW w \in Schemas, NEW s \in Schemas, Compatible(w, s),
         NEW object, TypedObject(object), FitsSchema(object, w),
         NEW items, Tells(w, Prepared(w, object), items),
         NEW f \in Range(s), NEW vs, Gathers(f, Whole(f, items), vs)
  PROVE  /\ f.name \in DOMAIN vs <=> Kept(object, w, f)
         /\ f.name \in DOMAIN vs =>
              /\ \A x \in Range(Elements(f, vs[f.name])) : "inf" \notin DOMAIN x
              /\ goValueToJSON(f, vs[f.name]) = object[FieldTagged(w, f.tag).name]
<1> DEFINE g == FieldTagged(w, f.tag)
           mine == Whole(f, items)
<1>1. f.repeated \in BOOLEAN /\ f.type \in validTypes
  BY SchemaFields
<1>2. CASE ~HasTag(w, f.tag)
  <2>1. mine = <<>>
    BY <1>2 DEF Tells
  <2>2. f.name \notin DOMAIN vs
    BY <2>1 DEF Gathers
  <2>3. QED
    BY <1>2, <2>2 DEF Kept
<1>3. CASE HasTag(w, f.tag)
  <2>1. g \in Range(w) /\ g.tag = f.tag
    BY <1>3, SchemaFields
  <2>2. g.type = f.type /\ g.repeated = f.repeated
    BY <2>1 DEF Compatible
  <2> DEFINE ps == Parts(g, Prepared(w, object))
             v == object[g.name]
             el == Elements(g, v)
             n == Len(el)
  <2> HIDE DEF g
  <2>3. mine = Tagged(g, ps)
    BY <2>1 DEF Tells
  <2>4. /\ ps \in Seq(Scalar)
        /\ \A x \in Range(ps) : Carries(f.type, x)
        /\ g.name \notin DOMAIN object => ps = <<>>
        /\ g.name \in DOMAIN object =>
             /\ Len(ps) = n
             /\ el \in Seq(Scalar)
             /\ \A k \in 1..n : goScalarToJSON(f.type, ps[k]) = el[k]
             /\ f.repeated => v = [array |-> el]
             /\ ~f.repeated => el = <<v>>
    BY <2>1, <2>2, FittingObject
  <2> HIDE DEF ps, v, el, n, mine
  <2>5. Len(ps) \in Nat /\ DOMAIN ps = 1..Len(ps) /\ \A k \in 1..Len(ps) : ps[k] \in Range(ps) /\ ps[k] \in Scalar
    BY <2>4 DEF Range
  <2>6. /\ DOMAIN mine = 1..Len(ps) /\ Len(mine) = Len(ps)
        /\ \A k \in 1..Len(ps) : mine[k] = [tag |-> g.tag, type |-> g.type, val |-> ps[k]]
        /\ Len(ps) = 0 => mine = <<>>
    BY <2>3, <2>5 DEF Tagged
  <2>7. Kept(object, w, f) <=>
          g.name \in DOMAIN object /\ (f.repeated => v.array # <<>>)
    BY <1>3 DEF Kept, g, v
  <2>8. CASE g.name \notin DOMAIN object \/ Len(ps) = 0
    <3>1. mine = <<>>
      <4>1. Len(ps) = 0
        BY <2>4, <2>8
      <4>2. QED
        BY <2>6, <4>1
    <3>2. f.name \notin DOMAIN vs
      BY <3>1 DEF Gathers, mine
    <3>3. ~Kept(object, w, f)
      <4>1. SUFFICES ASSUME g.name \in DOMAIN object, f.repeated => v.array # <<>>
                     PROVE  FALSE
        BY <2>7
      <4>2. Len(ps) = 0 /\ n = 0
        BY <2>4, <2>8, <4>1
      <4>3. el = <<>>
        BY <2>4, <4>1, <4>2 DEF n
      <4>4. f.repeated
        BY <1>1, <2>4, <4>1, <4>3
      <4>5. v.array = <<>>
        <5>1. v = [array |-> el]
          BY <2>4, <4>1, <4>4
        <5>2. QED
          BY <4>3, <5>1
      <4>6. QED
        BY <4>1, <4>4, <4>5
    <3>4. QED
      BY <3>2, <3>3
  <2>9. CASE g.name \in DOMAIN object /\ Len(ps) # 0
    <3>1. mine # <<>>
      BY <2>6, <2>9
    <3>2. \A a \in Range(mine) : a.type = f.type
      BY <2>2, <2>6 DEF Range
    <3>3. /\ f.name \in DOMAIN vs
          /\ vs[f.name] = IF f.repeated THEN [array |-> [k \in DOMAIN mine |-> mine[k].val]]
                          ELSE Last(mine).val
      BY <3>1, <3>2 DEF Gathers, mine
    <3>4. \A k \in 1..Len(ps) : mine[k].val = ps[k]
      BY <2>6
    <3>5. \A k \in 1..Len(ps) : "inf" \notin DOMAIN ps[k]
      BY <1>1, <2>4, <2>5, CarriedIsFinite
    <3>6. n = Len(ps)
      BY <2>4, <2>9
    <3>7. CASE f.repeated
      <4>1. [k \in DOMAIN mine |-> mine[k].val] = ps
        <5>1. ps = [k \in 1..Len(ps) |-> ps[k]]
          BY <2>4
        <5>2. QED
          BY <2>6, <3>4, <5>1
      <4>2. vs[f.name] = [array |-> ps]
        BY <3>3, <3>7, <4>1
      <4>3. Elements(f, vs[f.name]) = ps
        BY <3>7, <4>2 DEF Elements
      <4>4. \A x \in Range(ps) : "inf" \notin DOMAIN x
        BY <2>5, <3>5 DEF Range
      <4>5. goValueToJSON(f, vs[f.name]) =
              [array |-> [k \in DOMAIN ps |-> goScalarToJSON(f.type, ps[k])]]
        BY <3>7, <4>2 DEF goValueToJSON
      <4>6. [k \in DOMAIN ps |-> goScalarToJSON(f.type, ps[k])] = el
        <5>1. el = [k \in 1..n |-> el[k]]
          BY <2>4, <2>9 DEF n
        <5>2. \A k \in 1..n : goScalarToJSON(f.type, ps[k]) = el[k]
          BY <2>4, <2>9
        <5>3. DOMAIN ps = 1..n
          BY <2>5, <3>6
        <5>4. QED
          BY <5>1, <5>2, <5>3
      <4>7. v = [array |-> el] /\ v.array = el
        <5>1. v = [array |-> el]
          BY <2>4, <2>9, <3>7
        <5>2. QED
          BY <5>1
      <4>8. el # <<>>
        BY <2>9, <3>6 DEF n
      <4>9. QED
        BY <2>7, <2>9, <3>3, <4>3, <4>4, <4>5, <4>6, <4>7, <4>8 DEF v, g
    <3>8. CASE ~f.repeated
      <4>1. el = <<v>>
        BY <2>4, <2>9, <3>8
      <4>2. n = 1 /\ el[1] = v
        BY <4>1 DEF n
      <4>3. Len(ps) = 1 /\ Len(mine) = 1
        BY <2>6, <3>6, <4>2
      <4>4. Last(mine).val = ps[1]
        BY <3>4, <4>3 DEF Last
      <4>5. vs[f.name] = ps[1]
        BY <3>3, <3>8, <4>4
      <4>6. Elements(f, vs[f.name]) = <<ps[1]>>
        BY <3>8, <4>5 DEF Elements
      <4>7. \A x \in Range(<<ps[1]>>) : x = ps[1]
        BY DEF Range
      <4>8. goValueToJSON(f, vs[f.name]) = goScalarToJSON(f.type, ps[1])
        BY <3>8, <4>5 DEF goValueToJSON
      <4>9. goScalarToJSON(f.type, ps[1]) = v
        BY <2>4, <2>9, <4>2
      <4>10. "inf" \notin DOMAIN ps[1]
        BY <3>5, <4>3
      <4>11. QED
        BY <2>7, <2>9, <3>3, <3>8, <4>6, <4>7, <4>8, <4>9, <4>10 DEF v, g
    <3>9. QED
      BY <1>1, <3>7, <3>8
  <2>10. QED
    BY <2>8, <2>9
<1>4. QED
  BY <1>2, <1>3

(***************************************************************************)
(* So what it publishes is what the two schemas share of the object.       *)
(***************************************************************************)
LEMMA ObjectComesBack ==
  ASSUME NEW w \in Schemas, NEW s \in Schemas, Compatible(w, s),
         NEW object, TypedObject(object), FitsSchema(object, w),
         NEW items, Tells(w, Prepared(w, object), items),
         NEW vs, Understood(s, items, Len(items), vs),
         \A name \in DOMAIN vs : HasName(s, name)
  PROVE  Marshals(s, vs) /\ ProtoToJSON(s, vs) = Shared(object, w, s)
<1> DEFINE kept == {f \in Range(s) : Kept(object, w, f)}
           Theirs(name) == object[FieldTagged(w, FieldNamed(s, name).tag).name]
<1>1. Shared(object, w, s) = [name \in {f.name : f \in kept} |-> Theirs(name)]
  BY DEF Shared, Kept
<1>2. ASSUME NEW f \in Range(s)
      PROVE  /\ f.name \in DOMAIN vs <=> Kept(object, w, f)
             /\ f.name \in DOMAIN vs =>
                  /\ \A x \in Range(Elements(f, vs[f.name])) : "inf" \notin DOMAIN x
                  /\ goValueToJSON(f, vs[f.name]) = object[FieldTagged(w, f.tag).name]
  <2>1. Gathers(f, Whole(f, items), vs)
    BY DEF Understood, Whole
  <2>2. QED
    BY <2>1, FieldComesBack
<1>3. ASSUME NEW name \in DOMAIN vs
      PROVE  FieldNamed(s, name) \in Range(s) /\ FieldNamed(s, name).name = name
  BY SchemaFields
<1>4. Marshals(s, vs)
  BY <1>2, <1>3 DEF Marshals
<1>5. DOMAIN vs = {f.name : f \in kept}
  <2>1. ASSUME NEW name \in DOMAIN vs PROVE name \in {f.name : f \in kept}
    <3>1. Kept(object, w, FieldNamed(s, name))
      BY <1>2, <1>3
    <3>2. QED
      BY <1>3, <3>1
  <2>2. ASSUME NEW f \in kept PROVE f.name \in DOMAIN vs
    BY <1>2
  <2>3. QED
    BY <2>1, <2>2
<1>6. ASSUME NEW name \in DOMAIN vs
      PROVE  goValueToJSON(FieldNamed(s, name), vs[name]) = Theirs(name)
  BY <1>2, <1>3
<1> HIDE DEF Theirs, kept
<1>7. ProtoToJSON(s, vs) = Shared(object, w, s)
  BY <1>1, <1>5, <1>6 DEF ProtoToJSON
<1>8. QED
  BY <1>4, <1>7

-----------------------------------------------------------------------------
(***************************************************************************)
(* The invariant of a body that was translated from an object.  Decoding   *)
(* is at the beginning of one of the fields the object was written as, or  *)
(* at the end, and has understood those before.                            *)
(***************************************************************************)
DecodesAt(object, w, s, b, n, vs, items, u, e, m) ==
  /\ Laid(items, b, u, e) /\ n = e[m]
  /\ Tells(w, Prepared(w, object), items) /\ Understood(s, items, m, vs)

Decodes(object, w, s, b, n, vs) ==
  \E items \in Seq(FieldsOf(w)) : \E u \in 0..(U64 - 1) : \E e : \E m \in 0..Len(items) :
    DecodesAt(object, w, s, b, n, vs, items, u, e, m)

Travels == /\ origin # <<>> /\ FitsSchema(origin[1], origin[2])
           /\ Compatible(origin[2], schema)

RoundInv ==
  /\ at \in {"mqtt", "build", "foreign"} => origin = <<>>
  /\ at = "mqtt" => hops = 0
  /\ origin # <<>> => TypedObject(origin[1]) /\ origin[2] \in Schemas
  /\ at = "refused" => ~TranslatesJSON(IF hops = 0 THEN writer ELSE schema, json)
  /\ Travels =>
       /\ at # "failed"
       /\ at = "body" => Decodes(origin[1], origin[2], schema, body, i, values)
       /\ (at = "json" /\ hops > 0) => json = Shared(origin[1], origin[2], schema)

(***************************************************************************)
(* At the end of a laid out body there is no field left.                   *)
(***************************************************************************)
LEMMA EndRead ==
  ASSUME NEW items, Len(items) \in Nat, NEW b, Len(b) \in Nat, NEW u, NEW e,
         Laid(items, b, u, e), NEW m \in 0..Len(items), e[m] = Len(b)
  PROVE  m = Len(items)
<1> DEFINE n == Len(items)
<1>1. e[n] = Len(b) /\ \A j, k \in 0..n : j < k => e[j] < e[k]
  BY DEF Laid
<1>2. n \in 0..n /\ m \in 0..n /\ n \in Nat
  OBVIOUS
<1> HIDE DEF n
<1>3. ~(m < n)
  BY <1>1, <1>2
<1>4. m = n
  BY <1>2, <1>3
<1>5. QED
  BY <1>4 DEF n

(***************************************************************************)
(* JSONToProto's body is about to be decoded.                              *)
(***************************************************************************)
LEMMA TranslationDecodes ==
  ASSUME NEW w \in Schemas, NEW s, NEW object, TypedObject(object),
         FitsSchema(object, w), NEW u \in 0..(U64 - 1)
  PROVE  Decodes(object, w, s, JSONToProto(w, object, u), 0, NoObject)
<1> DEFINE P == Prepared(w, object)
           b == EncodeProto(w, P, u)
<1>1. \A f \in Range(w) : /\ Parts(f, P) \in Seq(Scalar)
                          /\ \A v \in Range(Parts(f, P)) : Carries(f.type, v)
  BY FittingObject
<1>2. PICK items \in Seq(FieldsOf(w)) : Tells(w, P, items) /\ \E e : Laid(items, b, u, e)
  BY <1>1, LaidSchema
<1>3. PICK e : Laid(items, b, u, e)
  BY <1>2
<1>4. 0 = e[0] /\ 0 \in 0..Len(items)
  BY <1>3 DEF Laid
<1>5. Understood(s, items, 0, NoObject)
  BY NothingYet
<1>6. JSONToProto(w, object, u) = b
  BY DEF JSONToProto
<1> HIDE DEF b, P
<1>7. QED
  BY <1>2, <1>3, <1>4, <1>5, <1>6 DEF Decodes, DecodesAt, P

(***************************************************************************)
(* A turn of the loop never fails and decodes on.                          *)
(***************************************************************************)
LEMMA TurnDecodes ==
  ASSUME TypeOK, Travels, origin[2] \in Schemas, DecodeField,
         Decodes(origin[1], origin[2], schema, body, i, values)
  PROVE  at' = "body" /\ Decodes(origin[1], origin[2], schema, body, i', values')
<1> DEFINE w == origin[2]
           S == FieldsOf(w)
<1>1. PICK items \in Seq(S) : \E u \in 0..(U64 - 1) : \E e : \E m \in 0..Len(items) :
        DecodesAt(origin[1], w, schema, body, i, values, items, u, e, m)
  BY DEF Decodes
<1>2. PICK u \in 0..(U64 - 1) : \E e : \E m \in 0..Len(items) :
        DecodesAt(origin[1], w, schema, body, i, values, items, u, e, m)
  BY <1>1
<1>3. PICK e : \E m \in 0..Len(items) : DecodesAt(origin[1], w, schema, body, i, values, items, u, e, m)
  BY <1>2
<1>4. PICK m \in 0..Len(items) : DecodesAt(origin[1], w, schema, body, i, values, items, u, e, m)
  BY <1>3
<1>5. \A a \in Range(items) : /\ IsField(a)
                              /\ \E f \in Range(w) : a.tag = f.tag /\ a.type = f.type
  <2>1. \A a \in S : IsField(a) /\ \E f \in Range(w) : a.tag = f.tag /\ a.type = f.type
    BY DEF FieldsOf
  <2> HIDE DEF S
  <2>2. QED
    BY <2>1 DEF Range
<1> HIDE DEF S
<1>6. \A k \in 1..Len(items) : IsField(items[k])
  BY <1>5 DEF Range
<1>7. \/ /\ at' = "failed"
         /\ \E a \in Range(items), f \in Range(schema) : a.tag = f.tag /\ a.type # f.type
      \/ /\ at' = "body" /\ m + 1 \in 0..Len(items) /\ i' = e[m + 1]
         /\ Understood(schema, items, m + 1, values')
  BY <1>4, <1>6, TurnUnderstands DEF DecodesAt
<1>8. ~\E a \in Range(items), f \in Range(schema) : a.tag = f.tag /\ a.type # f.type
  <2>1. SUFFICES ASSUME NEW a \in Range(items), NEW f \in Range(schema), a.tag = f.tag
                 PROVE  a.type = f.type
    OBVIOUS
  <2>2. PICK g \in Range(w) : a.tag = g.tag /\ a.type = g.type
    BY <1>5
  <2>3. g.type = f.type
    BY <2>1, <2>2 DEF Travels, Compatible
  <2>4. QED
    BY <2>2, <2>3
<1>9. /\ at' = "body" /\ m + 1 \in 0..Len(items) /\ i' = e[m + 1]
      /\ Understood(schema, items, m + 1, values')
  BY <1>7, <1>8
<1>10. Decodes(origin[1], w, schema, body, i', values')
  BY <1>4, <1>9 DEF Decodes, DecodesAt, S
<1>11. QED
  BY <1>9, <1>10

(***************************************************************************)
(* What has been decoded at the end is what the schemas share.             *)
(***************************************************************************)
LEMMA EndDecodes ==
  ASSUME TypeOK, Travels, TypedObject(origin[1]), origin[2] \in Schemas,
         i = Len(body), Decodes(origin[1], origin[2], schema, body, i, values)
  PROVE  /\ Marshals(schema, values)
         /\ ProtoToJSON(schema, values) = Shared(origin[1], origin[2], schema)
<1> DEFINE w == origin[2]
           S == FieldsOf(w)
           object == origin[1]
<1>1. PICK items \in Seq(S) : \E u \in 0..(U64 - 1) : \E e : \E m \in 0..Len(items) :
        DecodesAt(object, w, schema, body, i, values, items, u, e, m)
  BY DEF Decodes
<1>2. PICK u \in 0..(U64 - 1) : \E e : \E m \in 0..Len(items) :
        DecodesAt(object, w, schema, body, i, values, items, u, e, m)
  BY <1>1
<1>3. PICK e : \E m \in 0..Len(items) : DecodesAt(object, w, schema, body, i, values, items, u, e, m)
  BY <1>2
<1>4. PICK m \in 0..Len(items) : DecodesAt(object, w, schema, body, i, values, items, u, e, m)
  BY <1>3
<1>5. schema \in Schemas /\ \A name \in DOMAIN values : HasName(schema, name)
  BY DEF TypeOK
<1>6. Len(items) \in Nat /\ Len(body) \in Nat
  <2>1. body \in Seq(Bytes)
    BY DEF TypeOK
  <2> HIDE DEF S
  <2>2. QED
    BY <2>1
<1>7. m = Len(items)
  BY <1>4, <1>6, EndRead DEF DecodesAt
<1> HIDE DEF S, w, object
<1>8. /\ w \in Schemas /\ TypedObject(object) /\ FitsSchema(object, w)
      /\ Compatible(w, schema)
  BY DEF Travels, w, object
<1>9. Understood(schema, items, Len(items), values) /\ Tells(w, Prepared(w, object), items)
  BY <1>4, <1>7 DEF DecodesAt
<1>10. Marshals(schema, values) /\ ProtoToJSON(schema, values) = Shared(object, w, schema)
  BY <1>5, <1>8, <1>9, ObjectComesBack
<1>11. QED
  BY <1>10 DEF w, object

(***************************************************************************)
(* One step per action.                                                    *)
(***************************************************************************)
LEMMA RoundInit == Init => RoundInv
<1> SUFFICES ASSUME Init PROVE RoundInv
  OBVIOUS
<1>1. origin = <<>> /\ hops = 0 /\ at \in {"mqtt", "build", "foreign"}
  BY DEF Init
<1>2. ~Travels
  BY <1>1 DEF Travels
<1>3. QED
  BY <1>1, <1>2 DEF RoundInv

LEMMA RoundStep == TypeInv /\ RoundInv /\ [Next]_vars => RoundInv'
<1> SUFFICES ASSUME TypeInv, RoundInv, [Next]_vars PROVE RoundInv'
  OBVIOUS
<1>1. TypeOK /\ writer \in Schemas /\ schema \in Schemas /\ TypedObject(json)
  BY DEF TypeInv, TypeOK
<1>2. schema' = schema /\ writer' = writer
  BY DEF Next, Arrive, Publish, DecodeField, Emit, Translate, Add, vars
<1>3. origin' = origin => (Travels' <=> Travels)
  BY <1>2 DEF Travels
<1>4. CASE Arrive
  <2>1. /\ origin = <<>> /\ origin' = origin /\ at' \in {"json", "body"} /\ hops' = hops
    BY <1>4 DEF Arrive, RoundInv
  <2>2. ~Travels'
    BY <1>3, <2>1 DEF Travels
  <2>3. QED
    BY <2>1, <2>2 DEF RoundInv
<1>5. CASE Publish
  <2>1. origin = <<>> /\ origin' = origin /\ at' = "body"
    BY <1>5 DEF Publish, RoundInv
  <2>2. ~Travels'
    BY <1>3, <2>1 DEF Travels
  <2>3. QED
    BY <2>1, <2>2 DEF RoundInv
<1>6. ASSUME NEW a \in Additions, Add(a) PROVE RoundInv'
  <2>1. origin = <<>> /\ origin' = origin /\ at' = "build"
    BY <1>6 DEF Add, RoundInv
  <2>2. ~Travels'
    BY <1>3, <2>1 DEF Travels
  <2>3. QED
    BY <2>1, <2>2 DEF RoundInv
<1>7. ASSUME NEW u \in OutOfRange, Translate(u) PROVE RoundInv'
  <2> DEFINE s == IF hops = 0 THEN writer ELSE schema
  <2>1. at = "json" /\ UNCHANGED <<writer, schema, json, hops>>
    BY <1>7 DEF Translate
  <2>2. CASE ~TranslatesJSON(s, json)
    <3>1. at' = "refused" /\ origin' = origin
      BY <1>7, <2>2 DEF Translate
    <3>2. ~TranslatesJSON(IF hops' = 0 THEN writer' ELSE schema', json')
      BY <2>1, <2>2
    <3>3. origin' # <<>> => TypedObject(origin'[1]) /\ origin'[2] \in Schemas
      BY <3>1 DEF RoundInv
    <3>4. QED
      BY <3>1, <3>2, <3>3 DEF RoundInv
  <2>3. CASE TranslatesJSON(s, json)
    <3> HIDE DEF s
    <3>1. /\ at' = "body" /\ i' = 0 /\ values' = NoObject /\ origin' = <<json, s>>
          /\ body' = JSONToProto(s, json, u)
      BY <1>7, <2>3 DEF Translate, s
    <3>2. s \in Schemas /\ u \in 0..(U64 - 1)
      BY <1>1, CodecAssumption DEF s
    <3>3. origin'[1] = json /\ origin'[2] = s
      BY <3>1
    <3>4. TypedObject(origin'[1]) /\ origin'[2] \in Schemas
      BY <1>1, <3>2, <3>3
    <3>5. ASSUME Travels'
          PROVE  Decodes(origin'[1], origin'[2], schema', body', i', values')
      <4>1. FitsSchema(json, s)
        BY <3>3, <3>5 DEF Travels
      <4>2. Decodes(json, s, schema, JSONToProto(s, json, u), 0, NoObject)
        BY <1>1, <3>2, <4>1, TranslationDecodes
      <4>3. QED
        BY <1>2, <3>1, <3>3, <4>2
    <3>6. QED
      BY <3>1, <3>4, <3>5 DEF RoundInv
  <2>4. QED
    BY <2>2, <2>3
<1>8. CASE DecodeField
  <2>1. /\ at = "body" /\ UNCHANGED <<body, origin, hops, json>>
        /\ at' \in {"body", "failed"}
    BY <1>8 DEF DecodeField
  <2>2. origin' # <<>> => TypedObject(origin'[1]) /\ origin'[2] \in Schemas
    BY <2>1 DEF RoundInv
  <2>3. ASSUME Travels'
        PROVE  at' = "body" /\ Decodes(origin'[1], origin'[2], schema', body', i', values')
    <3>1. Travels /\ origin # <<>>
      BY <1>3, <2>1, <2>3 DEF Travels
    <3>2. /\ origin[2] \in Schemas
          /\ Decodes(origin[1], origin[2], schema, body, i, values)
      BY <2>1, <3>1 DEF RoundInv
    <3>3. at' = "body" /\ Decodes(origin[1], origin[2], schema, body, i', values')
      BY <1>1, <1>8, <3>1, <3>2, TurnDecodes
    <3>4. QED
      BY <1>2, <2>1, <3>3
  <2>4. QED
    BY <2>1, <2>2, <2>3 DEF RoundInv
<1>9. CASE Emit
  <2>1. /\ at = "body" /\ i = Len(body) /\ origin' = origin
        /\ \/ /\ at' = "json" /\ json' = ProtoToJSON(schema, values)
           \/ at' = "failed" /\ ~Marshals(schema, values)
    BY <1>1, <1>9 DEF Emit, TypeOK
  <2>2. origin' # <<>> => TypedObject(origin'[1]) /\ origin'[2] \in Schemas
    BY <2>1 DEF RoundInv
  <2>3. ASSUME Travels'
        PROVE  at' = "json" /\ json' = Shared(origin'[1], origin'[2], schema')
    <3>1. Travels /\ origin # <<>>
      BY <1>3, <2>1, <2>3 DEF Travels
    <3>2. /\ TypedObject(origin[1]) /\ origin[2] \in Schemas
          /\ Decodes(origin[1], origin[2], schema, body, i, values)
      BY <2>1, <3>1 DEF RoundInv
    <3>3. /\ Marshals(schema, values)
          /\ ProtoToJSON(schema, values) = Shared(origin[1], origin[2], schema)
      BY <1>1, <2>1, <3>1, <3>2, EndDecodes
    <3>4. QED
      BY <1>2, <2>1, <3>3
  <2>4. QED
    BY <2>1, <2>2, <2>3 DEF RoundInv
<1>10. CASE UNCHANGED vars
  <2>1. UNCHANGED <<at, writer, schema, json, body, i, values, hops, origin>>
    BY <1>10 DEF vars
  <2>2. QED
    BY <1>3, <2>1 DEF RoundInv
<1>11. QED
  BY <1>4, <1>5, <1>6, <1>7, <1>8, <1>9, <1>10 DEF Next

(***************************************************************************)
(* JSONToProto, DecodeProto and ProtoToJSON together: an object that fits  *)
(* its schema is never refused, a bridge with a compatible schema never    *)
(* fails on it, and gets back exactly the values of the fields the schemas *)
(* share.                                                                  *)
(***************************************************************************)
THEOREM RoundTripAlways == Spec => []RoundTrip
<1>1. TypeInv /\ RoundInv => RoundTrip
  <2> SUFFICES ASSUME TypeInv, RoundInv PROVE RoundTrip
    OBVIOUS
  <2> DEFINE s == IF hops = 0 THEN writer ELSE schema
  <2>1. s \in Schemas /\ TypedObject(json)
    BY DEF TypeInv, TypeOK
  <2>2. at = "refused" => ~TranslatesJSON(s, json)
    BY DEF RoundInv
  <2> HIDE DEF s
  <2>3. at = "refused" => ~FitsSchema(json, s)
    BY <2>1, <2>2, FittingObject
  <2>4. Travels => /\ at # "failed"
                   /\ (at = "json" /\ hops > 0) =>
                        json = Shared(origin[1], origin[2], schema)
    BY DEF RoundInv
  <2>5. QED
    BY <2>3, <2>4 DEF RoundTrip, Travels, s
<1>2. Init => TypeInv /\ RoundInv
  BY TypeInit, RoundInit
<1>3. TypeInv /\ RoundInv /\ [Next]_vars => TypeInv' /\ RoundInv'
  BY TypeStep, RoundStep
<1>4. QED
  BY <1>1, <1>2, <1>3, PTL DEF Spec
-----------------------------------------------------------------------------
(***************************************************************************)
(* Four bytes are a number below the number of their patterns.             *)
(***************************************************************************)
LEMMA Uint32Below ==
  ASSUME NEW bytes, \A j \in 1..FixedLen : bytes[j] \in Bytes
  PROVE  Uint32(bytes) \in 0..(FixedPatterns - 1)
<1> DEFINE B == 2 * Base
           power == PowerUpto(B, FixedLen)
           sum == Uint32Sum(bytes)
           D == {k \in 0..FixedLen : sum[k] \in 0..(power[k] - 1)}
<1>1. B \in Nat /\ FixedLen \in Nat /\ Base \in Nat
  BY CodecAssumption
<1>2. /\ power \in [0..FixedLen -> Nat] /\ power[0] = 1
      /\ \A k \in 1..FixedLen : power[k] = B * power[k - 1]
  <2> HIDE DEF B
  <2>1. QED
    BY <1>1, PowerUptoSteps
<1>3. /\ sum \in [0..FixedLen -> Nat] /\ sum[0] = 0
      /\ \A k \in 1..FixedLen : sum[k] = bytes[FixedLen + 1 - k] + B * sum[k - 1]
  BY Uint32Sums
<1>4. Uint32(bytes) = sum[FixedLen] /\ FixedPatterns = power[FixedLen]
  BY DEF Uint32, Uint32Sum, FixedPatterns, Power, PowerUpto
<1> HIDE DEF power, sum
<1>5. 0 \in D
  BY <1>1, <1>2, <1>3
<1>6. ASSUME NEW k \in 1..FixedLen, k - 1 \in D PROVE k \in D
  <2>1. bytes[FixedLen + 1 - k] \in 0..(B - 1)
    BY <1>1 DEF Bytes
  <2> DEFINE x == bytes[FixedLen + 1 - k]
             y == sum[k - 1]
             p == power[k - 1]
  <2>2. k - 1 \in 0..FixedLen /\ k \in 0..FixedLen /\ p \in Nat /\ y \in 0..(p - 1)
    BY <1>1, <1>2, <1>6
  <2>3. sum[k] = x + B * y /\ power[k] = B * p
    BY <1>2, <1>3
  <2> HIDE DEF x, y, p, B
  <2>4. x \in 0..(B - 1)
    BY <2>1 DEF x
  <2>5. B * y + B <= B * p /\ B * y \in Nat
    <3>1. y \in Nat /\ p - (y + 1) \in Nat
      BY <2>2
    <3>2. B * (p - (y + 1)) \in Nat /\ B * y \in Nat /\ B * p \in Nat
      BY <1>1, <2>2, <3>1
    <3>3. B * (p - (y + 1)) = B * p - (B * y + B)
      BY <1>1, <2>2, <3>1
    <3>4. QED
      BY <1>1, <3>2, <3>3
  <2>6. x + B * y \in 0..(B * p - 1)
    <3>1. B * p \in Int
      BY <1>1, <2>2
    <3>2. QED
      BY <1>1, <2>4, <2>5, <3>1
  <2>7. QED
    BY <2>2, <2>3, <2>6
<1>7. \A k \in 0..FixedLen : k \in D
  <2> HIDE DEF D, B
  <2>1. QED
    BY <1>1, <1>5, <1>6, IntervalInduction
<1>8. QED
  BY <1>1, <1>4, <1>7

(***************************************************************************)
(* A float32 that is read is one, or it is the infinity.                   *)
(***************************************************************************)
LEMMA FloatIsCarried ==
  ASSUME NEW bits \in 0..(FixedPatterns - 1)
  PROVE  Carries("float", Float(bits)) \/ "inf" \in DOMAIN Float(bits)
<1> DEFINE F == FixedPatterns
           h == Signed(bits, F)
<1>1. F \in Nat \ {0} /\ F % 2 = 0
  <2>1. 2 * Base \in Nat /\ FixedLen - 1 \in Nat /\ Base \in Nat
    BY CodecAssumption
  <2>2. Power(2 * Base, FixedLen - 1) \in Nat /\ F = (2 * Base) * Power(2 * Base, FixedLen - 1)
    <3> DEFINE n == FixedLen - 1
    <3>1. n \in Nat /\ n + 1 = FixedLen
      BY <2>1, CodecAssumption
    <3> HIDE DEF n
    <3>2. Power(2 * Base, n) \in Nat /\ Power(2 * Base, n + 1) = (2 * Base) * Power(2 * Base, n)
      BY <2>1, <3>1, PowerSteps
    <3>3. QED
      BY <3>1, <3>2 DEF FixedPatterns, n
  <2> DEFINE p == Power(2 * Base, FixedLen - 1)
  <2> HIDE DEF p
  <2>3. p \in Nat /\ F = (2 * Base) * p
    BY <2>2 DEF p
  <2>4. Base * p \in Nat /\ F = 2 * (Base * p)
    BY <2>1, <2>3
  <2>5. F \in Nat /\ F # 0 /\ F % 2 = 0
    BY <2>4
  <2>6. QED
    BY <2>5
<1>2. CASE bits = F \div 2
  BY <1>2 DEF Float
<1>3. CASE bits # F \div 2
  <2>1. Float(bits) = [number |-> h]
    BY <1>3 DEF Float
  <2> HIDE DEF F
  <2>2. bits \in 0..(F - 1) /\ bits \in Nat
    BY DEF F
  <2>3. 2 * h \in (1 - F)..(F - 1) /\ h \in Int
    BY <1>1, <1>3, <2>2 DEF Signed
  <2>4. h % F = bits
    <3>1. CASE bits < F \div 2
      <4>1. h = bits
        BY <3>1 DEF Signed
      <4>2. QED
        BY <1>1, <2>2, <4>1
    <3>2. CASE ~(bits < F \div 2)
      <4>1. h = F * (-1) + bits
        BY <1>1, <2>2, <3>2 DEF Signed
      <4>2. (F * (-1) + bits) % F = bits
        BY <1>1, <2>2, Remainder
      <4>3. QED
        BY <4>1, <4>2
    <3>3. QED
      BY <3>1, <3>2
  <2> HIDE DEF h
  <2>5. Float32bits(h) = bits
    BY <2>3, <2>4 DEF Float32bits, F
  <2>6. Carries("float", Float(bits))
    <3>1. Carries("float", Float(bits)) <=>
            /\ "number" \in DOMAIN Float(bits)
            /\ Float(Float32bits(Float(bits).number)) = Float(bits)
      BY DEF Carries
    <3>2. Float(bits).number = h /\ "number" \in DOMAIN Float(bits)
      BY <2>1
    <3>3. QED
      BY <2>5, <3>1, <3>2
  <2>7. QED
    BY <2>6
<1>4. QED
  BY <1>2, <1>3

(***************************************************************************)
(* A varint that is read is of its type's range, whatever it is.           *)
(***************************************************************************)
LEMMA VarintIsCarried ==
  ASSUME NEW typ \in validTypes \ {"float", "string", "bytes"},
         NEW v \in 0..(U64 - 1)
  PROVE  Carries(typ, FromVarint(typ, v))
<1>1. /\ U32 \in Nat \ {0} /\ U64 \in Nat \ {0} /\ U32 % 2 = 0 /\ U64 % 2 = 0
      /\ v % U32 \in 0..(U32 - 1)
  <2>1. U32 \in Nat \ {0} /\ U64 \in Nat \ {0} /\ U32 % 8 = 0 /\ U64 % U32 = 0
    BY CodecAssumption
  <2>2. U32 = 2 * (U32 \div 2)
    BY <2>1
  <2>3. U64 = U32 * (U64 \div U32) /\ U64 \div U32 \in Nat
    BY <2>1
  <2> DEFINE m == U64 \div U32
             n == U32 \div 2
  <2>4. m \in Nat /\ n \in Nat /\ U32 = 2 * n /\ U64 = (2 * n) * m
    BY <2>1, <2>2, <2>3
  <2> HIDE DEF m, n
  <2>5. U64 = 2 * (n * m) /\ n * m \in Nat
    BY <2>4
  <2>6. QED
    BY <2>1, <2>5
<1>2. ASSUME NEW U \in Nat \ {0}, U % 2 = 0, NEW x \in 0..(U - 1)
      PROVE  /\ Signed(x, U) \in -(U \div 2)..((U \div 2) - 1)
             /\ unzigzag(x, U) \in -(U \div 2)..((U \div 2) - 1)
  <2>1. \A y \in 0..(U - 1) : Signed(y, U) \in -(U \div 2)..((U \div 2) - 1)
    BY <1>2 DEF Signed
  <2>2. x \div 2 \in 0..(U - 1) /\ (U - 1) - (x \div 2) \in 0..(U - 1)
    OBVIOUS
  <2>3. QED
    BY <2>1, <2>2 DEF unzigzag
<1>3. ASSUME NEW n \in Ints(typ), Ints(typ) \subseteq Int, typ # "bool"
      PROVE  Carries(typ, Number(n))
  <2>1. n \in Int /\ (2 * n) % 2 = 0 /\ (2 * n) \div 2 = n
    BY <1>3
  <2>2. Carries(typ, Number(n)) <=> /\ "number" \in DOMAIN Number(n)
                                   /\ Number(n).number % 2 = 0
                                   /\ Number(n).number \div 2 \in Ints(typ)
    BY <1>3 DEF Carries, validTypes
  <2>3. "number" \in DOMAIN Number(n) /\ Number(n).number = 2 * n
    BY DEF Number
  <2>4. QED
    BY <2>1, <2>2, <2>3
<1>4. CASE typ = "bool"
  BY <1>4 DEF FromVarint, Carries
<1>5. CASE typ = "int32"
  <2>1. FromVarint(typ, v) = Number(Signed(v % U32, U32))
    BY <1>5 DEF FromVarint
  <2>2. Ints(typ) = -(U32 \div 2)..((U32 \div 2) - 1)
    BY <1>5 DEF Ints
  <2>3. Ints(typ) \subseteq Int
    BY <1>1, <2>2
  <2>4. Signed(v % U32, U32) \in Ints(typ)
    BY <1>1, <1>2, <2>2
  <2>5. QED
    BY <1>3, <1>5, <2>1, <2>3, <2>4
<1>6. CASE typ = "int64"
  <2>1. FromVarint(typ, v) = Number(Signed(v, U64))
    BY <1>6 DEF FromVarint
  <2>2. Ints(typ) = -(U64 \div 2)..((U64 \div 2) - 1)
    BY <1>6 DEF Ints
  <2>3. Ints(typ) \subseteq Int
    BY <1>1, <2>2
  <2>4. Signed(v, U64) \in Ints(typ)
    BY <1>1, <1>2, <2>2
  <2>5. QED
    BY <1>3, <1>6, <2>1, <2>3, <2>4
<1>7. CASE typ = "uint32"
  <2>1. FromVarint(typ, v) = Number(v % U32)
    BY <1>7 DEF FromVarint
  <2>2. Ints(typ) = 0..(U32 - 1)
    BY <1>7 DEF Ints
  <2>3. Ints(typ) \subseteq Int
    BY <1>1, <2>2
  <2>4. v % U32 \in Ints(typ)
    BY <1>1, <2>2
  <2>5. QED
    BY <1>3, <1>7, <2>1, <2>3, <2>4
<1>8. CASE typ = "uint64"
  <2>1. FromVarint(typ, v) = Number(v)
    BY <1>8 DEF FromVarint
  <2>2. Ints(typ) = 0..(U64 - 1)
    BY <1>8 DEF Ints
  <2>3. Ints(typ) \subseteq Int
    BY <1>1, <2>2
  <2>4. v \in Ints(typ)
    BY <2>2
  <2>5. QED
    BY <1>3, <1>8, <2>1, <2>3, <2>4
<1>9. CASE typ = "sint32"
  <2>1. FromVarint(typ, v) = Number(unzigzag(v % U32, U32))
    BY <1>9 DEF FromVarint
  <2>2. Ints(typ) = -(U32 \div 2)..((U32 \div 2) - 1)
    BY <1>9 DEF Ints
  <2>3. Ints(typ) \subseteq Int
    BY <1>1, <2>2
  <2>4. unzigzag(v % U32, U32) \in Ints(typ)
    BY <1>1, <1>2, <2>2
  <2>5. QED
    BY <1>3, <1>9, <2>1, <2>3, <2>4
<1>10. CASE typ = "sint64"
  <2>1. FromVarint(typ, v) = Number(unzigzag(v, U64))
    BY <1>10 DEF FromVarint
  <2>2. Ints(typ) = -(U64 \div 2)..((U64 \div 2) - 1)
    BY <1>10 DEF Ints
  <2>3. Ints(typ) \subseteq Int
    BY <1>1, <2>2
  <2>4. unzigzag(v, U64) \in Ints(typ)
    BY <1>1, <1>2, <2>2
  <2>5. QED
    BY <1>3, <1>10, <2>1, <2>3, <2>4
<1>11. QED
  BY <1>4, <1>5, <1>6, <1>7, <1>8, <1>9, <1>10 DEF validTypes

(***************************************************************************)
(* What decodeValue answers is something its type carries, or infinity.    *)
(***************************************************************************)
LEMMA DecodedIsCarried ==
  ASSUME NEW data \in Seq(Bytes), NEW typ \in validTypes, NEW wt,
         decodeValue(data, typ, wt).ok
  PROVE  LET v == decodeValue(data, typ, wt).val
         IN  Carries(typ, v) \/ "inf" \in DOMAIN v
<1> DEFINE r == skipField(data, wt)
           val == CASE typ = "float" -> Float(Uint32(SubSeq(data, 1, FixedLen)))
                    [] typ \in {"string", "bytes"} ->
                         FromBytes(typ, SubSeq(data, r.from, r.n))
                    [] OTHER -> FromVarint(typ, r.val)
<1>1. decodeValue(data, typ, wt) = IF wt # wireTypeFor(typ) \/ ~r.ok THEN Failed
                                   ELSE [ok |-> TRUE, n |-> r.n, val |-> val]
  BY DEF decodeValue
<1>2. /\ wt = wireVarint => r = readVarint(data)
      /\ wt = wireLen => r = readLength(data)
      /\ (wt = wireFixed32 /\ r.ok) => FixedLen \in 0..Len(data)
  BY SkipFieldType
<1>3. wt = wireTypeFor(typ) /\ r.ok
  BY <1>1 DEF Failed
<1> HIDE DEF r
<1>4. decodeValue(data, typ, wt).val = val
  BY <1>1, <1>3
<1>5. CASE typ = "float"
  <2>1. val = Float(Uint32(SubSeq(data, 1, FixedLen)))
    BY <1>5
  <2>2. FixedLen \in 0..Len(data) /\ FixedLen \in Nat
    BY <1>2, <1>3, <1>5, CodecAssumption DEF wireTypeFor
  <2>3. \A j \in 1..FixedLen : SubSeq(data, 1, FixedLen)[j] \in Bytes
    <3>1. \A j \in 1..FixedLen : data[j] \in Bytes /\ 1 + j - 1 = j
      BY <2>2
    <3>2. /\ SubSeq(data, 1, FixedLen) \in Seq(Bytes)
          /\ \A j \in 1..(FixedLen - 1 + 1) : SubSeq(data, 1, FixedLen)[j] = data[1 + j - 1]
      BY <2>2, <3>1, SubSeqProperties
    <3>3. FixedLen - 1 + 1 = FixedLen
      BY <2>2
    <3>4. QED
      BY <3>1, <3>2, <3>3
  <2>4. Uint32(SubSeq(data, 1, FixedLen)) \in 0..(FixedPatterns - 1)
    BY <2>3, Uint32Below
  <2>5. Carries("float", val) \/ "inf" \in DOMAIN val
    BY <2>1, <2>4, FloatIsCarried
  <2> HIDE DEF val
  <2>6. QED
    BY <1>4, <1>5, <2>5
<1>6. CASE typ \in {"string", "bytes"}
  <2> DEFINE t == readVarint(data)
             s == SubSeq(data, r.from, r.n)
  <2>1. val = FromBytes(typ, s)
    BY <1>6
  <2>2. r = readLength(data)
    BY <1>2, <1>3, <1>6 DEF wireTypeFor
  <2>3. /\ t.ok /\ t.val <= Len(data) - t.n
        /\ r.n = t.n + t.val /\ r.from = t.n + 1
    BY <1>3, <2>2 DEF readLength, Failed
  <2>4. t.n \in 1..Len(data) /\ t.val \in 0..(U64 - 1)
    BY <2>3, ReadVarintType
  <2> HIDE DEF t
  <2>5. s \in Seq(Bytes) /\ Len(s) = t.val
    <3>1. /\ Len(data) \in Nat /\ r.from \in 1..Len(data) + 1 /\ r.n \in 1..Len(data)
          /\ U64 \in Nat
      BY <2>3, <2>4, Sizes
    <3>2. \A j \in r.from..r.n : data[j] \in Bytes
      BY <3>1
    <3>3. s \in Seq(Bytes)
      BY <1>3, <2>2, ReadLengthType
    <3>4. Len(s) = IF r.from <= r.n THEN r.n - r.from + 1 ELSE 0
      BY <3>1, <3>2, SubSeqProperties
    <3>5. /\ t.n \in Nat /\ t.val \in Nat /\ r.n = t.n + t.val /\ r.from = t.n + 1
      BY <2>3, <2>4, <3>1
    <3>6. (IF r.from <= r.n THEN r.n - r.from + 1 ELSE 0) = t.val
      BY <3>5
    <3> HIDE DEF s, val
    <3>7. QED
      BY <3>3, <3>4, <3>6
  <2> HIDE DEF s
  <2>6. Len(s) < U64
    BY <2>4, <2>5, Sizes
  <2>7. CASE typ = "string"
    <3>1. val = [string |-> s]
      BY <2>1, <2>7 DEF FromBytes
    <3>2. Carries(typ, val) <=> typ \in DOMAIN val /\ Len(val[typ]) < U64
      BY <2>7 DEF Carries
    <3> HIDE DEF val
    <3>3. typ \in DOMAIN val /\ val[typ] = s
      BY <2>7, <3>1
    <3>4. QED
      BY <1>4, <2>6, <3>2, <3>3
  <2>8. CASE typ = "bytes"
    <3>1. val = [bytes |-> s]
      BY <2>1, <2>8 DEF FromBytes
    <3>2. Carries(typ, val) <=> typ \in DOMAIN val /\ Len(val[typ]) < U64
      BY <2>8 DEF Carries
    <3> HIDE DEF val
    <3>3. typ \in DOMAIN val /\ val[typ] = s
      BY <2>8, <3>1
    <3>4. QED
      BY <1>4, <2>6, <3>2, <3>3
  <2>9. QED
    BY <1>6, <2>7, <2>8
<1>7. CASE typ \notin {"float", "string", "bytes"}
  <2>1. val = FromVarint(typ, r.val)
    BY <1>7
  <2>2. r = readVarint(data)
    BY <1>2, <1>3, <1>7 DEF wireTypeFor
  <2>3. r.val \in 0..(U64 - 1)
    BY <1>3, <2>2, ReadVarintType
  <2>4. Carries(typ, FromVarint(typ, r.val))
    BY <1>7, <2>3, VarintIsCarried
  <2> HIDE DEF val
  <2>5. QED
    BY <1>4, <2>1, <2>4
<1>8. QED
  BY <1>5, <1>6, <1>7

-----------------------------------------------------------------------------
(***************************************************************************)
(* What DecodeProto has collected for a field, whatever the body: values   *)
(* of its type or infinities, and no empty list.                           *)
(***************************************************************************)
CollectedIn(f, v) ==
  /\ f.repeated => v.array # <<>>
  /\ \A x \in Range(Elements(f, v)) : Carries(f.type, x) \/ "inf" \in DOMAIN x

Collected(s, vs) ==
  \A name \in DOMAIN vs : CollectedIn(FieldNamed(s, name), vs[name])

(***************************************************************************)
(* One more value does not change that.                                    *)
(***************************************************************************)
LEMMA SetCollects ==
  ASSUME TypeOK, Collected(schema, values), NEW f \in Range(schema), NEW v \in Scalar,
         Carries(f.type, v) \/ "inf" \in DOMAIN v
  PROVE  Collected(schema, Set(f, v))
<1>1. /\ schema \in Schemas /\ TypedObject(values)
      /\ \A name \in DOMAIN values :
           FieldNamed(schema, name).repeated => "array" \in DOMAIN values[name]
  BY DEF TypeOK
<1>2. FieldNamed(schema, f.name) = f /\ f.repeated \in BOOLEAN
  BY <1>1, SchemaFields
<1>3. DOMAIN Set(f, v) = DOMAIN values \cup {f.name}
  BY DEF Set
<1>4. ASSUME NEW name \in DOMAIN values, name # f.name
      PROVE  CollectedIn(FieldNamed(schema, name), Set(f, v)[name])
  <2>1. Set(f, v)[name] = values[name]
    BY <1>4 DEF Set
  <2>2. QED
    BY <2>1 DEF Collected
<1>5. CollectedIn(f, Set(f, v)[f.name])
  <2>1. CASE ~f.repeated
    <3>1. Set(f, v)[f.name] = v
      BY <2>1 DEF Set
    <3>2. Elements(f, v) = <<v>>
      BY <2>1 DEF Elements
    <3>3. Range(<<v>>) = {v}
      BY DEF Range
    <3>4. QED
      BY <2>1, <3>1, <3>2, <3>3 DEF CollectedIn
  <2>2. CASE f.repeated /\ f.name \notin DOMAIN values
    <3>1. Set(f, v)[f.name] = [array |-> <<v>>]
      BY <2>2 DEF Set
    <3>2. Elements(f, [array |-> <<v>>]) = <<v>> /\ <<v>> # <<>>
      BY <2>2 DEF Elements
    <3>3. Range(<<v>>) = {v}
      BY DEF Range
    <3>4. QED
      BY <3>1, <3>2, <3>3 DEF CollectedIn
  <2>3. CASE f.repeated /\ f.name \in DOMAIN values
    <3> DEFINE a == values[f.name].array
    <3>1. Set(f, v)[f.name] = [array |-> Append(a, v)]
      BY <2>3 DEF Set
    <3>2. a \in Seq(Scalar)
      BY <1>1, <1>2, <2>3, Kinds DEF TypedObject
    <3>3. CollectedIn(f, values[f.name])
      BY <1>2, <2>3 DEF Collected
    <3>4. Elements(f, values[f.name]) = a /\ Elements(f, [array |-> Append(a, v)]) = Append(a, v)
      BY <2>3 DEF Elements
    <3>5. \A x \in Range(a) : Carries(f.type, x) \/ "inf" \in DOMAIN x
      BY <3>3, <3>4 DEF CollectedIn
    <3> HIDE DEF a
    <3>6. Append(a, v) # <<>> /\ \A x \in Range(Append(a, v)) : x \in Range(a) \/ x = v
      <4>1. /\ Append(a, v) \in Seq(Scalar) /\ Len(Append(a, v)) = Len(a) + 1
            /\ Append(a, v)[Len(a) + 1] = v /\ Len(a) \in Nat
            /\ \A j \in 1..Len(a) : Append(a, v)[j] = a[j]
        BY <3>2, AppendProperties
      <4>2. Append(a, v) # <<>>
        BY <4>1
      <4>3. ASSUME NEW x \in Range(Append(a, v)) PROVE x \in Range(a) \/ x = v
        <5>1. PICK j \in 1..(Len(a) + 1) : x = Append(a, v)[j]
          BY <4>1 DEF Range
        <5>2. j = Len(a) + 1 \/ j \in 1..Len(a)
          BY <4>1
        <5>3. DOMAIN a = 1..Len(a)
          BY <3>2
        <5>4. QED
          BY <4>1, <5>1, <5>2, <5>3 DEF Range
      <4>4. QED
        BY <4>2, <4>3
    <3> DEFINE c == Append(a, v)
    <3> HIDE DEF c
    <3>7. c # <<>> /\ \A x \in Range(c) : x \in Range(a) \/ x = v
      BY <3>6 DEF c
    <3>8. Set(f, v)[f.name] = [array |-> c] /\ Elements(f, [array |-> c]) = c
      BY <3>1, <3>4 DEF c
    <3>9. QED
      BY <3>5, <3>7, <3>8 DEF CollectedIn
  <2>4. QED
    BY <1>2, <2>1, <2>2, <2>3
<1>6. QED
  BY <1>2, <1>3, <1>4, <1>5 DEF Collected

(***************************************************************************)
(* An object that the bridge emitted: values that fit their fields, unless *)
(* they are numbers beyond Exact, and no empty list.                       *)
(***************************************************************************)
SettledIn(f, v) ==
  /\ f.repeated => "array" \in DOMAIN v /\ v.array # <<>>
  /\ \A x \in Range(Elements(f, v)) :
       ("number" \in DOMAIN x => x.number \in -(2 * Exact)..(2 * Exact))
         => Fits(f.type, x)

Settled(s, object) ==
  /\ object = [name \in DOMAIN object |-> object[name]]
  /\ \A name \in DOMAIN object :
       HasName(s, name) /\ SettledIn(FieldNamed(s, name), object[name])

(***************************************************************************)
(* Whatever was collected without an infinity settles a field.             *)
(***************************************************************************)
LEMMA CollectedSettles ==
  ASSUME NEW s \in Schemas, NEW f \in Range(s), NEW v \in Value,
         f.repeated => "array" \in DOMAIN v, CollectedIn(f, v),
         \A x \in Range(Elements(f, v)) : "inf" \notin DOMAIN x
  PROVE  SettledIn(f, goValueToJSON(f, v))
<1>1. f.type \in validTypes /\ f.repeated \in BOOLEAN
  BY SchemaFields
<1>2. ASSUME NEW x \in Scalar, x \in Range(Elements(f, v)),
             LET y == goScalarToJSON(f.type, x)
             IN  "number" \in DOMAIN y => y.number \in -(2 * Exact)..(2 * Exact)
      PROVE  Fits(f.type, goScalarToJSON(f.type, x))
  <2>1. Carries(f.type, x)
    BY <1>2 DEF CollectedIn
  <2>2. QED
    BY <1>1, <1>2, <2>1, CarriedFits
<1>3. CASE ~f.repeated
  <2>1. v \in Scalar \/ "array" \in DOMAIN v
    BY Kinds
  <2>2. Elements(f, v) = <<v>> /\ Range(<<v>>) = {v}
    BY <1>3 DEF Elements, Range
  <2>3. "array" \notin DOMAIN v
    <3>1. Carries(f.type, v)
      BY <2>2 DEF CollectedIn
    <3>2. \/ "bool" \in DOMAIN v \/ "string" \in DOMAIN v \/ "bytes" \in DOMAIN v
          \/ "number" \in DOMAIN v
      BY <1>1, <3>1 DEF Carries, validTypes
    <3>3. QED
      BY <3>2, Kinds
  <2>4. goValueToJSON(f, v) = goScalarToJSON(f.type, v)
    BY <1>3 DEF goValueToJSON
  <2> DEFINE y == goScalarToJSON(f.type, v)
  <2>5. ("number" \in DOMAIN y => y.number \in -(2 * Exact)..(2 * Exact)) => Fits(f.type, y)
    BY <1>2, <2>1, <2>2, <2>3
  <2> HIDE DEF y
  <2>6. Elements(f, y) = <<y>> /\ Range(<<y>>) = {y}
    BY <1>3 DEF Elements, Range
  <2>7. SettledIn(f, y)
    BY <1>3, <2>5, <2>6 DEF SettledIn
  <2>8. QED
    BY <2>4, <2>7 DEF y
<1>4. CASE f.repeated
  <2> DEFINE a == v.array
             b == [k \in DOMAIN a |-> goScalarToJSON(f.type, a[k])]
  <2>1. a \in Seq(Scalar) /\ Elements(f, v) = a /\ a # <<>>
    BY <1>4, Kinds DEF Elements, CollectedIn
  <2>2. goValueToJSON(f, v) = [array |-> b]
    BY <1>4 DEF goValueToJSON
  <2> HIDE DEF a
  <2>3. DOMAIN a = 1..Len(a) /\ Len(a) \in Nat /\ Len(a) # 0 /\ \A k \in 1..Len(a) : a[k] \in Scalar
    BY <2>1
  <2>4. b # <<>>
    <3>1. DOMAIN b = 1..Len(a) /\ 1 \in 1..Len(a)
      BY <2>3
    <3> HIDE DEF b
    <3>2. QED
      BY <3>1
  <2>5. ASSUME NEW y \in Range(b),
               "number" \in DOMAIN y => y.number \in -(2 * Exact)..(2 * Exact)
        PROVE  Fits(f.type, y)
    <3>1. PICK k \in 1..Len(a) : y = goScalarToJSON(f.type, a[k])
      BY <2>3 DEF Range
    <3>2. a[k] \in Scalar /\ a[k] \in Range(Elements(f, v))
      BY <2>1, <2>3 DEF Range
    <3>3. QED
      BY <1>2, <2>5, <3>1, <3>2
  <2> HIDE DEF b
  <2> DEFINE y == [array |-> b]
  <2>6. "array" \in DOMAIN y /\ y.array = b /\ Elements(f, y) = b
    BY <1>4 DEF Elements
  <2> HIDE DEF y
  <2>7. SettledIn(f, y)
    BY <2>4, <2>5, <2>6 DEF SettledIn
  <2>8. QED
    BY <2>2, <2>7 DEF y
<1>5. QED
  BY <1>1, <1>3, <1>4

(***************************************************************************)
(* What ProtoToJSON emits is settled.                                      *)
(***************************************************************************)
LEMMA EmittedIsSettled ==
  ASSUME TypeOK, Collected(schema, values), Marshals(schema, values)
  PROVE  Settled(schema, ProtoToJSON(schema, values))
<1> DEFINE object == ProtoToJSON(schema, values)
<1>1. /\ schema \in Schemas /\ TypedObject(values)
      /\ \A name \in DOMAIN values :
           /\ HasName(schema, name)
           /\ FieldNamed(schema, name).repeated => "array" \in DOMAIN values[name]
  BY DEF TypeOK
<1>2. object = [name \in DOMAIN values |->
                  goValueToJSON(FieldNamed(schema, name), values[name])]
  BY DEF ProtoToJSON
<1> HIDE DEF object
<1>3. /\ DOMAIN object = DOMAIN values
      /\ object = [name \in DOMAIN object |-> object[name]]
      /\ \A name \in DOMAIN values :
           object[name] = goValueToJSON(FieldNamed(schema, name), values[name])
  BY <1>2
<1>4. ASSUME NEW name \in DOMAIN values
      PROVE  SettledIn(FieldNamed(schema, name), object[name])
  <2> DEFINE f == FieldNamed(schema, name)
             v == values[name]
  <2>1. f \in Range(schema)
    BY <1>1, SchemaFields
  <2>2. v \in Value /\ (f.repeated => "array" \in DOMAIN v)
    BY <1>1 DEF TypedObject
  <2>3. CollectedIn(f, v)
    BY DEF Collected
  <2>4. \A x \in Range(Elements(f, v)) : "inf" \notin DOMAIN x
    BY DEF Marshals
  <2>5. object[name] = goValueToJSON(f, v)
    BY <1>3
  <2> HIDE DEF f, v
  <2>6. SettledIn(f, goValueToJSON(f, v))
    BY <1>1, <2>1, <2>2, <2>3, <2>4, CollectedSettles
  <2>7. QED
    BY <2>5, <2>6 DEF f
<1>5. Settled(schema, object)
  BY <1>1, <1>3, <1>4 DEF Settled
<1>6. QED
  BY <1>5 DEF object

(***************************************************************************)
(* A settled object without numbers beyond Exact fits its schema.          *)
(***************************************************************************)
LEMMA SettledFits ==
  ASSUME NEW object, Settled(schema, object), Small(object)
  PROVE  FitsSchema(object, schema)
<1>1. ASSUME NEW name \in DOMAIN object
      PROVE  /\ HasName(schema, name)
             /\ FieldNamed(schema, name).repeated => "array" \in DOMAIN object[name]
             /\ \A x \in Range(Elements(FieldNamed(schema, name), object[name])) :
                  Fits(FieldNamed(schema, name).type, x)
  BY DEF Settled, SettledIn, Small
<1>2. QED
  BY <1>1 DEF FitsSchema

(***************************************************************************)
(* A schema is compatible with itself, and shares all of a settled object. *)
(***************************************************************************)
LEMMA SharedWithItself ==
  ASSUME NEW s \in Schemas, NEW object, Settled(s, object)
  PROVE  Compatible(s, s) /\ Shared(object, s, s) = object
<1>1. \A f \in Range(s) : /\ FieldTagged(s, f.tag) = f /\ FieldNamed(s, f.name) = f
                          /\ HasTag(s, f.tag)
  BY SchemaFields DEF HasTag
<1>2. \A name \in DOMAIN object :
        /\ FieldNamed(s, name) \in Range(s) /\ FieldNamed(s, name).name = name
        /\ SettledIn(FieldNamed(s, name), object[name])
  BY SchemaFields DEF Settled
<1>3. Compatible(s, s)
  <2>1. ASSUME NEW f \in Range(s), NEW g \in Range(s), f.tag = g.tag PROVE f = g
    BY <1>1, <2>1
  <2>2. QED
    BY <2>1 DEF Compatible
<1> DEFINE kept == {f \in Range(s) :
                      /\ HasTag(s, f.tag)
                      /\ FieldTagged(s, f.tag).name \in DOMAIN object
                      /\ f.repeated =>
                           object[FieldTagged(s, f.tag).name].array # <<>>}
           Own(name) == object[FieldTagged(s, FieldNamed(s, name).tag).name]
<1>4. Shared(object, s, s) = [name \in {f.name : f \in kept} |-> Own(name)]
  BY DEF Shared
<1>5. {f.name : f \in kept} = DOMAIN object
  <2>1. ASSUME NEW f \in kept PROVE f.name \in DOMAIN object
    BY <1>1
  <2>2. ASSUME NEW name \in DOMAIN object PROVE FieldNamed(s, name) \in kept
    BY <1>1, <1>2 DEF SettledIn
  <2> HIDE DEF kept
  <2>3. QED
    BY <1>2, <2>1, <2>2
<1>6. \A name \in DOMAIN object : Own(name) = object[name]
  BY <1>1, <1>2
<1> HIDE DEF kept, Own
<1>7. Shared(object, s, s) = object
  BY <1>4, <1>5, <1>6 DEF Settled
<1>8. QED
  BY <1>3, <1>7

-----------------------------------------------------------------------------
(***************************************************************************)
(* The invariant of what a bridge makes of its own output.  The object it  *)
(* holds is settled, and so is the one its body was translated from.       *)
(***************************************************************************)
Returned == (hops > 0 /\ at = "body") \/ hops > 1

StableInv ==
  /\ at \in {"mqtt", "build", "foreign"} => hops = 0
  /\ Collected(schema, values)
  /\ (at \in {"json", "refused"} /\ hops > 0) => Settled(schema, json)
  /\ Returned => /\ origin # <<>> /\ origin[2] = schema
                 /\ Settled(schema, origin[1])

(***************************************************************************)
(* Initially nothing has been decoded.                                     *)
(***************************************************************************)
LEMMA NothingCollected ==
  ASSUME NEW s PROVE Collected(s, NoObject)
<1>1. DOMAIN NoObject = {}
  BY DEF NoObject
<1>2. QED
  BY <1>1 DEF Collected

LEMMA StableInit == Init => StableInv
<1> SUFFICES ASSUME Init PROVE StableInv
  OBVIOUS
<1>1. hops = 0 /\ values = NoObject
  BY DEF Init
<1>2. QED
  BY <1>1, NothingCollected DEF StableInv, Returned

(***************************************************************************)
(* One step per action.                                                    *)
(***************************************************************************)
LEMMA StableStep == TypeInv /\ StableInv /\ [Next]_vars => StableInv'
<1> SUFFICES ASSUME TypeInv, StableInv, [Next]_vars PROVE StableInv'
  OBVIOUS
<1>1. TypeOK /\ schema \in Schemas /\ hops \in Nat
  BY DEF TypeInv, TypeOK
<1>2. schema' = schema
  BY DEF Next, Arrive, Publish, DecodeField, Emit, Translate, Add, vars
<1>3. CASE Arrive
  <2>1. hops = 0 /\ hops' = 0 /\ values' = values /\ at' \in {"json", "body"}
    BY <1>3 DEF Arrive, StableInv
  <2>2. QED
    BY <1>2, <2>1 DEF StableInv, Returned
<1>4. CASE Publish
  <2>1. hops = 0 /\ hops' = 0 /\ values' = values /\ at' = "body"
    BY <1>4 DEF Publish, StableInv
  <2>2. QED
    BY <1>2, <2>1 DEF StableInv, Returned
<1>5. ASSUME NEW a \in Additions, Add(a) PROVE StableInv'
  <2>1. hops = 0 /\ hops' = 0 /\ values' = values
    BY <1>5 DEF Add, StableInv
  <2>2. QED
    BY <1>2, <2>1 DEF StableInv, Returned
<1>6. ASSUME NEW u \in OutOfRange, Translate(u) PROVE StableInv'
  <2> DEFINE s == IF hops = 0 THEN writer ELSE schema
  <2>1. at = "json" /\ UNCHANGED <<json, hops>>
    BY <1>6 DEF Translate
  <2>2. CASE ~TranslatesJSON(s, json)
    <3>1. at' = "refused" /\ UNCHANGED <<origin, values>>
      BY <1>6, <2>2 DEF Translate
    <3>2. Returned' => Returned
      BY <2>1, <3>1 DEF Returned
    <3>3. QED
      BY <1>2, <2>1, <3>1, <3>2 DEF StableInv
  <2>3. CASE TranslatesJSON(s, json)
    <3>1. at' = "body" /\ values' = NoObject /\ origin' = <<json, s>>
      BY <1>6, <2>3 DEF Translate
    <3>2. Collected(schema', values')
      BY <1>2, <3>1, NothingCollected
    <3>3. Returned' => hops > 0
      BY <1>1, <2>1 DEF Returned
    <3>4. hops > 0 => Settled(schema, json) /\ s = schema
      BY <1>1, <2>1 DEF StableInv
    <3>5. origin' # <<>> /\ origin'[1] = json /\ origin'[2] = s
      BY <3>1
    <3> HIDE DEF s
    <3>6. QED
      BY <1>2, <3>1, <3>2, <3>3, <3>4, <3>5 DEF StableInv
  <2>4. QED
    BY <2>2, <2>3
<1>7. CASE DecodeField
  <2>1. /\ at = "body" /\ i < Len(body) /\ UNCHANGED <<origin, hops, json>>
        /\ at' \in {"body", "failed"}
    BY <1>7 DEF DecodeField
  <2>2. Collected(schema, values')
    <3>1. CASE values' = values
      BY <3>1 DEF StableInv
    <3>2. CASE values' # values
      <4> DEFINE f == FieldTagged(schema, KeyField)
      <4>1. Key.ok /\ Known /\ Content.ok /\ values' = Set(f, Content.val)
        BY <1>7, <3>2 DEF DecodeField
      <4>2. f \in Range(schema) /\ f.type \in validTypes
        BY <1>1, <4>1, SchemaFields DEF Known
      <4>3. /\ Rest(i + Key.n) \in Seq(Bytes) /\ Content.val \in Scalar
        BY <1>1, <2>1, <4>1, TurnTypes
      <4>4. Content = decodeValue(Rest(i + Key.n), f.type, WireType)
        BY <4>1 DEF Content
      <4> HIDE DEF f
      <4>5. Carries(f.type, Content.val) \/ "inf" \in DOMAIN Content.val
        <5> DEFINE d == Rest(i + Key.n)
                   t == f.type
                   wt == WireType
        <5>1. d \in Seq(Bytes) /\ t \in validTypes /\ Content = decodeValue(d, t, wt)
          BY <4>2, <4>3, <4>4
        <5> HIDE DEF d, t, wt
        <5>2. decodeValue(d, t, wt).ok
          BY <4>1, <5>1
        <5>3. \/ Carries(t, decodeValue(d, t, wt).val)
              \/ "inf" \in DOMAIN decodeValue(d, t, wt).val
          BY <5>1, <5>2, DecodedIsCarried
        <5>4. QED
          BY <5>1, <5>3 DEF t
      <4>6. Collected(schema, values)
        BY DEF StableInv
      <4>7. Collected(schema, Set(f, Content.val))
        BY <1>1, <4>2, <4>3, <4>5, <4>6, SetCollects
      <4>8. QED
        BY <4>1, <4>7 DEF f
    <3>3. QED
      BY <3>1, <3>2
  <2>3. Returned' => Returned
    BY <2>1 DEF Returned
  <2>4. QED
    BY <1>2, <2>1, <2>2, <2>3 DEF StableInv
<1>8. CASE Emit
  <2>1. at = "body" /\ UNCHANGED <<values, origin>>
    BY <1>8 DEF Emit
  <2>2. \/ /\ Marshals(schema, values) /\ at' = "json" /\ hops' = hops + 1
           /\ json' = ProtoToJSON(schema, values)
        \/ at' = "failed" /\ hops' = hops
    BY <1>8 DEF Emit
  <2>3. at' = "json" => Settled(schema, json')
    BY <1>1, <2>2, EmittedIsSettled DEF StableInv
  <2>4. Returned' => Returned
    BY <1>1, <2>1, <2>2 DEF Returned
  <2>5. QED
    BY <1>2, <2>1, <2>2, <2>3, <2>4 DEF StableInv
<1>9. CASE UNCHANGED vars
  <2>1. UNCHANGED <<at, schema, json, values, hops, origin>>
    BY <1>9 DEF vars
  <2>2. QED
    BY <2>1 DEF StableInv, Returned
<1>10. QED
  BY <1>3, <1>4, <1>5, <1>6, <1>7, <1>8, <1>9 DEF Next

(***************************************************************************)
(* Whatever bytes an object was decoded from, the bridge accepts its own   *)
(* output and gets it back unchanged, unless a number in it is beyond      *)
(* Exact.                                                                  *)
(***************************************************************************)
THEOREM JsonIsStableAlways == Spec => []JsonIsStable
<1>1. TypeInv /\ RoundInv /\ StableInv => JsonIsStable
  <2> SUFFICES ASSUME TypeInv, RoundInv, StableInv PROVE JsonIsStable
    OBVIOUS
  <2>1. schema \in Schemas /\ TypedObject(json) /\ hops \in Nat
    BY DEF TypeInv, TypeOK
  <2>2. ASSUME at = "refused", hops > 0, Small(json) PROVE FALSE
    <3>1. ~TranslatesJSON(schema, json)
      BY <2>1, <2>2 DEF RoundInv
    <3>2. Settled(schema, json)
      BY <2>2 DEF StableInv
    <3>3. FitsSchema(json, schema)
      BY <2>2, <3>2, SettledFits
    <3>4. QED
      BY <2>1, <3>1, <3>3, FittingObject
  <2>3. ASSUME at = "json", hops > 1, Small(origin[1]) PROVE json = origin[1]
    <3>1. origin # <<>> /\ origin[2] = schema /\ Settled(schema, origin[1])
      BY <2>1, <2>3 DEF StableInv, Returned
    <3> DEFINE o == origin[1]
    <3>2. Settled(schema, o) /\ Small(o)
      BY <2>3, <3>1
    <3> HIDE DEF o
    <3>3. FitsSchema(o, schema)
      BY <3>2, SettledFits
    <3>4. Compatible(schema, schema) /\ Shared(o, schema, schema) = o
      BY <2>1, <3>2, SharedWithItself
    <3>5. Travels
      BY <3>1, <3>3, <3>4 DEF Travels, o
    <3>6. json = Shared(origin[1], origin[2], schema)
      BY <2>1, <2>3, <3>5 DEF RoundInv
    <3>7. QED
      BY <3>1, <3>4, <3>6 DEF o
  <2>4. QED
    BY <2>2, <2>3 DEF JsonIsStable
<1>2. Init => TypeInv /\ RoundInv /\ StableInv
  BY TypeInit, RoundInit, StableInit
<1>3. TypeInv /\ RoundInv /\ StableInv /\ [Next]_vars
        => TypeInv' /\ RoundInv' /\ StableInv'
  BY TypeStep, RoundStep, StableStep
<1>4. QED
  BY <1>1, <1>2, <1>3, PTL DEF Spec
=============================================================================
