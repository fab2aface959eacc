------------------------- MODULE ColferHeaderProofs -------------------------
(***************************************************************************)
(* Proofs about the Colfer header codec for every string length: the     *)
(* length varint MarshalTo writes is read back by Unmarshal's uint32 loop *)
(* as the length itself, the Method and Error stages accept exactly the   *)
(* field MarshalTo wrote, and they return io.EOF on a field cut short.     *)
(* The SeqID field computes with folds over 64 bits and stays with TLC.   *)
(***************************************************************************)
EXTENDS ColferHeader, FiniteSetTheorems, TLAPS

\* The lemmas below need no assumption on the constants.

\* The powers of two the varint loops compare lengths with.
LEMMA Powers ==
  /\ 2^7 = 128 /\ 2^14 = 16384 /\ 2^21 = 2097152 /\ 2^28 = 268435456
  BY SMT

\* The powers 2^(7k) the varint loops compare and shift by, one per
\* iteration k of the loop.
LEMMA Pow7Table ==
  ASSUME NEW k \in 1..4
  PROVE  2^(7 * k) = IF k = 1 THEN 2^7 ELSE IF k = 2 THEN 2^14
                     ELSE IF k = 3 THEN 2^21 ELSE 2^28
  <1>1. CASE k = 1
    BY <1>1, SMT
  <1>2. CASE k = 2
    BY <1>2, SMT
  <1>3. CASE k = 3
    BY <1>3, SMT
  <1>4. CASE k = 4
    BY <1>4, SMT
  <1> QED
    BY <1>1, <1>2, <1>3, <1>4, SMT

\* The number of elements of 1..n.
LEMMA IntervalSize ==
  ASSUME NEW n \in Nat
  PROVE  Cardinality(1..n) = n
  <1>1. 1 \in Int /\ n \in Int
    BY SMT
  <1>2. Cardinality(1..n) = IF 1 > n THEN 0 ELSE n - 1 + 1
    BY <1>1, FS_Interval, Zenon
  <1> QED
    BY <1>2, SMT

(* MarshalTo's and MarshalLen's `for x >= 0x80 { x >>= 7 }` runs n times  *)
(* for a length l with 2^(7n) <= l < 2^(7(n+1)): LenShifts counts them.   *)
LEMMA LenShiftsValue ==
  ASSUME NEW l \in 0..(2^28 - 1)
  PROVE  LenShifts(l) = IF l < 2^7 THEN 0 ELSE IF l < 2^14 THEN 1
                        ELSE IF l < 2^21 THEN 2 ELSE 3
  <1> DEFINE S == {k \in 1..4 : l >= 2^(7 * k)}
             T(k) == IF k = 1 THEN 2^7 ELSE IF k = 2 THEN 2^14
                     ELSE IF k = 3 THEN 2^21 ELSE 2^28
  <1>1. S = {k \in 1..4 : l >= T(k)}
    BY Pow7Table, Zenon DEF S, T
  <1>2. CASE l < 2^7
    <2>1. S = {}
      BY <1>1, <1>2, Powers, SMT DEF T
    <2> QED
      BY <2>1, <1>2, FS_EmptySet, SMT DEF LenShifts, S
  <1>3. CASE 2^7 <= l /\ l < 2^14
    <2>1. S = 1..1
      BY <1>1, <1>3, Powers, SMT DEF T
    <2>2. 1 \in Nat
      BY SMT
    <2>3. Cardinality(S) = 1
      BY <2>1, <2>2, IntervalSize, Zenon
    <2> QED
      BY <1>3, <2>3, Powers, SMT DEF LenShifts, S
  <1>4. CASE 2^14 <= l /\ l < 2^21
    <2>1. S = 1..2
      BY <1>1, <1>4, Powers, SMT DEF T
    <2>2. 2 \in Nat
      BY SMT
    <2>3. Cardinality(S) = 2
      BY <2>1, <2>2, IntervalSize, Zenon
    <2> QED
      BY <1>4, <2>3, Powers, SMT DEF LenShifts, S
  <1>5. CASE 2^21 <= l
    <2>1. S = 1..3
      BY <1>1, <1>5, Powers, SMT DEF T
    <2>2. 3 \in Nat
      BY SMT
    <2>3. Cardinality(S) = 3
      BY <2>1, <2>2, IntervalSize, Zenon
    <2> QED
      BY <1>5, <2>3, Powers, SMT DEF LenShifts, S
  <1> QED
    BY <1>2, <1>3, <1>4, <1>5, Powers, SMT

\* A byte of the data, read at a Go index inside it.
LEMMA AtByte ==
  ASSUME NEW data \in Seq(Bytes), NEW j \in 0..(Len(data) - 1)
  PROVE  At(data, j) \in Bytes
  <1>1. j + 1 \in 1..Len(data)
    BY SMT
  <1>2. data[j + 1] \in Bytes
    BY <1>1, SMT
  <1> QED
    BY <1>2, Zenon DEF At

\* A byte either has the continuation bit 0x80 or has not.
LEMMA ContinuationBit ==
  ASSUME NEW b \in Bytes, b >= 128, b < 128
  PROVE  FALSE
  BY SMT DEF Bytes

\* A 7-bit group with the continuation bit added when b holds.
LEMMA GroupByte ==
  ASSUME NEW x \in 0..127, NEW b \in BOOLEAN
  PROVE  /\ b => x + (IF b THEN 128 ELSE 0) >= 128
         /\ ~b => x + (IF b THEN 128 ELSE 0) < 128
  BY SMT

\* FiniteSetsExt's Min is the least element when there is one.
LEMMA MinIsLeast ==
  ASSUME NEW S \in SUBSET Int, NEW x \in S, \A y \in S : x <= y
  PROVE  SetsExt!Min(S) = x
  <1>1. \E m \in S : \A y \in S : m <= y
    BY Zenon
  <1>2. SetsExt!Min(S) \in S /\ \A y \in S : SetsExt!Min(S) <= y
    BY <1>1, Zenon DEF SetsExt!Min
  <1>3. SetsExt!Min(S) <= x /\ x <= SetsExt!Min(S)
    BY <1>2, Zenon
  <1>4. SetsExt!Min(S) \in Int /\ x \in Int
    BY <1>2, Zenon
  <1> QED
    BY <1>3, <1>4, SMT

(* Unmarshal's uint32 length loop stops at the first byte below 0x80: the *)
(* varint starting at i ends at e when the bytes before e have the        *)
(* continuation bit and data[e] has not.                                  *)
LEMMA VarintEndAt ==
  ASSUME NEW data \in Seq(Bytes), NEW i \in Nat, NEW e \in Nat,
         i <= e, e < Len(data), At(data, e) < 128,
         \A j \in i..(e - 1) : At(data, j) >= 128
  PROVE  VarintEnd(data, i, FALSE) = e
  <1> DEFINE S == {j \in i..Len(data) :
                     j >= Len(data) \/ (FALSE /\ j = i + 8) \/ At(data, j) < 128}
  <1>1. e \in S
    BY SMT DEF S
  <1>2. \A y \in S : e <= y
    <2> SUFFICES ASSUME NEW y \in S, y < e PROVE FALSE
      BY SMT DEF S
    <2>1. y \in i..(e - 1) /\ y < Len(data)
      BY SMT DEF S
    <2>2. At(data, y) >= 128
      BY <2>1, Zenon
    <2>3. At(data, y) \in Bytes
      BY <2>1, AtByte, SMT
    <2>4. At(data, y) < 128
      BY <2>1, <2>3, SMT DEF S
    <2> QED
      BY <2>2, <2>3, <2>4, ContinuationBit, Zenon
  <1>3. S \in SUBSET Int
    BY SMT DEF S
  <1> QED
    BY <1>1, <1>2, <1>3, MinIsLeast, Zenon DEF VarintEnd, S

(* When every byte from i to the end of the data has the continuation    *)
(* bit, the loop runs out of data: Unmarshal's io.EOF.                    *)
LEMMA VarintEndEOF ==
  ASSUME NEW data \in Seq(Bytes), NEW i \in Nat, i <= Len(data),
         \A j \in i..(Len(data) - 1) : At(data, j) >= 128
  PROVE  VarintEnd(data, i, FALSE) = Len(data)
  <1> DEFINE S == {j \in i..Len(data) :
                     j >= Len(data) \/ (FALSE /\ j = i + 8) \/ At(data, j) < 128}
  <1>1. Len(data) \in S
    BY SMT DEF S
  <1>2. \A y \in S : Len(data) <= y
    <2> SUFFICES ASSUME NEW y \in S, y < Len(data) PROVE FALSE
      BY SMT DEF S
    <2>1. y \in i..(Len(data) - 1)
      BY SMT DEF S
    <2>2. At(data, y) >= 128
      BY <2>1, Zenon
    <2>3. At(data, y) \in Bytes
      BY <2>1, AtByte, SMT
    <2>4. At(data, y) < 128
      BY <2>1, <2>3, SMT DEF S
    <2> QED
      BY <2>2, <2>3, <2>4, ContinuationBit, Zenon
  <1>3. S \in SUBSET Int
    BY SMT DEF S
  <1> QED
    BY <1>1, <1>2, <1>3, MinIsLeast, Zenon DEF VarintEnd, S

\* The powers 2^(7k) a length varint's groups are shifted by are positive.
LEMMA Pow7Positive ==
  ASSUME NEW k \in 0..3
  PROVE  2^(7 * k) \in Nat \ {0}
  <1>1. CASE k = 0
    BY <1>1, SMT
  <1>2. CASE k \in 1..3
    <2>1. k \in 1..4
      BY <1>2, SMT
    <2>2. 2^(7 * k) = IF k = 1 THEN 2^7 ELSE IF k = 2 THEN 2^14
                      ELSE IF k = 3 THEN 2^21 ELSE 2^28
      BY <2>1, Pow7Table, Zenon
    <2> QED
      BY <2>2, Powers, SMT
  <1> QED
    BY <1>1, <1>2, SMT

\* A 7-bit group (l >> 7k) & 0x7f.
LEMMA DigitRange ==
  ASSUME NEW l \in Nat, NEW p \in Nat \ {0}
  PROVE  (l \div p) % 128 \in 0..127
  BY SMT

(* Byte k of the length varint (0-based): the k-th 7-bit group of l, with *)
(* the continuation bit on all but the last.                              *)
LEMMA LenVarintDigit ==
  ASSUME NEW l \in 0..(2^28 - 1), NEW k \in 0..LenShifts(l)
  PROVE  LenVarint(l)[k + 1]
           = ((l \div 2^(7 * k)) % 128) + (IF k < LenShifts(l) THEN 128 ELSE 0)
  <1>1. LenShifts(l) \in 0..3
    <2>1. LenShifts(l) = IF l < 2^7 THEN 0 ELSE IF l < 2^14 THEN 1
                         ELSE IF l < 2^21 THEN 2 ELSE 3
      BY LenShiftsValue, Zenon
    <2> QED
      BY <2>1, SMT
  <1>2. k + 1 \in 1..(LenShifts(l) + 1) /\ (k + 1) - 1 = k
        /\ (k + 1 <= LenShifts(l)) = (k < LenShifts(l))
    BY <1>1, SMT
  <1>3. LenVarint(l)[k + 1]
          = ((l \div 2^(7 * ((k + 1) - 1))) % 128)
            + IF k + 1 <= LenShifts(l) THEN 128 ELSE 0
    BY <1>2, Zenon DEF LenVarint
  <1> QED
    BY <1>2, <1>3, Zenon

(* The bytes of a length varint MarshalTo wrote at index i of the data, and *)
(* read back by Unmarshal, with the data reaching past the varint.          *)
LenVarintAt(l, data, i) ==
    /\ i + LenShifts(l) < Len(data)
    /\ \A k \in 0..LenShifts(l) : At(data, i + k) = LenVarint(l)[k + 1]

\* Those bytes as 7-bit groups of l, continuation bits on all but the last.
LEMMA VarintBytes ==
  ASSUME NEW l \in 0..(2^28 - 1), NEW data \in Seq(Bytes), NEW i \in Nat,
         LenVarintAt(l, data, i), NEW k \in 0..LenShifts(l)
  PROVE  At(data, i + k)
           = ((l \div 2^(7 * k)) % 128) + (IF k < LenShifts(l) THEN 128 ELSE 0)
  BY LenVarintDigit, Zenon DEF LenVarintAt

(* Unmarshal's length loop stops at the last byte of the varint MarshalTo *)
(* wrote: the bytes before it carry the continuation bit, it does not.    *)
LEMMA LenVarintEnd ==
  ASSUME NEW l \in 0..(2^28 - 1), NEW data \in Seq(Bytes), NEW i \in Nat,
         LenVarintAt(l, data, i)
  PROVE  VarintEnd(data, i, FALSE) = i + LenShifts(l)
  <1> DEFINE n == LenShifts(l)
  <1>0. l \in Nat
    BY SMT
  <1>1. n \in 0..3 /\ i + n < Len(data)
    <2>1. LenShifts(l) = IF l < 2^7 THEN 0 ELSE IF l < 2^14 THEN 1
                         ELSE IF l < 2^21 THEN 2 ELSE 3
      BY LenShiftsValue, Zenon
    <2> QED
      BY <2>1, SMT DEF LenVarintAt
  <1>2. At(data, i + n) < 128
    <2>1. n \in 0..LenShifts(l) /\ ~(n < LenShifts(l))
      BY <1>1, SMT
    <2>2. At(data, i + n)
            = ((l \div 2^(7 * n)) % 128) + (IF n < LenShifts(l) THEN 128 ELSE 0)
      BY <2>1, VarintBytes, Zenon
    <2>3. 2^(7 * n) \in Nat \ {0}
      BY <1>1, Pow7Positive, Zenon
    <2>4. (l \div 2^(7 * n)) % 128 \in 0..127
      BY <1>0, <2>3, DigitRange, Zenon
    <2> QED
      BY <2>1, <2>2, <2>4, GroupByte, Zenon
  <1>3. \A j \in i..(i + n - 1) : At(data, j) >= 128
    <2> SUFFICES ASSUME NEW j \in i..(i + n - 1) PROVE At(data, j) >= 128
      OBVIOUS
    <2> DEFINE k == j - i
    <2>1. k \in 0..LenShifts(l) /\ k < LenShifts(l) /\ k \in 0..3 /\ j = i + k
      BY <1>1, SMT
    <2>2. At(data, i + k)
            = ((l \div 2^(7 * k)) % 128) + (IF k < LenShifts(l) THEN 128 ELSE 0)
      BY <2>1, VarintBytes, Zenon
    <2>3. 2^(7 * k) \in Nat \ {0}
      BY <2>1, Pow7Positive, Zenon
    <2>4. (l \div 2^(7 * k)) % 128 \in 0..127
      BY <1>0, <2>3, DigitRange, Zenon
    <2> QED
      BY <2>1, <2>2, <2>4, GroupByte, Zenon
  <1> QED
    <2>1. i <= i + n /\ i + n \in Nat
      BY <1>1, SMT
    <2>2. \A e \in Nat : i <= e /\ e < Len(data) /\ At(data, e) < 128
                         /\ (\A j \in i..(e - 1) : At(data, j) >= 128)
                         => VarintEnd(data, i, FALSE) = e
      BY VarintEndAt, Zenon
    <2>3. i <= i + n /\ i + n < Len(data) /\ At(data, i + n) < 128
          /\ (\A j \in i..((i + n) - 1) : At(data, j) >= 128)
      BY <1>1, <1>2, <1>3, <2>1, SMT
    <2>4. (i <= i + n /\ i + n < Len(data) /\ At(data, i + n) < 128
           /\ (\A j \in i..((i + n) - 1) : At(data, j) >= 128))
          => VarintEnd(data, i, FALSE) = i + n
      BY <2>1, <2>2, Zenon
    <2>5. VarintEnd(data, i, FALSE) = i + n
      BY <2>3, <2>4, Zenon
    <2> QED
      BY <2>5 DEF n

\* Group k of the uint32 loop's sum: x |= (b & 0x7f) << 7k, the last byte
\* unmasked, nothing past the end of the varint.
LenPart(data, i, end, k) ==
    IF i + k <= end
    THEN (IF i + k = end THEN At(data, i + k) ELSE At(data, i + k) % 128)
         * 2^(7 * k)
    ELSE 0

\* LenValue as the sum of its four groups and the fifth byte's flag.
LEMMA LenValueParts ==
  ASSUME NEW data, NEW i, NEW end
  PROVE  LenValue(data, i, end)
           = [low |-> LenPart(data, i, end, 0) + LenPart(data, i, end, 1)
                      + LenPart(data, i, end, 2) + LenPart(data, i, end, 3),
              big |-> end - i >= 4 /\ (IF i + 4 = end THEN At(data, i + 4)
                                       ELSE At(data, i + 4) % 128) % 16 # 0]
  BY Zenon DEF LenValue, LenPart

(* Each group the loop adds for the varint MarshalTo wrote is the group *)
(* (l >> 7k) & 0x7f of the length, shifted back into place.             *)
LEMMA LenPartValue ==
  ASSUME NEW l \in 0..(2^28 - 1), NEW data \in Seq(Bytes), NEW i \in Nat,
         LenVarintAt(l, data, i), NEW k \in 0..3
  PROVE  LenPart(data, i, i + LenShifts(l), k)
           = IF k <= LenShifts(l) THEN ((l \div 2^(7 * k)) % 128) * 2^(7 * k) ELSE 0
  <1> DEFINE n == LenShifts(l)
             d == (l \div 2^(7 * k)) % 128
  <1>0. l \in Nat /\ n \in 0..3
    <2>1. LenShifts(l) = IF l < 2^7 THEN 0 ELSE IF l < 2^14 THEN 1
                         ELSE IF l < 2^21 THEN 2 ELSE 3
      BY LenShiftsValue, Zenon
    <2> QED
      BY <2>1, SMT
  <1>1. d \in 0..127
    <2>1. 2^(7 * k) \in Nat \ {0}
      BY Pow7Positive, Zenon
    <2> QED
      BY <1>0, <2>1, DigitRange, Zenon DEF d
  <1>2. CASE k > n
    <2>1. ~(i + k <= i + n) /\ ~(k <= n)
      BY <1>0, <1>2, SMT
    <2> QED
      BY <2>1, Zenon DEF LenPart, n
  <1>3. CASE k < n
    <2>1. k \in 0..LenShifts(l) /\ k < LenShifts(l)
      BY <1>0, <1>3, SMT
    <2>2. At(data, i + k) = d + 128
      BY <2>1, VarintBytes, Zenon DEF d
    <2>3. (d + 128) % 128 = d
      BY <1>1, SMT
    <2>4. i + k <= i + n /\ i + k # i + n /\ k <= n
      BY <1>0, <1>3, SMT
    <2> QED
      BY <2>2, <2>3, <2>4, Zenon DEF LenPart, n, d
  <1>4. CASE k = n
    <2>1. k \in 0..LenShifts(l) /\ ~(k < LenShifts(l))
      BY <1>0, <1>4, SMT
    <2>2. At(data, i + k) = d + 0
      BY <2>1, VarintBytes, Zenon DEF d
    <2>3. d + 0 = d
      BY <1>1, SMT
    <2>4. i + k <= i + n /\ i + k = i + n /\ k <= n
      BY <1>0, <1>4, SMT
    <2> QED
      BY <2>2, <2>3, <2>4, Zenon DEF LenPart, n, d
  <1> QED
    BY <1>0, <1>2, <1>3, <1>4, SMT

\* The groups of l that the varint holds, shifted back into place.
Group(l, k) ==
    IF k <= LenShifts(l) THEN ((l \div 2^(7 * k)) % 128) * 2^(7 * k) ELSE 0

(* The groups of a length below 1 << 28 add up to the length: the varint *)
(* holds every group up to the highest nonzero one.                       *)
LEMMA GroupSum ==
  ASSUME NEW l \in 0..(2^28 - 1)
  PROVE  Group(l, 0) + Group(l, 1) + Group(l, 2) + Group(l, 3) = l
  <1>1. LenShifts(l) = IF l < 2^7 THEN 0 ELSE IF l < 2^14 THEN 1
                       ELSE IF l < 2^21 THEN 2 ELSE 3
    BY LenShiftsValue, Zenon
  <1>2. /\ Group(l, 0) = IF 0 <= LenShifts(l) THEN (l % 128) * 1 ELSE 0
        /\ Group(l, 1) = IF 1 <= LenShifts(l) THEN ((l \div 128) % 128) * 128 ELSE 0
        /\ Group(l, 2) = IF 2 <= LenShifts(l)
                         THEN ((l \div 16384) % 128) * 16384 ELSE 0
        /\ Group(l, 3) = IF 3 <= LenShifts(l)
                         THEN ((l \div 2097152) % 128) * 2097152 ELSE 0
    <2>1. 2^(7 * 0) = 1 /\ 2^(7 * 1) = 128 /\ 2^(7 * 2) = 16384
          /\ 2^(7 * 3) = 2097152
      BY SMT
    <2>2. l \div 1 = l
      BY SMT
    <2> QED
      BY <2>1, <2>2, SMT DEF Group
  <1>3. CASE l < 2^7
    BY <1>1, <1>2, <1>3, Powers, SMT
  <1>4. CASE 2^7 <= l /\ l < 2^14
    BY <1>1, <1>2, <1>4, Powers, SMT
  <1>5. CASE 2^14 <= l /\ l < 2^21
    BY <1>1, <1>2, <1>5, Powers, SMT
  <1>6. CASE 2^21 <= l
    <2>1. l \in Nat /\ l < 268435456 /\ LenShifts(l) = 3
      BY <1>1, <1>6, Powers, SMT
    <2>2. l \div 2097152 \in 0..127
      BY <2>1, SMT
    <2>3. l = (l \div 128) * 128 + (l % 128)
      BY <2>1, SMT
    <2>4. l \div 128 = (l \div 16384) * 128 + ((l \div 128) % 128)
      BY <2>1, SMT
    <2>5. l \div 16384 = (l \div 2097152) * 128 + ((l \div 16384) % 128)
      BY <2>1, SMT
    <2> QED
      BY <1>2, <2>1, <2>2, <2>3, <2>4, <2>5, SMT
  <1> QED
    BY <1>3, <1>4, <1>5, <1>6, Powers, SMT

(* The length varint round trip.  Where MarshalTo wrote the varint of a   *)
(* string length l (below 1 << 28, which ColferSizeMax keeps every length *)
(* under), Unmarshal's uint32 loop stops at its last byte and reads back  *)
(* exactly l, without the overflow flag of a fifth byte.                  *)
THEOREM LengthVarintRoundTrip ==
  ASSUME NEW l \in 0..(2^28 - 1), NEW data \in Seq(Bytes), NEW i \in Nat,
         LenVarintAt(l, data, i)
  PROVE  /\ VarintEnd(data, i, FALSE) = i + LenShifts(l)
         /\ LenValue(data, i, i + LenShifts(l)) = [low |-> l, big |-> FALSE]
  <1> DEFINE n == LenShifts(l)
  <1>1. VarintEnd(data, i, FALSE) = i + n
    BY LenVarintEnd
  <1>2. n \in 0..3
    <2>1. LenShifts(l) = IF l < 2^7 THEN 0 ELSE IF l < 2^14 THEN 1
                         ELSE IF l < 2^21 THEN 2 ELSE 3
      BY LenShiftsValue, Zenon
    <2> QED
      BY <2>1, SMT
  <1>3. \A k \in 0..3 : LenPart(data, i, i + n, k) = Group(l, k)
    BY LenPartValue, Zenon DEF Group
  <1>4. LenPart(data, i, i + n, 0) + LenPart(data, i, i + n, 1)
          + LenPart(data, i, i + n, 2) + LenPart(data, i, i + n, 3) = l
    <2>1. 0 \in 0..3 /\ 1 \in 0..3 /\ 2 \in 0..3 /\ 3 \in 0..3
      BY SMT
    <2> QED
      BY <1>3, <2>1, GroupSum, Zenon
  <1>5. ~((i + n) - i >= 4)
    BY <1>2, SMT
  <1> QED
    BY <1>1, <1>4, <1>5, LenValueParts, Zenon

\* The fields of a length result.
LEMMA LenResultFields ==
  ASSUME NEW x, NEW m, NEW b, x = [low |-> m, big |-> b]
  PROVE  x.low = m /\ x.big = b
  BY Zenon

\* What the string stage returns when its loop stopped at e with length L.
StrAccepted(tag, r, data, e, L) ==
    Result("none", e + 1 + L + 1, At(data, e + 1 + L),
           IF tag = 1 THEN [r.o EXCEPT !.Method = SubSeq(data, e + 2, e + 1 + L)]
           ELSE [r.o EXCEPT !.Error = SubSeq(data, e + 2, e + 1 + L)])

(* Unmarshal's string stage, once its loop has stopped at e with length  *)
(* L and the bound check passes: the string data[e+2..e+1+L] is assigned  *)
(* and data[e+1+L] is the next header byte.                               *)
LEMMA StrStageAccept ==
  ASSUME NEW tag, NEW r, NEW data, NEW e \in Nat, NEW L \in Nat,
         r.err = "none", r.hdr = tag,
         VarintEnd(data, r.i, FALSE) = e,
         LenValue(data, r.i, e) = [low |-> L, big |-> FALSE],
         e + 1 + L < Len(data)
  PROVE  StrStage(tag, r, data) = StrAccepted(tag, r, data, e, L)
  <1>1. LenValue(data, r.i, e).low = L /\ LenValue(data, r.i, e).big = FALSE
    BY LenResultFields, Zenon
  <1>2. ~(e >= Len(data)) /\ ~(e + 1 + L >= Len(data))
    BY SMT
  <1> QED
    BY <1>1, <1>2, Zenon DEF StrStage, StrAccepted

(* The string field round trip.  When Unmarshal reaches the tag of a      *)
(* Method (1) or Error (2) field MarshalTo wrote for a nonempty string s,  *)
(* with a header byte behind it, the stage reads the length back, passes  *)
(* the bound check, assigns exactly s and reads the next header byte      *)
(* data[to].                                                              *)
THEOREM StringFieldRoundTrip ==
  ASSUME NEW tag \in {1, 2}, NEW s \in Seq(Bytes), Len(s) < 2^28,
         NEW data \in Seq(Bytes), NEW r, r.err = "none", r.hdr = tag,
         r.i \in Nat, LenVarintAt(Len(s), data, r.i),
         SubSeq(data, r.i + LenShifts(Len(s)) + 2,
                      r.i + LenShifts(Len(s)) + 1 + Len(s)) = s,
         r.i + LenShifts(Len(s)) + 1 + Len(s) < Len(data)
  PROVE  LET to == r.i + LenShifts(Len(s)) + 1 + Len(s) IN
         StrStage(tag, r, data)
           = Result("none", to + 1, At(data, to),
                    IF tag = 1 THEN [r.o EXCEPT !.Method = s]
                    ELSE [r.o EXCEPT !.Error = s])
  <1> DEFINE e == r.i + LenShifts(Len(s))
  <1>1. Len(s) \in 0..(2^28 - 1)
    BY SMT
  <1>2. VarintEnd(data, r.i, FALSE) = e
        /\ LenValue(data, r.i, e) = [low |-> Len(s), big |-> FALSE]
    BY <1>1, LengthVarintRoundTrip, Zenon DEF e
  <1>3. e \in Nat /\ Len(s) \in Nat /\ e + 1 + Len(s) < Len(data)
    <2>1. LenShifts(Len(s)) = IF Len(s) < 2^7 THEN 0 ELSE IF Len(s) < 2^14 THEN 1
                              ELSE IF Len(s) < 2^21 THEN 2 ELSE 3
      BY <1>1, LenShiftsValue, Zenon
    <2>2. LenShifts(Len(s)) \in 0..3
      BY <2>1, SMT
    <2> QED
      BY <2>2, SMT DEF e
  <1>4. StrStage(tag, r, data) = StrAccepted(tag, r, data, e, Len(s))
    BY <1>2, <1>3, StrStageAccept
  <1>5. SubSeq(data, e + 2, e + 1 + Len(s)) = s
    BY DEF e
  <1> QED
    BY <1>4, <1>5, Zenon DEF StrAccepted, e

\* The stage's io.EOF results.
LEMMA StrStageEOF ==
  ASSUME NEW tag, NEW r, NEW data, NEW e \in Nat, NEW L \in Nat,
         r.err = "none", r.hdr = tag,
         VarintEnd(data, r.i, FALSE) = e,
         \/ e >= Len(data)
         \/ LenValue(data, r.i, e) = [low |-> L, big |-> FALSE]
            /\ e + 1 + L >= Len(data)
  PROVE  StrStage(tag, r, data).err = "EOF"
  <1>1. CASE e >= Len(data)
    BY <1>1, Zenon DEF StrStage, Result
  <1>2. CASE ~(e >= Len(data))
    <2>1. LenValue(data, r.i, e) = [low |-> L, big |-> FALSE] /\ e + 1 + L >= Len(data)
      BY <1>2, Zenon
    <2>2. LenValue(data, r.i, e).low = L
      BY <2>1, LenResultFields, Zenon
    <2>3. e + 1 + LenValue(data, r.i, e).low >= Len(data)
      BY <2>1, <2>2, Zenon
    <2> QED
      BY <1>2, <2>3, Zenon DEF StrStage, Result
  <1> QED
    BY <1>1, <1>2

(* The string field on a cut frame.  When the data ends anywhere inside  *)
(* the length varint, the string or before the header byte behind them,  *)
(* the stage returns io.EOF: it never takes a partial field for a whole  *)
(* one and never indexes past the data.                                  *)
THEOREM StringFieldPrefixEOF ==
  ASSUME NEW tag \in {1, 2}, NEW s \in Seq(Bytes), Len(s) < 2^28,
         NEW data \in Seq(Bytes), NEW r, r.err = "none", r.hdr = tag,
         r.i \in Nat, r.i <= Len(data),
         \A k \in 0..LenShifts(Len(s)) :
            r.i + k < Len(data) => At(data, r.i + k) = LenVarint(Len(s))[k + 1],
         Len(data) <= r.i + LenShifts(Len(s)) + 1 + Len(s)
  PROVE  StrStage(tag, r, data).err = "EOF"
  <1> DEFINE n == LenShifts(Len(s))
  <1>1. Len(s) \in 0..(2^28 - 1) /\ n \in 0..3
    <2>1. Len(s) \in 0..(2^28 - 1)
      BY SMT
    <2>2. LenShifts(Len(s)) = IF Len(s) < 2^7 THEN 0 ELSE IF Len(s) < 2^14 THEN 1
                              ELSE IF Len(s) < 2^21 THEN 2 ELSE 3
      BY <2>1, LenShiftsValue, Zenon
    <2> QED
      BY <2>1, <2>2, SMT DEF n
  <1>2. CASE r.i + n < Len(data)
    <2>0. LenShifts(Len(s)) \in 0..3 /\ r.i + LenShifts(Len(s)) < Len(data)
      BY <1>1, <1>2 DEF n
    <2>1. LenVarintAt(Len(s), data, r.i)
      <3>1. \A k \in 0..LenShifts(Len(s)) : r.i + k < Len(data)
        BY <2>0, SMT
      <3> QED
        BY <2>0, <3>1, Zenon DEF LenVarintAt
    <2>2. VarintEnd(data, r.i, FALSE) = r.i + n
          /\ LenValue(data, r.i, r.i + n) = [low |-> Len(s), big |-> FALSE]
      BY <1>1, <2>1, LengthVarintRoundTrip, Zenon
    <2>3. r.i + n \in Nat /\ Len(s) \in Nat /\ r.i + n + 1 + Len(s) >= Len(data)
      BY <1>1, SMT
    <2> QED
      BY <2>2, <2>3, StrStageEOF
  <1>3. CASE ~(r.i + n < Len(data))
    <2>1. \A j \in r.i..(Len(data) - 1) : At(data, j) >= 128
      <3> SUFFICES ASSUME NEW j \in r.i..(Len(data) - 1) PROVE At(data, j) >= 128
        OBVIOUS
      <3> DEFINE k == j - r.i
      <3>0. LenShifts(Len(s)) \in 0..3 /\ ~(r.i + LenShifts(Len(s)) < Len(data))
        BY <1>1, <1>3 DEF n
      <3>1. k \in 0..LenShifts(Len(s)) /\ k < LenShifts(Len(s)) /\ k \in 0..3
            /\ j = r.i + k /\ r.i + k < Len(data)
        BY <3>0, SMTT(30) DEF k
      <3>2. At(data, r.i + k) = LenVarint(Len(s))[k + 1]
        BY <3>1, Zenon
      <3>3. LenVarint(Len(s))[k + 1]
              = ((Len(s) \div 2^(7 * k)) % 128)
                + (IF k < LenShifts(Len(s)) THEN 128 ELSE 0)
        BY <1>1, <3>1, LenVarintDigit, Zenon
      <3>4. 2^(7 * k) \in Nat \ {0}
        BY <3>1, Pow7Positive, Zenon
      <3>5. ((Len(s) \div 2^(7 * k)) % 128) \in 0..127
        <4>1. Len(s) \in Nat
          BY SMT
        <4> QED
          BY <3>4, <4>1, DigitRange, Zenon
      <3> QED
        BY <3>1, <3>2, <3>3, <3>5, GroupByte, Zenon
    <2>2. VarintEnd(data, r.i, FALSE) = Len(data)
      BY <2>1, VarintEndEOF
    <2>3. Len(data) \in Nat /\ Len(data) >= Len(data)
      BY SMT
    <2> QED
      BY <2>2, <2>3, StrStageEOF
  <1> QED
    BY <1>2, <1>3
=============================================================================
