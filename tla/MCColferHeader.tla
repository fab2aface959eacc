--------------------------- MODULE MCColferHeader ---------------------------
(* Headers for TLC: SeqIDs at the varint and fixed-width boundaries, and   *)
(* Method and Error strings empty, one byte, and long enough to need a     *)
(* two-byte length.                                                         *)
EXTENDS ColferHeader

\* The SeqID n, for n < 2^31.
SmallWord(n) == [t \in 0..63 |-> IF t < 31 THEN (n \div 2^t) % 2 ELSE 0]

\* The SeqID whose set bits are 0..k-1 when ones, else only bit k.
LowOnes(k) == [t \in 0..63 |-> IF t < k THEN 1 ELSE 0]
OnlyBit(k) == [t \in 0..63 |-> IF t = k THEN 1 ELSE 0]

MCSeqIDs ==
    {SmallWord(0), SmallWord(1), SmallWord(127), SmallWord(128),
     OnlyBit(14), LowOnes(49), OnlyBit(49), LowOnes(64)}

MCMethods == {<<>>, <<127>>, <<0, 1>>, [k \in 1..128 |-> 97]}

MCErrors == {<<>>, <<2>>, <<128, 255>>}

MCHeaders == [SeqID : MCSeqIDs, Method : MCMethods, Error : MCErrors]
=============================================================================
