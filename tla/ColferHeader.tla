---------------------------- MODULE ColferHeader ----------------------------
(***************************************************************************)
(* The Colfer encoding of the RPC Header record (the generated codec in    *)
(* src/unnamed/part_002): MarshalTo, MarshalLen, MarshalBinary, Unmarshal  *)
(* and UnmarshalBinary, as operators on byte sequences.                    *)
(*                                                                         *)
(* SeqID is a uint64.  TLC's integers are 32 bits wide, so a SeqID is a    *)
(* vector of 64 bits (bit 0 least significant) and only the bytes and the  *)
(* string lengths, which stay small, are integers.  Method and Error are   *)
(* byte sequences.                                                          *)
(***************************************************************************)
EXTENDS Naturals, Sequences, FiniteSets, Functions

SetsExt == INSTANCE FiniteSetsExt

CONSTANTS
    ColferSizeMax,   \* the package variable ColferSizeMax
    Headers,         \* the Headers a writer encodes
    MaxTail          \* bytes of a following frame behind the encoded one

Bytes == 0..255
Word == [0..63 -> {0, 1}]
HeaderType == [SeqID : Word, Method : Seq(Bytes), Error : Seq(Bytes)]

ASSUME ColferAssumption ==
    /\ ColferSizeMax \in Nat
    \* a length varint of 1 << 28 or more is then always past the data
    /\ ColferSizeMax < 2^28
    /\ Headers \subseteq HeaderType
    /\ MaxTail \in Nat

ZeroWord == [t \in 0..63 |-> 0]
ZeroHeader == [SeqID |-> ZeroWord, Method |-> <<>>, Error |-> <<>>]

\* x >= 1 << k for the uint64 x with bits v.
AtLeastPow(v, k) == \E t \in k..63 : v[t] = 1

\* (x >> lo) & (1 << n - 1): the n bits of v from bit lo.
Field(v, lo, n) ==
    SumFunctionOnSet([t \in 0..n - 1 |-> IF lo + t <= 63 THEN v[lo + t] * 2^t ELSE 0],
                     0..n - 1)

\* The byte data[j] of Go's 0-based indexing.
At(data, j) == data[j + 1]

-----------------------------------------------------------------------------
(* Encoding.                                                                *)

\* Iterations of `for x >= 0x80 { x >>= 7 }` for a SeqID below 1 << 49.
SeqShifts(v) == Cardinality({k \in 1..8 : AtLeastPow(v, 7 * k)})

\* Iterations of the same loop for a string length l.
LenShifts(l) == Cardinality({k \in 1..4 : l >= 2^(7 * k)})

\* The varint bytes: byte(x | 0x80) while x >= 0x80, then byte(x).
SeqVarint(v) ==
    [k \in 1..SeqShifts(v) + 1 |->
        Field(v, 7 * (k - 1), 7) + IF k <= SeqShifts(v) THEN 128 ELSE 0]

LenVarint(l) ==
    [k \in 1..LenShifts(l) + 1 |->
        ((l \div 2^(7 * (k - 1))) % 128) + IF k <= LenShifts(l) THEN 128 ELSE 0]

\* MarshalTo's SeqID field: absent for 0, varint below 1 << 49, else the
\* flagged header 0x80 and the eight bytes big-endian.
SeqIDBytes(v) ==
    IF AtLeastPow(v, 49)
    THEN <<128>> \o [k \in 1..8 |-> Field(v, 8 * (8 - k), 8)]
    ELSE IF AtLeastPow(v, 0) THEN <<0>> \o SeqVarint(v)
    ELSE <<>>

\* MarshalTo's Method (tag 1) and Error (tag 2) fields.
StringBytes(tag, s) ==
    IF s = <<>> THEN <<>> ELSE <<tag>> \o LenVarint(Len(s)) \o s

\* The bytes MarshalTo writes, ending with the 0x7f end marker.
MarshalTo(h) ==
    SeqIDBytes(h.SeqID) \o StringBytes(1, h.Method) \o StringBytes(2, h.Error)
        \o <<127>>

\* MarshalLen's size arithmetic for one string field.
StringLen(s) == IF Len(s) = 0 THEN 0 ELSE Len(s) + LenShifts(Len(s)) + 2

\* Mutant: the string fields' header and final length byte counted as one.
MarshalLenShort(h) ==
    1 + (IF AtLeastPow(h.SeqID, 49) THEN 9
         ELSE IF AtLeastPow(h.SeqID, 0) THEN 2 + SeqShifts(h.SeqID)
         ELSE 0)
      + (IF Len(h.Method) = 0 THEN 0 ELSE Len(h.Method) + LenShifts(Len(h.Method)) + 1)
      + (IF Len(h.Error) = 0 THEN 0 ELSE Len(h.Error) + LenShifts(Len(h.Error)) + 1)

MarshalLen(h) ==
    1 + (IF AtLeastPow(h.SeqID, 49) THEN 9
         ELSE IF AtLeastPow(h.SeqID, 0) THEN 2 + SeqShifts(h.SeqID)
         ELSE 0)
      + StringLen(h.Method) + StringLen(h.Error)

\* MarshalBinary: MarshalLen, make([]byte, l), MarshalTo.  MarshalTo panics
\* when the buffer is too small; bytes it does not write stay zero.
MarshalBinary(h) ==
    LET l == MarshalLen(h)
        b == MarshalTo(h)
    IN  IF l > ColferSizeMax THEN [err |-> "ColferMax", data |-> <<>>]
        ELSE IF Len(b) > l THEN [err |-> "panic", data |-> <<>>]
        ELSE [err |-> "none", data |-> b \o [k \in 1..l - Len(b) |-> 0]]
-----------------------------------------------------------------------------
(* Decoding.  A stage's result r records how far Unmarshal got: err, the    *)
(* index i of the next byte, the field header byte hdr just read, and the  *)
(* Header o as assigned so far (Unmarshal writes into the caller's Header  *)
(* and leaves absent fields as they were, also when it fails).  Reading    *)
(* data[j] with j >= len(data) is Go's index-out-of-range panic.           *)

Result(err, i, hdr, o) == [err |-> err, i |-> i, hdr |-> hdr, o |-> o]

\* The index of the byte that ends a varint starting at i: the first byte
\* below 0x80, or the ninth when the SeqID loop has reached shift 56; a
\* result >= len(data) means the loop ran out of data (io.EOF).
VarintEnd(data, i, capped) ==
    SetsExt!Min({j \in i..Len(data) :
                   j >= Len(data)
                   \/ (capped /\ j = i + 8)
                   \/ At(data, j) < 128})

\* The SeqID loop: x |= (b & 0x7f) << shift, the last byte unmasked.
SeqVarintValue(data, i, end) ==
    [t \in 0..63 |->
        LET k == IF t >= 56 THEN 8 ELSE t \div 7
            b == IF k = end - i THEN At(data, i + k) ELSE At(data, i + k) % 128
        IN  IF k > end - i THEN 0 ELSE (b \div 2^(t - 7 * k)) % 2]

\* The eight SeqID bytes after the 0x80 header, big-endian.
SeqFixedValue(data, i) ==
    [t \in 0..63 |-> (At(data, i + 7 - t \div 8) \div 2^(t % 8)) % 2]

\* Unmarshal up to the header byte that follows the SeqID field.
SeqStage(o, data) ==
    LET first == At(data, 0) IN
    CASE first = 0 ->
           LET end == VarintEnd(data, 1, TRUE)
               o1 == [o EXCEPT !.SeqID = SeqVarintValue(data, 1, end)]
           IN  IF end >= Len(data) THEN Result("EOF", 0, 0, o)
               ELSE IF end + 1 >= Len(data) THEN Result("EOF", 0, 0, o1)
               ELSE Result("none", end + 2, At(data, end + 1), o1)
      [] first = 128 ->
           IF 1 + 8 >= Len(data) THEN Result("EOF", 0, 0, o)
           ELSE Result("none", 10, At(data, 9),
                       [o EXCEPT !.SeqID = SeqFixedValue(data, 1)])
      [] OTHER -> Result("none", 1, first, o)

\* The uint32 length varint: bits shifted past 32 are lost, so only the
\* fifth byte's low four bits and the first four bytes count.  Big is TRUE
\* when the fifth byte makes the length at least 1 << 28.
LenValue(data, i, end) ==
    LET grp(k) == IF i + k = end THEN At(data, i + k) ELSE At(data, i + k) % 128
        part(k) == IF i + k <= end THEN grp(k) * 2^(7 * k) ELSE 0
    IN  [low |-> part(0) + part(1) + part(2) + part(3),
         big |-> end - i >= 4 /\ grp(4) % 16 # 0]

\* Mutant: the string field's bound check is `to > len(data)`.
StrStageLoose(tag, r, data) ==
    IF r.err # "none" \/ r.hdr # tag THEN r
    ELSE LET end == VarintEnd(data, r.i, FALSE)
             x == LenValue(data, r.i, end)
             to == end + 1 + x.low
             o1 == IF tag = 1 THEN [r.o EXCEPT !.Method = SubSeq(data, end + 2, to)]
                   ELSE [r.o EXCEPT !.Error = SubSeq(data, end + 2, to)]
         IN  IF end >= Len(data) THEN Result("EOF", 0, 0, r.o)
             ELSE IF x.big \/ to > Len(data) THEN Result("EOF", 0, 0, r.o)
             ELSE IF to >= Len(data) THEN Result("panic", 0, 0, r.o)
             ELSE Result("none", to + 1, At(data, to), o1)

\* Unmarshal's Method (tag 1) or Error (tag 2) field, when the current
\* header byte is its tag: the length, the bound check, string(data[i:to]),
\* then the next header byte data[to].
StrStage(tag, r, data) ==
    IF r.err # "none" \/ r.hdr # tag THEN r
    ELSE LET end == VarintEnd(data, r.i, FALSE)
             x == LenValue(data, r.i, end)
             to == end + 1 + x.low
             o1 == IF tag = 1 THEN [r.o EXCEPT !.Method = SubSeq(data, end + 2, to)]
                   ELSE [r.o EXCEPT !.Error = SubSeq(data, end + 2, to)]
         IN  IF end >= Len(data) THEN Result("EOF", 0, 0, r.o)
             ELSE IF x.big \/ to >= Len(data) THEN Result("EOF", 0, 0, r.o)
             ELSE Result("none", to + 1, At(data, to), o1)

\* Unmarshal on at most ColferSizeMax bytes: the fields in order, then the
\* 0x7f end marker, else ColferError.  It returns the bytes read.
UnmarshalCore(o, data) ==
    IF Len(data) = 0 THEN [err |-> "EOF", n |-> 0, o |-> o]
    ELSE LET r == StrStage(2, StrStage(1, SeqStage(o, data), data), data) IN
         IF r.err # "none" THEN [err |-> r.err, n |-> 0, o |-> r.o]
         ELSE IF r.hdr # 127 THEN [err |-> "ColferError", n |-> 0, o |-> r.o]
         ELSE [err |-> "none", n |-> r.i, o |-> r.o]

\* Unmarshal: longer input is decoded up to ColferSizeMax, where running
\* out of data becomes ColferMax.
Unmarshal(o, data) ==
    IF Len(data) > ColferSizeMax
    THEN LET r == UnmarshalCore(o, SubSeq(data, 1, ColferSizeMax)) IN
         IF r.err = "EOF" THEN [r EXCEPT !.err = "ColferMax"] ELSE r
    ELSE UnmarshalCore(o, data)

\* UnmarshalBinary: Unmarshal, and ColferTail when bytes are left over.
UnmarshalBinary(o, data) ==
    LET r == Unmarshal(o, data) IN
    IF r.err = "none" /\ r.n # Len(data) THEN [r EXCEPT !.err = "ColferTail"]
    ELSE r
-----------------------------------------------------------------------------
(* A frame on a byte stream.  The writer encodes hdr with MarshalBinary;    *)
(* the reader sees a prefix of the frame (the rest not yet arrived) or the *)
(* frame followed by bytes of whatever comes next.                          *)

VARIABLES
    hdr,    \* the Header encoded
    sent,   \* len of MarshalBinary's data
    wire    \* the bytes the reader holds

vars == <<hdr, sent, wire>>

TypeOK ==
    /\ hdr \in Headers
    /\ sent \in Nat
    /\ wire \in Seq(Bytes)

Init ==
    \E h \in Headers :
        /\ hdr = h
        /\ wire = MarshalBinary(h).data
        /\ sent = Len(wire)

\* The reader holds one byte less of the frame.
Cut ==
    /\ 0 < Len(wire) /\ Len(wire) <= sent
    /\ wire' = SubSeq(wire, 1, Len(wire) - 1)
    /\ UNCHANGED <<hdr, sent>>

\* A byte of the next frame arrives behind a whole one.
Trail ==
    /\ sent <= Len(wire) /\ Len(wire) < sent + MaxTail
    /\ \E b \in {0, 127} : wire' = Append(wire, b)
    /\ UNCHANGED <<hdr, sent>>

Next == Cut \/ Trail

Spec == Init /\ [][Next]_vars

-----------------------------------------------------------------------------
(* Properties.                                                               *)

(* Round trip (MarshalBinary, then Unmarshal into a zero Header): encoding  *)
(* succeeds, and Unmarshal reads exactly the frame, also with bytes behind *)
(* it, and yields the Header encoded; UnmarshalBinary accepts the frame    *)
(* alone and reports ColferTail when more follows.                          *)
RoundTrip ==
    sent <= Len(wire) =>
        /\ MarshalBinary(hdr).err = "none"
        /\ Unmarshal(ZeroHeader, wire) = [err |-> "none", n |-> sent, o |-> hdr]
        /\ UnmarshalBinary(ZeroHeader, wire).err
             = IF Len(wire) = sent THEN "none" ELSE "ColferTail"

(* Unmarshal on a strict prefix of a frame returns io.EOF: a partial frame  *)
(* is never taken for a whole one, and no length or index read past the    *)
(* data is used (ColferError or an index panic).                           *)
PrefixEOF ==
    Len(wire) < sent => Unmarshal(ZeroHeader, wire).err = "EOF"
=============================================================================
