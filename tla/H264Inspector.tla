--------------------------- MODULE H264Inspector ---------------------------
(***************************************************************************)
(* The H264 inspector (h264_inspector.cpp): what it reads from the Annex B *)
(* bytes of a packet.  A byte is a number; positions start at 1.           *)
(***************************************************************************)
EXTENDS Integers, Sequences

CONSTANT RbspMax \* bytes of a slice it decodes: 64

ASSUME H264InspectorAssumption == RbspMax \in Nat

-----------------------------------------------------------------------------
(* NAL units                                                               *)

Holds(bytes, i, code) ==
  /\ i + Len(code) - 1 <= Len(bytes)
  /\ SubSeq(bytes, i, i + Len(code) - 1) = code

\* The size of the start code at i, or 0.
StartCodeSize(bytes, i) ==
  IF Holds(bytes, i, <<0, 0, 1>>) THEN 3
  ELSE IF Holds(bytes, i, <<0, 0, 0, 1>>) THEN 4
  ELSE 0

\* The positions that follow a start code.
Headers(bytes) ==
  {i + StartCodeSize(bytes, i) :
     i \in {j \in 1 .. Len(bytes) : StartCodeSize(bytes, j) # 0}}
    \cap 1 .. Len(bytes)

NaluType(header) == header % 32

ContainsType(bytes, type) ==
  \E h \in Headers(bytes) : NaluType(bytes[h]) = type

ContainsVideoFrame(bytes) == \E type \in 1 .. 5 : ContainsType(bytes, type)

LooksLikeAnnexB(bytes) == Headers(bytes) # {}

-----------------------------------------------------------------------------
(* Slices                                                                  *)

Rbsp_AllBytes(payload) ==
  IF Len(payload) <= RbspMax THEN payload ELSE SubSeq(payload, 1, RbspMax)

\* One more byte of a payload, which is dropped when it is an emulation
\* prevention byte, or when there are enough.
Copy(r, byte) ==
  IF Len(r.bytes) = RbspMax THEN r
  ELSE IF r.zeros >= 2 /\ byte = 3 THEN [r EXCEPT !.zeros = 0]
  ELSE [bytes |-> Append(r.bytes, byte),
        zeros |-> IF byte = 0 THEN r.zeros + 1 ELSE 0]

Rbsp(payload) ==
  LET copied[k \in 0 .. Len(payload)] ==
        IF k = 0 THEN [bytes |-> <<>>, zeros |-> 0]
        ELSE Copy(copied[k - 1], payload[k])
  IN copied[Len(payload)].bytes

Weight == <<128, 64, 32, 16, 8, 4, 2, 1>>

\* From the highest bit of each byte to the lowest.
BitsOf(bytes) ==
  [k \in 1 .. 8 * Len(bytes) |->
     (bytes[(k - 1) \div 8 + 1] \div Weight[((k - 1) % 8) + 1]) % 2]

NumberOf(bits) ==
  LET number[k \in 0 .. Len(bits)] ==
        IF k = 0 THEN 0 ELSE 2 * number[k - 1] + bits[k]
  IN number[Len(bits)]

NoCode == [value |-> -1, next |-> 0]

\* The unsigned Exp-Golomb code at i: n zeros, a one and n more bits.
ExpGolomb(bits, i) ==
  LET ones == {k \in i .. Len(bits) : bits[k] = 1}
      one  == CHOOSE k \in ones : \A l \in ones : k <= l
      last == one + (one - i)
  IN IF ones = {} \/ one - i >= 32 \/ last > Len(bits) THEN NoCode
     ELSE [value |-> NumberOf(SubSeq(bits, one, last)) - 1,
           next  |-> last + 1]

\* The second code of a slice header, after first_mb_in_slice.
SliceType(payload) ==
  LET bits  == BitsOf(Rbsp(payload))
      first == ExpGolomb(bits, 1)
      slice == ExpGolomb(bits, first.next)
  IN IF first = NoCode \/ slice = NoCode THEN <<>>
     ELSE << <<"P", "B", "I", "SP", "SI">>[(slice.value % 5) + 1] >>

\* The names for the NAL unit with its header at h and its end before next.
NaluInfo(bytes, h, next) ==
  LET type == NaluType(bytes[h])
  IN IF type \in 6 .. 9 THEN << <<"SEI", "SPS", "PPS", "AUD">>[type - 5] >>
     ELSE IF type \in {1, 5} THEN SliceType(SubSeq(bytes, h + 1, next - 1))
     ELSE <<>>

\* The first start code at or after i, or the end.
NextStartCode(bytes, i) ==
  LET codes == {j \in i .. Len(bytes) : StartCodeSize(bytes, j) # 0}
  IN IF codes = {} THEN Len(bytes) + 1
     ELSE CHOOSE j \in codes : \A k \in codes : j <= k

\* One more NAL unit, if there is one at or after the offset.
CollectNext(bytes, r) ==
  LET code == NextStartCode(bytes, r.offset)
      h    == code + StartCodeSize(bytes, code)
      next == NextStartCode(bytes, h + 1)
  IN IF h > Len(bytes) THEN r
     ELSE [offset |-> next, info |-> r.info \o NaluInfo(bytes, h, next)]

CollectNaluInfo(bytes) ==
  LET collected[k \in 0 .. Len(bytes)] ==
        IF k = 0 THEN [offset |-> 1, info |-> <<>>]
        ELSE CollectNext(bytes, collected[k - 1])
  IN collected[Len(bytes)].info
=============================================================================
