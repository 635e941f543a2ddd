--------------------------- MODULE PacketIOProofs ---------------------------
(***************************************************************************)
(* Theorems about PacketIO, for any payloads, any capacities of the pipes, *)
(* any widths of the integers and any order of their bytes: its types,     *)
(* that the packets run() reads are those that were sent, and that the     *)
(* backend reads the configuration and the end packet.                     *)
(***************************************************************************)
EXTENDS PacketIO, TLAPS

-----------------------------------------------------------------------------
(* Parts of sequences                                                      *)

\* What of s comes after a and ends at b.
Slice(s, a, b) == SubSeq(s, a + 1, b)

LEMMA SliceProperties ==
  ASSUME NEW s \in Seq(Byte), NEW a \in Nat, NEW b \in Nat,
         a <= b, b <= Len(s)
  PROVE  /\ Slice(s, a, b) \in Seq(Byte)
         /\ Len(Slice(s, a, b)) = b - a
         /\ \A i \in 1 .. b - a : Slice(s, a, b)[i] = s[a + i]
  BY DEF Slice

LEMMA SliceOfSlice ==
  ASSUME NEW s \in Seq(Byte), NEW c \in 0 .. Len(s),
         NEW a \in Nat, NEW b \in Nat, a <= b, b <= Len(s) - c
  PROVE  Slice(Slice(s, c, Len(s)), a, b) = Slice(s, c + a, c + b)
  BY DEF Slice

LEMMA Joins ==
  ASSUME NEW s \in Seq(Byte), NEW t \in Seq(Byte)
  PROVE  /\ s \o t \in Seq(Byte)
         /\ Len(s) \in Nat /\ Len(t) \in Nat /\ Len(s \o t) = Len(s) + Len(t)
         /\ \A i \in 1 .. Len(s) : (s \o t)[i] = s[i]
         /\ \A i \in 1 .. Len(t) : (s \o t)[Len(s) + i] = t[i]
  OBVIOUS

LEMMA Same ==
  ASSUME NEW s \in Seq(Byte), NEW t \in Seq(Byte), Len(s) = Len(t),
         \A i \in 1 .. Len(s) : s[i] = t[i]
  PROVE  s = t
  OBVIOUS

LEMMA SlicesJoin ==
  ASSUME NEW s \in Seq(Byte), NEW c \in 0 .. Len(s)
  PROVE  /\ Slice(s, 0, c) \in Seq(Byte) /\ Len(Slice(s, 0, c)) = c
         /\ Slice(s, c, Len(s)) \in Seq(Byte)
         /\ Len(Slice(s, c, Len(s))) = Len(s) - c
         /\ Slice(s, 0, c) \o Slice(s, c, Len(s)) = s
  <1> DEFINE x == Slice(s, 0, c)
             y == Slice(s, c, Len(s))
  <1>1. /\ x \in Seq(Byte) /\ Len(x) = c
        /\ \A i \in 1 .. c : x[i] = s[i]
    BY DEF Slice
  <1>2. /\ y \in Seq(Byte) /\ Len(y) = Len(s) - c
        /\ \A i \in 1 .. Len(s) - c : y[i] = s[c + i]
    BY DEF Slice
  <1> HIDE DEF x, y
  <1>3. x \o y \in Seq(Byte) /\ Len(x \o y) = Len(s)
    BY <1>1, <1>2
  <1>4. ASSUME NEW i \in 1 .. Len(x \o y) PROVE (x \o y)[i] = s[i]
    <2>1. CASE i <= c
      BY <1>1, <1>2, <2>1
    <2>2. CASE i > c
      <3>1. i - c \in 1 .. Len(s) - c /\ c + (i - c) = i
        BY <1>1, <1>3, <2>2
      <3>2. (x \o y)[i] = y[i - c]
        BY <1>1, <1>2, <1>3, <2>2
      <3> QED
        BY <1>2, <3>1, <3>2
    <2> QED
      BY <1>1, <1>3, <2>1, <2>2
  <1> HIDE DEF x, y
  <1>5. x \o y = s
    BY <1>3, <1>4, Same
  <1> QED
    BY <1>1, <1>2, <1>5 DEF x, y

LEMMA SliceOfFirst ==
  ASSUME NEW s \in Seq(Byte), NEW t \in Seq(Byte), NEW a \in Nat, NEW b \in Nat,
         a <= b, b <= Len(s)
  PROVE  Slice(s \o t, a, b) = Slice(s, a, b)
  BY DEF Slice

LEMMA SliceOfSecond ==
  ASSUME NEW s \in Seq(Byte), NEW t \in Seq(Byte)
  PROVE  Slice(s \o t, Len(s), Len(s) + Len(t)) = t
  BY DEF Slice

LEMMA SplitUnique ==
  ASSUME NEW s \in Seq(Byte), NEW t \in Seq(Byte), NEW u \in Seq(Byte),
         NEW v \in Seq(Byte), s \o t = u \o v, Len(s) = Len(u)
  PROVE  s = u /\ t = v
  <1>1. /\ Len(s \o t) = Len(s) + Len(t)
        /\ \A i \in 1 .. Len(s) : (s \o t)[i] = s[i]
        /\ \A i \in 1 .. Len(t) : (s \o t)[Len(s) + i] = t[i]
    BY Joins
  <1>2. /\ Len(u \o v) = Len(u) + Len(v)
        /\ \A i \in 1 .. Len(u) : (u \o v)[i] = u[i]
        /\ \A i \in 1 .. Len(v) : (u \o v)[Len(u) + i] = v[i]
    BY Joins
  <1>3. s = u
    <2>1. \A i \in 1 .. Len(s) : s[i] = u[i]
      BY <1>1, <1>2
    <2> QED
      BY <2>1, Same
  <1>4. t = v
    <2>1. Len(t) = Len(v) /\ Len(t) \in Nat
      BY <1>1, <1>2
    <2>2. ASSUME NEW i \in 1 .. Len(t) PROVE t[i] = v[i]
      <3>1. (s \o t)[Len(s) + i] = t[i] /\ (u \o v)[Len(u) + i] = v[i]
        BY <1>1, <1>2, <2>1
      <3> QED
        BY <3>1
    <2> QED
      BY <2>1, <2>2, Same
  <1> QED
    BY <1>3, <1>4

-----------------------------------------------------------------------------
(* A stream of blocks                                                      *)

Nonsense == {0, MaximumPacketSize + 1}

NonsenseAt(stream, a) ==
  /\ a + SizeBytes <= Len(stream)
  /\ \E n \in Nonsense : Slice(stream, a, a + SizeBytes) = SizeImage[n]

\* stream is the blocks from number m on, one after the other; it ends after
\* the last one, or goes on with a size that no packet has.
CarriesTo(blocks, stream, m, g) ==
  \E at \in [m .. g + 1 -> 0 .. Len(stream)] :
    /\ at[m] = 0
    /\ \A j, k \in m .. g + 1 : j <= k => at[j] <= at[k]
    /\ \A k \in m .. g : Slice(stream, at[k], at[k + 1]) = blocks[k]
    /\ \/ g = Len(blocks) /\ at[g + 1] = Len(stream)
       \/ NonsenseAt(stream, at[g + 1])

Carries(blocks, stream, m) ==
  \E g \in m - 1 .. Len(blocks) : CarriesTo(blocks, stream, m, g)

LEMMA SizesTyped ==
  /\ SizeBytes \in Nat \ {0} /\ SizeMax \in Nat
  /\ StampBytes \in Nat \ {0} /\ StampMax \in Nat
  /\ MaximumPacketSize \in Nat \ {0} /\ MaximumPacketSize < SizeMax
  /\ Kind \subseteq Byte
  BY PacketIOAssumption DEF IsImage

LEMMA CarriesNothing ==
  ASSUME NEW blocks \in Seq(Seq(Byte))
  PROVE  Carries(blocks, <<>>, Len(blocks) + 1)
  <1> DEFINE m  == Len(blocks) + 1
             at == [k \in {m} |-> 0]
  <1>1. m \in Nat /\ m - 1 \in m - 1 .. Len(blocks) /\ m .. (m - 1) + 1 = {m}
    OBVIOUS
  <1>2. Len(<<>>) = 0 /\ at \in [m .. (m - 1) + 1 -> 0 .. Len(<<>>)]
    BY <1>1
  <1>3. /\ at[m] = 0
        /\ \A j, k \in m .. (m - 1) + 1 : j <= k => at[j] <= at[k]
        /\ m .. m - 1 = {}
        /\ m - 1 = Len(blocks) /\ at[(m - 1) + 1] = Len(<<>>)
    BY <1>1, <1>2
  <1> HIDE DEF at
  <1> QED
    BY <1>1, <1>2, <1>3 DEF Carries, CarriesTo

\* What a stream that is not empty begins with.
LEMMA CarriesFirst ==
  ASSUME NEW blocks \in Seq(Seq(Byte)), NEW stream \in Seq(Byte),
         NEW m \in 1 .. Len(blocks) + 1, Carries(blocks, stream, m),
         stream # <<>>
  PROVE  \/ /\ m <= Len(blocks)
            /\ \E rest \in Seq(Byte) :
                 stream = blocks[m] \o rest /\ Carries(blocks, rest, m + 1)
         \/ NonsenseAt(stream, 0)
  <1>0. PICK g \in m - 1 .. Len(blocks) : CarriesTo(blocks, stream, m, g)
    BY DEF Carries
  <1>1. PICK at \in [m .. g + 1 -> 0 .. Len(stream)] :
          /\ at[m] = 0
          /\ \A j, k \in m .. g + 1 : j <= k => at[j] <= at[k]
          /\ \A k \in m .. g : Slice(stream, at[k], at[k + 1]) = blocks[k]
          /\ \/ g = Len(blocks) /\ at[g + 1] = Len(stream)
             \/ NonsenseAt(stream, at[g + 1])
    BY <1>0 DEF CarriesTo
  <1>2. m \in Nat /\ g \in Nat /\ Len(blocks) \in Nat /\ Len(stream) \in Nat \ {0}
    OBVIOUS
  <1>3. CASE g < m
    <2>1. g + 1 = m
      BY <1>2, <1>3
    <2> QED
      BY <1>1, <1>2, <2>1
  <1>4. CASE m <= g
    <2> DEFINE c    == at[m + 1]
               rest == Slice(stream, c, Len(stream))
    <2>1. /\ m + 1 \in m .. g + 1 /\ c \in 0 .. Len(stream)
          /\ \A k \in m + 1 .. g + 1 :
               k \in m .. g + 1 /\ at[k] \in 0 .. Len(stream) /\ c <= at[k]
      BY <1>1, <1>2, <1>4
    <2>2. /\ rest \in Seq(Byte) /\ Len(rest) = Len(stream) - c
          /\ Slice(stream, 0, c) \o rest = stream
      <3> HIDE DEF c
      <3> QED
        BY <2>1, SlicesJoin
    <2>3. stream = blocks[m] \o rest
      <3>1. Slice(stream, at[m], at[m + 1]) = blocks[m]
        BY <1>1, <1>2, <1>4
      <3> HIDE DEF rest
      <3> QED
        BY <1>1, <2>2, <3>1
    <2>4. at[m + 1] = c
      OBVIOUS
    <2>5. \A u, v \in Nat : u <= v /\ v <= Len(rest) =>
            Slice(rest, u, v) = Slice(stream, c + u, c + v)
      <3> HIDE DEF c
      <3>1. \A u, v \in Nat : u <= v /\ v <= Len(stream) - c =>
              Slice(Slice(stream, c, Len(stream)), u, v) = Slice(stream, c + u, c + v)
        BY <2>1, SliceOfSlice
      <3>2. Len(rest) = Len(stream) - c
        BY <2>2
      <3> QED
        BY <3>1, <3>2
    <2> HIDE DEF c, rest
    <2> DEFINE above == [k \in m + 1 .. g + 1 |-> at[k] - c]
    <2>6. \A k \in m + 1 .. g + 1 :
            /\ above[k] \in 0 .. Len(rest) /\ above[k] \in Nat
            /\ c + above[k] = at[k] /\ above[k] = at[k] - c
      <3> SUFFICES ASSUME NEW k \in m + 1 .. g + 1
                   PROVE  /\ above[k] \in 0 .. Len(rest) /\ above[k] \in Nat
                          /\ c + above[k] = at[k] /\ above[k] = at[k] - c
        OBVIOUS
      <3>1. above[k] = at[k] - c
        OBVIOUS
      <3>2. at[k] \in 0 .. Len(stream) /\ c <= at[k] /\ c \in 0 .. Len(stream)
        BY <2>1
      <3> HIDE DEF above
      <3>3. \A x, y, z \in Nat : x <= y /\ y <= z =>
              y - x \in Nat /\ y - x <= z - x /\ x + (y - x) = y /\ z - x \in Nat
        OBVIOUS
      <3>4. /\ at[k] - c \in Nat /\ at[k] - c <= Len(stream) - c
            /\ c + (at[k] - c) = at[k] /\ Len(stream) - c \in Nat
        BY <1>2, <3>2, <3>3
      <3> QED
        BY <2>2, <3>1, <3>4
    <2>7. above \in [m + 1 .. g + 1 -> 0 .. Len(rest)]
      BY <2>6
    <2> HIDE DEF above
    <2>8. above[m + 1] = 0
      BY <1>2, <1>4, <2>1, <2>4, <2>6
    <2>9. \A j, k \in m + 1 .. g + 1 : j <= k => above[j] <= above[k]
      <3> SUFFICES ASSUME NEW j \in m + 1 .. g + 1, NEW k \in m + 1 .. g + 1, j <= k
                   PROVE  above[j] <= above[k]
        OBVIOUS
      <3>1. at[j] <= at[k]
        BY <1>1, <2>1
      <3> DEFINE x == above[j]
                 y == above[k]
      <3>2. x \in Nat /\ c + x = at[j] /\ y \in Nat /\ c + y = at[k] /\ c \in Nat
        <4>1. c \in Nat
          BY <1>2, <2>1
        <4> QED
          BY <2>6, <4>1, Zenon
      <3> HIDE DEF x, y
      <3>3. c + x <= c + y
        BY <3>1, <3>2
      <3>4. x <= y
        BY <3>2, <3>3
      <3> QED
        BY <3>4 DEF x, y
    <2>10. ASSUME NEW k \in m + 1 .. g
           PROVE  Slice(rest, above[k], above[k + 1]) = blocks[k]
      <3>1. /\ k \in m .. g /\ k \in m + 1 .. g + 1 /\ k + 1 \in m + 1 .. g + 1
            /\ k <= k + 1
        BY <1>2, <1>4
      <3>2. /\ above[k] \in Nat /\ above[k + 1] \in Nat /\ above[k] <= above[k + 1]
            /\ above[k + 1] <= Len(rest)
        BY <2>2, <2>6, <2>9, <3>1
      <3>3. Slice(rest, above[k], above[k + 1])
              = Slice(stream, c + above[k], c + above[k + 1])
        BY <2>5, <3>2
      <3> QED
        BY <1>1, <2>6, <3>1, <3>3
    <2>11. \/ g = Len(blocks) /\ above[g + 1] = Len(rest)
           \/ NonsenseAt(rest, above[g + 1])
      <3>1. g + 1 \in m + 1 .. g + 1 /\ above[g + 1] \in Nat
        BY <1>2, <1>4, <2>6
      <3>2. CASE g = Len(blocks) /\ at[g + 1] = Len(stream)
        BY <1>2, <2>1, <2>2, <2>6, <3>1, <3>2
      <3>3. CASE NonsenseAt(stream, at[g + 1])
        <4>1. at[g + 1] + SizeBytes <= Len(stream) /\ SizeBytes \in Nat
          BY <3>3, SizesTyped DEF NonsenseAt
        <4>2. /\ above[g + 1] + SizeBytes \in Nat
              /\ above[g + 1] <= above[g + 1] + SizeBytes
              /\ above[g + 1] + SizeBytes <= Len(rest)
              /\ c + (above[g + 1] + SizeBytes) = at[g + 1] + SizeBytes
          <5>1. c + above[g + 1] = at[g + 1] /\ c \in Nat
            BY <1>2, <2>1, <2>6, <3>1
          <5> DEFINE x == above[g + 1]
                     y == at[g + 1]
          <5>2. /\ x \in Nat /\ SizeBytes \in Nat /\ c \in Nat /\ c + x = y
                /\ y + SizeBytes <= Len(stream) /\ Len(stream) \in Nat
                /\ Len(rest) = Len(stream) - c
            BY <1>2, <2>2, <3>1, <4>1, <5>1
          <5> HIDE DEF x, y
          <5>3. /\ x + SizeBytes \in Nat /\ x <= x + SizeBytes
                /\ x + SizeBytes <= Len(rest)
                /\ c + (x + SizeBytes) = y + SizeBytes
            BY <5>2
          <5> QED
            BY <5>3 DEF x, y
        <4>3. Slice(rest, above[g + 1], above[g + 1] + SizeBytes)
                = Slice(stream, c + above[g + 1], c + (above[g + 1] + SizeBytes))
          BY <2>5, <3>1, <4>2
        <4>4. c + above[g + 1] = at[g + 1]
          BY <2>6, <3>1
        <4> QED
          BY <3>3, <4>2, <4>3, <4>4 DEF NonsenseAt
      <3> QED
        BY <1>1, <3>2, <3>3
    <2>12. g \in (m + 1) - 1 .. Len(blocks)
      BY <1>2, <1>4
    <2>13. Carries(blocks, rest, m + 1)
      BY <2>7, <2>8, <2>9, <2>10, <2>11, <2>12 DEF Carries, CarriesTo
    <2>14. m <= Len(blocks)
      BY <1>2, <1>4
    <2> QED
      BY <2>2, <2>3, <2>13, <2>14
  <1> QED
    <2>1. g < m \/ m <= g
      BY <1>2
    <2> QED
      BY <1>3, <1>4, <2>1

LEMMA NonsenseKept ==
  ASSUME NEW s \in Seq(Byte), NEW t \in Seq(Byte), NEW a \in Nat,
         NonsenseAt(s, a)
  PROVE  NonsenseAt(s \o t, a)
  <1>1. a + SizeBytes \in Nat /\ a <= a + SizeBytes /\ a + SizeBytes <= Len(s)
    BY SizesTyped DEF NonsenseAt
  <1>2. Len(s \o t) = Len(s) + Len(t) /\ Len(s) \in Nat /\ Len(t) \in Nat
    BY Joins
  <1>3. Slice(s \o t, a, a + SizeBytes) = Slice(s, a, a + SizeBytes)
    BY <1>1, SliceOfFirst
  <1> QED
    BY <1>1, <1>2, <1>3 DEF NonsenseAt

\* One more block at the end, or a size that no packet has.
LEMMA CarriesMore ==
  ASSUME NEW blocks \in Seq(Seq(Byte)), NEW stream \in Seq(Byte),
         NEW m \in 1 .. Len(blocks) + 1, Carries(blocks, stream, m),
         NEW b \in Seq(Byte)
  PROVE  /\ Carries(Append(blocks, b), stream \o b, m)
         /\ (\E n \in Nonsense : b = SizeImage[n]) /\ Len(b) = SizeBytes
              => Carries(blocks, stream \o b, m)
  <1> DEFINE longer == stream \o b
             more   == Append(blocks, b)
  <1>0. PICK g \in m - 1 .. Len(blocks) : CarriesTo(blocks, stream, m, g)
    BY DEF Carries
  <1>1. PICK at \in [m .. g + 1 -> 0 .. Len(stream)] :
          /\ at[m] = 0
          /\ \A j, k \in m .. g + 1 : j <= k => at[j] <= at[k]
          /\ \A k \in m .. g : Slice(stream, at[k], at[k + 1]) = blocks[k]
          /\ \/ g = Len(blocks) /\ at[g + 1] = Len(stream)
             \/ NonsenseAt(stream, at[g + 1])
    BY <1>0 DEF CarriesTo
  <1>2. /\ m \in Nat /\ g \in Nat /\ Len(blocks) \in Nat /\ m <= g + 1
        /\ Len(stream) \in Nat /\ Len(b) \in Nat
        /\ g + 1 \in m .. g + 1 /\ at[g + 1] \in 0 .. Len(stream)
    BY <1>1
  <1>3. /\ longer \in Seq(Byte) /\ Len(longer) = Len(stream) + Len(b)
        /\ Slice(longer, Len(stream), Len(longer)) = b
    BY Joins, SliceOfSecond
  <1>4. /\ Len(more) = Len(blocks) + 1 /\ more[Len(blocks) + 1] = b
        /\ \A k \in 1 .. Len(blocks) : more[k] = blocks[k]
    OBVIOUS
  <1> HIDE DEF more
  <1>5. \A k \in m .. g : Slice(longer, at[k], at[k + 1]) = blocks[k]
    <2> SUFFICES ASSUME NEW k \in m .. g
                 PROVE  Slice(longer, at[k], at[k + 1]) = blocks[k]
      OBVIOUS
    <2>1. /\ k \in m .. g + 1 /\ k + 1 \in m .. g + 1 /\ k <= k + 1
      BY <1>2
    <2>2. at[k] \in Nat /\ at[k + 1] \in Nat /\ at[k] <= at[k + 1]
          /\ at[k + 1] <= Len(stream)
      BY <1>1, <2>1
    <2>3. Slice(longer, at[k], at[k + 1]) = Slice(stream, at[k], at[k + 1])
      BY <2>2, SliceOfFirst
    <2> QED
      BY <1>1, <2>3
  <1>6. at \in [m .. g + 1 -> 0 .. Len(longer)]
    BY <1>1, <1>2, <1>3
  <1>7. CASE NonsenseAt(stream, at[g + 1])
    <2>1. NonsenseAt(longer, at[g + 1])
      BY <1>2, <1>7, NonsenseKept
    <2> HIDE DEF longer
    <2>2. Carries(blocks, longer, m)
      BY <1>1, <1>5, <1>6, <2>1 DEF Carries, CarriesTo
    <2>3. /\ g \in m - 1 .. Len(more)
          /\ \A k \in m .. g : Slice(longer, at[k], at[k + 1]) = more[k]
      <3>1. g \in m - 1 .. Len(more)
        BY <1>2, <1>4
      <3>2. ASSUME NEW k \in m .. g
            PROVE  Slice(longer, at[k], at[k + 1]) = more[k]
        <4>1. k \in 1 .. Len(blocks)
          BY <1>2
        <4> QED
          BY <1>4, <1>5, <4>1
      <3> QED
        BY <3>1, <3>2
    <2>4. Carries(more, longer, m)
      BY <1>1, <1>6, <2>1, <2>3 DEF Carries, CarriesTo
    <2> QED
      BY <2>2, <2>4 DEF longer, more
  <1>8. CASE g = Len(blocks) /\ at[g + 1] = Len(stream)
    <2>1. ASSUME NEW n \in Nonsense, b = SizeImage[n], Len(b) = SizeBytes
          PROVE  Carries(blocks, longer, m)
      <3>1. NonsenseAt(longer, at[g + 1])
        BY <1>2, <1>3, <1>8, <2>1 DEF NonsenseAt
      <3> HIDE DEF longer
      <3> QED
        BY <1>1, <1>5, <1>6, <3>1 DEF Carries, CarriesTo
    <2> DEFINE h    == g + 1
               upto == [k \in m .. h + 1 |-> IF k = h + 1 THEN Len(longer) ELSE at[k]]
    <2>2. h \in m - 1 .. Len(more) /\ h = Len(more)
      BY <1>2, <1>4, <1>8
    <2>3. /\ \A k \in m .. g + 1 : k \in m .. h + 1 /\ k # h + 1 /\ upto[k] = at[k]
          /\ h + 1 \in m .. h + 1 /\ upto[h + 1] = Len(longer)
          /\ \A k \in m .. h + 1 : k \in m .. g + 1 \/ k = h + 1
      BY <1>2
    <2> HIDE DEF longer
    <2>4. upto \in [m .. h + 1 -> 0 .. Len(longer)]
      BY <1>2, <1>3, <1>6
    <2> HIDE DEF upto
    <2>5. upto[m] = 0
      BY <1>1, <1>2, <2>3
    <2>6. \A j, k \in m .. h + 1 : j <= k => upto[j] <= upto[k]
      <3> SUFFICES ASSUME NEW j \in m .. h + 1, NEW k \in m .. h + 1, j <= k
                   PROVE  upto[j] <= upto[k]
        OBVIOUS
      <3>1. CASE k \in m .. g + 1
        <4>1. j \in m .. g + 1
          BY <1>2, <3>1
        <4> QED
          BY <1>1, <2>3, <3>1, <4>1
      <3>2. CASE k = h + 1
        BY <1>3, <2>3, <2>4, <3>2
      <3> QED
        BY <2>3, <3>1, <3>2
    <2>7. \A k \in m .. h : Slice(longer, upto[k], upto[k + 1]) = more[k]
      <3> SUFFICES ASSUME NEW k \in m .. h
                   PROVE  Slice(longer, upto[k], upto[k + 1]) = more[k]
        OBVIOUS
      <3>1. CASE k \in m .. g
        <4>1. k \in m .. g + 1 /\ k + 1 \in m .. g + 1 /\ k \in 1 .. Len(blocks)
          BY <1>2, <3>1
        <4> QED
          BY <1>4, <1>5, <2>3, <3>1, <4>1
      <3>2. CASE k = h
        <4>1. upto[k] = Len(stream) /\ upto[k + 1] = Len(longer)
          BY <1>2, <1>8, <2>3, <3>2
        <4>2. more[k] = b
          BY <1>4, <1>8, <3>2
        <4> QED
          BY <1>3, <4>1, <4>2
      <3> QED
        BY <1>2, <3>1, <3>2
    <2>8. Carries(more, longer, m)
      <3> HIDE DEF h
      <3> QED
        BY <2>2, <2>3, <2>4, <2>5, <2>6, <2>7 DEF Carries, CarriesTo
    <2> QED
      BY <2>1, <2>8 DEF longer, more
  <1> QED
    BY <1>1, <1>7, <1>8

-----------------------------------------------------------------------------
(* Packets as bytes                                                        *)

LEMMA SequenceOf ==
  ASSUME NEW n \in Nat, NEW f \in [1 .. n -> Byte]
  PROVE  f \in Seq(Byte) /\ Len(f) = n
  OBVIOUS

LEMMA ImageProperties ==
  ASSUME NEW image, NEW width, NEW limit, IsImage(image, width, limit),
         NEW n \in 0 .. limit
  PROVE  /\ image[n] \in Seq(Byte)
         /\ Len(image[n]) = width
         /\ Number(image[n], image) = n
  <1>1. /\ width \in Nat /\ image[n] \in [1 .. width -> Byte]
        /\ DOMAIN image = 0 .. limit
        /\ \A k \in 0 .. limit : image[k] = image[n] => k = n
    BY DEF IsImage
  <1>2. Number(image[n], image) = n
    BY <1>1 DEF Number
  <1> QED
    BY <1>1, <1>2, SequenceOf

LEMMA SizeProperties ==
  ASSUME NEW n \in 0 .. SizeMax
  PROVE  /\ SizeImage[n] \in Seq(Byte) /\ Len(SizeImage[n]) = SizeBytes
         /\ Number(SizeImage[n], SizeImage) = n
  BY ImageProperties, PacketIOAssumption

LEMMA StampProperties ==
  ASSUME NEW n \in 0 .. StampMax
  PROVE  /\ StampImage[n] \in Seq(Byte) /\ Len(StampImage[n]) = StampBytes
         /\ Number(StampImage[n], StampImage) = n
  BY ImageProperties, PacketIOAssumption

LEMMA SendableTyped ==
  ASSUME NEW p \in Sendable
  PROVE  /\ p \in [kind : Kind, stamp : Nat \cup {None}, payload : Seq(Byte)]
         /\ p.kind \in Kind /\ p.kind \in Byte /\ p.payload \in Seq(Byte)
         /\ p.stamp = None \/ p.stamp \in 0 .. StampMax
         /\ Stamp(p) \in Seq(Byte)
         /\ Len(Stamp(p)) = IF p.stamp = None THEN 0 ELSE StampBytes
         /\ SizeOf(p) \in 1 .. SizeMax
         /\ SizeOf(p) = 1 + Len(Stamp(p)) + Len(p.payload)
  <1>1. /\ p \in [kind : Kind, stamp : TimeStamps \cup {None}, payload : Payloads]
        /\ SizeOf(p) <= SizeMax
    BY DEF Sendable
  <1>2. /\ TimeStamps \subseteq 0 .. StampMax /\ Payloads \subseteq Seq(Byte)
        /\ StampMax \in Nat
    BY PacketIOAssumption, SizesTyped
  <1>0. /\ p.kind \in Kind /\ p.payload \in Payloads
        /\ p.stamp \in TimeStamps \cup {None}
        /\ p = [kind |-> p.kind, stamp |-> p.stamp, payload |-> p.payload]
    BY <1>1
  <1>3. /\ p.kind \in Kind /\ p.payload \in Seq(Byte) /\ Len(p.payload) \in Nat
        /\ p.stamp = None \/ p.stamp \in 0 .. StampMax
    BY <1>0, <1>2
  <1>4. p \in [kind : Kind, stamp : Nat \cup {None}, payload : Seq(Byte)]
    <2>1. p.stamp \in Nat \cup {None}
      BY <1>2, <1>3
    <2> QED
      BY <1>0, <1>3, <2>1
  <1>5. /\ Stamp(p) \in Seq(Byte)
        /\ Len(Stamp(p)) = IF p.stamp = None THEN 0 ELSE StampBytes
    BY <1>3, StampProperties DEF Stamp
  <1>6. SizeOf(p) = 1 + Len(Stamp(p)) + Len(p.payload) /\ SizeOf(p) \in 1 .. SizeMax
    BY <1>1, <1>3, <1>5, SizesTyped DEF SizeOf
  <1> QED
    BY <1>3, <1>4, <1>5, <1>6, SizesTyped

\* What of a packet is on the wire after each of its fields.
OnWire(p, bare)    == IF bare /\ p.kind = Data THEN <<>> ELSE p.payload
AfterKind(p, bare) == Stamp(p) \o OnWire(p, bare)
AfterSize(p, bare) == <<p.kind>> \o AfterKind(p, bare)
Wire(p, bare)      == SizeImage[SizeOf(p)] \o AfterSize(p, bare)

LEMMA WireTyped ==
  ASSUME NEW p \in Sendable, NEW bare \in BOOLEAN
  PROVE  /\ OnWire(p, bare) \in Seq(Byte)
         /\ AfterKind(p, bare) \in Seq(Byte)
         /\ AfterSize(p, bare) \in Seq(Byte)
         /\ Wire(p, bare) \in Seq(Byte)
         /\ <<p.kind>> \in Seq(Byte) /\ Len(<<p.kind>>) = 1
         /\ Stamp(p) \in Seq(Byte)
         /\ SizeImage[SizeOf(p)] \in Seq(Byte)
  <1>0. /\ p.kind \in Byte /\ p.payload \in Seq(Byte) /\ Stamp(p) \in Seq(Byte)
        /\ SizeOf(p) \in 0 .. SizeMax
    <2>1. SizeOf(p) \in 1 .. SizeMax
      BY SendableTyped
    <2>2. SizeOf(p) \in 0 .. SizeMax
      BY <2>1, SizesTyped
    <2> QED
      BY <2>2, SendableTyped
  <1>1. OnWire(p, bare) \in Seq(Byte)
    BY <1>0 DEF OnWire
  <1>2. AfterKind(p, bare) \in Seq(Byte)
    BY <1>0, <1>1, Joins DEF AfterKind
  <1>3. <<p.kind>> \in Seq(Byte) /\ Len(<<p.kind>>) = 1
    BY <1>0
  <1>4. AfterSize(p, bare) \in Seq(Byte)
    BY <1>2, <1>3, Joins DEF AfterSize
  <1>5. SizeImage[SizeOf(p)] \in Seq(Byte)
    BY <1>0, SizeProperties
  <1>6. Wire(p, bare) \in Seq(Byte)
    BY <1>4, <1>5, Joins DEF Wire
  <1> QED
    BY <1>0, <1>1, <1>2, <1>3, <1>4, <1>5, <1>6

LEMMA Associative ==
  ASSUME NEW s \in Seq(Byte), NEW t \in Seq(Byte), NEW u \in Seq(Byte)
  PROVE  (s \o t) \o u = s \o (t \o u)
  OBVIOUS

LEMMA NothingJoined ==
  ASSUME NEW s \in Seq(Byte)
  PROVE  s \o <<>> = s /\ <<>> \o s = s /\ <<>> \in Seq(Byte)
  OBVIOUS

LEMMA EncodedIsWire ==
  ASSUME NEW p \in Sendable, noPayload \in BOOLEAN
  PROVE  Encoded(p) = Wire(p, noPayload)
  <1> DEFINE size == SizeImage[SizeOf(p)]
             w    == OnWire(p, noPayload)
  <1>1. /\ size \in Seq(Byte) /\ <<p.kind>> \in Seq(Byte)
        /\ Stamp(p) \in Seq(Byte) /\ w \in Seq(Byte)
    BY WireTyped
  <1>2. Encoded(p) = size \o <<p.kind>> \o Stamp(p) \o w
    BY DEF Encoded, HasPayload, OnWire
  <1> HIDE DEF size, w
  <1>3. size \o <<p.kind>> \in Seq(Byte) /\ Stamp(p) \o w \in Seq(Byte)
    BY <1>1, Joins
  <1>4. size \o <<p.kind>> \o Stamp(p) \o w = size \o <<p.kind>> \o (Stamp(p) \o w)
    BY <1>1, <1>3, Associative
  <1>5. size \o <<p.kind>> \o (Stamp(p) \o w)
          = size \o (<<p.kind>> \o (Stamp(p) \o w))
    BY <1>1, <1>3, Associative
  <1> QED
    BY <1>2, <1>4, <1>5 DEF Wire, AfterSize, AfterKind, size, w

-----------------------------------------------------------------------------
(* The invariant of the video pipe                                         *)

\* The packet that run() reads, or will read next.
Awaited == Len(delivered) + 1
Current == sent[Awaited]

\* What run() has yet to take from the pipe, and what it has of a field.
Stream == got \o (video \o sending)

Part ==
  CASE field = "kind"    -> AfterSize(Current, noPayload)
    [] field = "stamp"   -> AfterKind(Current, noPayload)
    [] field = "payload" -> OnWire(Current, noPayload)
    [] OTHER             -> <<>>

Following == IF field \in {"check", "size"} THEN Awaited ELSE Awaited + 1

Wires == [i \in 1 .. Len(sent) |-> Wire(sent[i], noPayload)]

\* The stream has what of the current packet is still to come, and then the
\* packets after it.
StreamInv ==
  /\ Following \in 1 .. Len(sent) + 1
  /\ \E rest \in Seq(Byte) :
       Stream = Part \o rest /\ Carries(Wires, rest, Following)

\* What read_video_packet knows of the current packet is true.
PacketInv ==
  /\ field \in {"check", "size", "kind"} => packet = Blank
  /\ field = "kind" => left = SizeOf(Current)
  /\ field = "stamp" =>
       /\ Current.stamp # None
       /\ packet = [Blank EXCEPT !.kind = Current.kind]
       /\ left = SizeOf(Current) - 1
  /\ field = "payload" =>
       /\ HasPayload(Current)
       /\ packet = [Current EXCEPT !.payload = <<>>]
       /\ left = Len(Current.payload)

GotInv == IF field = "check" THEN got = <<>> ELSE Len(got) < Wanted

DeliveredInv ==
  /\ sent \in Seq(Sendable)
  /\ Len(delivered) <= Len(sent)
  /\ \A i \in 1 .. Len(delivered) : delivered[i] = Received(sent[i])

VideoInv ==
  /\ DeliveredInv
  /\ phase \in {"config", "video"} => StreamInv /\ PacketInv /\ GotInv

LEMMA WiresTyped ==
  ASSUME sent \in Seq(Sendable), noPayload \in BOOLEAN
  PROVE  /\ Wires \in Seq(Seq(Byte)) /\ Len(Wires) = Len(sent)
         /\ Len(sent) \in Nat
         /\ \A i \in 1 .. Len(sent) :
              sent[i] \in Sendable /\ Wires[i] = Wire(sent[i], noPayload)
  <1>1. Len(sent) \in Nat /\ \A i \in 1 .. Len(sent) : sent[i] \in Sendable
    OBVIOUS
  <1>2. \A i \in 1 .. Len(sent) : Wire(sent[i], noPayload) \in Seq(Byte)
    BY <1>1, WireTyped
  <1>3. Wires \in Seq(Seq(Byte)) /\ Len(Wires) = Len(sent)
    BY <1>1, <1>2 DEF Wires
  <1>4. \A i \in 1 .. Len(sent) : Wires[i] = Wire(sent[i], noPayload)
    BY DEF Wires
  <1> QED
    BY <1>1, <1>3, <1>4

LEMMA CurrentTyped ==
  ASSUME DeliveredInv, StreamInv, delivered \in Seq(Packet)
  PROVE  /\ Awaited \in Nat \ {0} /\ Awaited <= Len(sent) + 1
         /\ field \notin {"check", "size"} =>
              Awaited \in 1 .. Len(sent) /\ Current \in Sendable
  <1>1. Awaited \in Nat \ {0} /\ Len(sent) \in Nat
    BY DEF Awaited, DeliveredInv
  <1>2. field \notin {"check", "size"} => Awaited + 1 <= Len(sent) + 1
    BY <1>1 DEF StreamInv, Following
  <1>3. field \notin {"check", "size"} => Awaited \in 1 .. Len(sent)
    BY <1>1, <1>2
  <1> QED
    BY <1>1, <1>3 DEF Current, DeliveredInv, Awaited

LEMMA VideoInit == Init => VideoInv
  <1> SUFFICES ASSUME Init PROVE VideoInv
    OBVIOUS
  <1>1. DeliveredInv
    BY DEF Init, DeliveredInv
  <1>2. /\ Len(sent) = 0 /\ Len(delivered) = 0 /\ noPayload \in BOOLEAN
        /\ got = <<>> /\ video = <<>> /\ sending = <<>> /\ field = "check"
        /\ packet = Blank
    BY DEF Init
  <1>3. Stream = <<>> /\ Part = <<>> /\ Following = 1
    BY <1>2, NothingJoined DEF Stream, Part, Following, Awaited
  <1>4. Carries(Wires, <<>>, 1)
    <2>1. Wires \in Seq(Seq(Byte)) /\ Len(Wires) = 0
      BY <1>1, <1>2, WiresTyped DEF DeliveredInv
    <2>2. Carries(Wires, <<>>, 0 + 1)
      BY <2>1, CarriesNothing
    <2> QED
      BY <2>2
  <1>5. StreamInv
    <2>1. <<>> \in Seq(Byte) /\ Stream = Part \o <<>>
      BY <1>3, NothingJoined
    <2>2. Following \in 1 .. Len(sent) + 1
      BY <1>2, <1>3
    <2>3. Carries(Wires, <<>>, Following)
      BY <1>3, <1>4
    <2> QED
      BY <2>1, <2>2, <2>3 DEF StreamInv
  <1>6. PacketInv /\ GotInv
    BY <1>2 DEF PacketInv, GotInv
  <1> QED
    BY <1>1, <1>5, <1>6 DEF VideoInv

LEMMA AppendProperties ==
  ASSUME NEW S, NEW s \in Seq(S), NEW e \in S
  PROVE  /\ Append(s, e) \in Seq(S)
         /\ Len(Append(s, e)) = Len(s) + 1
         /\ Append(s, e)[Len(s) + 1] = e
         /\ \A i \in 1 .. Len(s) : Append(s, e)[i] = s[i]
  OBVIOUS

\* A step that moves bytes along the stream, or none, and reads no field.
LEMMA StreamKept ==
  ASSUME VideoInv, Stream' = Stream,
         UNCHANGED <<field, left, packet, delivered, sent, noPayload>>,
         phase' \in {"config", "video"} =>
           phase \in {"config", "video"} /\ (GotInv => GotInv')
  PROVE  VideoInv'
  <1>1. DeliveredInv'
    BY DEF VideoInv, DeliveredInv, Received, HasPayload
  <1>2. ASSUME StreamInv PROVE StreamInv'
    BY <1>2 DEF StreamInv, Part, Following, Awaited, Wires, Current
  <1>3. ASSUME PacketInv PROVE PacketInv'
    BY <1>3 DEF PacketInv, Current, Awaited, HasPayload
  <1> QED
    BY <1>1, <1>2, <1>3 DEF VideoInv

\* A step of the backend that puts bytes at the end of the stream.
LEMMA StreamLonger ==
  ASSUME TypeOK, VideoInv, phase = "video", sending = <<>>,
         NEW b \in Seq(Byte), sending' = b,
         UNCHANGED <<phase, readVars, video, noPayload>>,
         \/ \E p \in Sendable : sent' = Append(sent, p) /\ b = Wire(p, noPayload)
         \/ /\ sent' = sent /\ Len(b) = SizeBytes
            /\ \E n \in Nonsense : b = SizeImage[n]
  PROVE  VideoInv'
  <1>1. /\ DeliveredInv /\ StreamInv /\ PacketInv /\ GotInv
        /\ sent \in Seq(Sendable) /\ delivered \in Seq(Packet)
        /\ got \in Seq(Byte) /\ video \in Seq(Byte) /\ noPayload \in BOOLEAN
    BY DEF VideoInv, DeliveredInv, TypeOK
  <1>2. /\ UNCHANGED <<field, got, left, packet, delivered>>
    BY DEF readVars
  <1>3. /\ Len(sent) \in Nat /\ Len(sent') \in Nat /\ Len(sent) <= Len(sent')
        /\ sent' \in Seq(Sendable)
        /\ \A i \in 1 .. Len(sent) : sent'[i] = sent[i]
    <2>1. ASSUME NEW p \in Sendable, sent' = Append(sent, p)
          PROVE  /\ Len(sent) \in Nat /\ Len(sent') = Len(sent) + 1
                 /\ sent' \in Seq(Sendable)
                 /\ \A i \in 1 .. Len(sent) : sent'[i] = sent[i]
      BY <1>1, <2>1
    <2>2. Len(sent) \in Nat
      BY <1>1
    <2> QED
      BY <1>1, <2>1, <2>2
  <1>4. /\ Awaited \in Nat \ {0} /\ Awaited <= Len(sent) + 1
        /\ field \notin {"check", "size"} =>
             Awaited \in 1 .. Len(sent) /\ Current \in Sendable
    BY <1>1, CurrentTyped
  <1>5. Awaited' = Awaited /\ Following' = Following
    BY <1>2 DEF Awaited, Following
  <1>6. field \notin {"check", "size"} => Current' = Current
    BY <1>3, <1>4, <1>5 DEF Current
  <1>7. Part' = Part
    BY <1>2, <1>6 DEF Part
  <1>8. PacketInv'
    BY <1>1, <1>2, <1>6 DEF PacketInv, HasPayload
  <1>9. GotInv'
    BY <1>1, <1>2 DEF GotInv, Wanted
  <1>10. DeliveredInv'
    <2>1. \A i \in 1 .. Len(delivered) : i \in 1 .. Len(sent)
      BY <1>1, <1>3 DEF DeliveredInv
    <2>2. Len(delivered') <= Len(sent')
      BY <1>1, <1>2, <1>3 DEF DeliveredInv
    <2> QED
      BY <1>1, <1>2, <1>3, <2>1, <2>2 DEF DeliveredInv, Received, HasPayload
  <1>11. StreamInv'
    <2>1. PICK rest \in Seq(Byte) :
            Stream = Part \o rest /\ Carries(Wires, rest, Following)
      BY <1>1 DEF StreamInv
    <2>2. Stream' = Stream \o b
      <3>1. Stream = got \o video /\ Stream' = got \o (video \o b)
        BY <1>1, <1>2, NothingJoined DEF Stream
      <3> QED
        BY <1>1, <3>1, Associative
    <2>3. Part \in Seq(Byte)
      <3>1. field \notin {"check", "size"} =>
              /\ AfterSize(Current, noPayload) \in Seq(Byte)
              /\ AfterKind(Current, noPayload) \in Seq(Byte)
              /\ OnWire(Current, noPayload) \in Seq(Byte)
        BY <1>1, <1>4, WireTyped
      <3> QED
        BY <3>1, NothingJoined DEF Part
    <2>4. Stream' = Part' \o (rest \o b) /\ rest \o b \in Seq(Byte)
      BY <1>7, <2>1, <2>2, <2>3, Associative, Joins
    <2>5. /\ Wires \in Seq(Seq(Byte)) /\ Len(Wires) = Len(sent)
          /\ Following \in 1 .. Len(Wires) + 1
      BY <1>1, WiresTyped DEF StreamInv
    <2>6. Carries(Wires', rest \o b, Following)
      <3>1. ASSUME NEW p \in Sendable, sent' = Append(sent, p),
                   b = Wire(p, noPayload)
            PROVE  Wires' = Append(Wires, b)
        <4>1. Len(sent') = Len(sent) + 1 /\ sent'[Len(sent) + 1] = p
          BY <1>1, <3>1
        <4>2. /\ Wires' \in Seq(Seq(Byte)) /\ Len(Wires') = Len(sent) + 1
              /\ \A i \in 1 .. Len(sent) + 1 : Wires'[i] = Wire(sent'[i], noPayload)
          <5>1. noPayload' = noPayload
            OBVIOUS
          <5>2. \A i \in 1 .. Len(sent') : Wire(sent'[i], noPayload) \in Seq(Byte)
            <6>1. \A i \in 1 .. Len(sent') : sent'[i] \in Sendable
              BY <1>3
            <6> QED
              BY <1>1, <6>1, WireTyped
          <5> QED
            BY <1>3, <4>1, <5>1, <5>2 DEF Wires
        <4>3. \A i \in 1 .. Len(sent) : Wires[i] = Wire(sent[i], noPayload)
          BY <1>1, WiresTyped
        <4>4. /\ Append(Wires, b) \in Seq(Seq(Byte))
              /\ Len(Append(Wires, b)) = Len(sent) + 1
              /\ Append(Wires, b)[Len(sent) + 1] = b
              /\ \A i \in 1 .. Len(sent) : Append(Wires, b)[i] = Wires[i]
          BY <2>5, AppendProperties
        <4>5. \A i \in 1 .. Len(sent) + 1 : Wires'[i] = Append(Wires, b)[i]
          BY <1>3, <3>1, <4>1, <4>2, <4>3, <4>4
        <4>6. \A s, t \in Seq(Seq(Byte)) :
                Len(s) = Len(t) /\ (\A i \in 1 .. Len(s) : s[i] = t[i]) => s = t
          OBVIOUS
        <4> QED
          BY <4>2, <4>4, <4>5, <4>6
      <3>2. ASSUME sent' = sent PROVE Wires' = Wires
        BY <3>2 DEF Wires
      <3>3. Carries(Append(Wires, b), rest \o b, Following)
        BY <2>1, <2>5, CarriesMore
      <3>4. ASSUME Len(b) = SizeBytes, \E n \in Nonsense : b = SizeImage[n]
            PROVE  Carries(Wires, rest \o b, Following)
        BY <2>1, <2>5, <3>4, CarriesMore
      <3> QED
        BY <3>1, <3>2, <3>3, <3>4
    <2>7. Following' \in 1 .. Len(sent') + 1
      BY <1>3, <1>5, <2>5
    <2> QED
      BY <1>5, <2>4, <2>6, <2>7 DEF StreamInv
  <1> QED
    BY <1>8, <1>9, <1>10, <1>11 DEF VideoInv

\* read() takes the next bytes of the stream.
LEMMA BytesRead ==
  ASSUME TypeOK, GotInv, NEW whole \in BOOLEAN, Read(whole)
  PROVE  /\ Field \in Seq(Byte) /\ video' \in Seq(Byte) /\ sending' = sending
         /\ Stream = Field \o (video' \o sending)
         /\ Len(Field) <= Wanted /\ (whole <=> Len(Field) = Wanted)
         /\ got' = IF whole THEN <<>> ELSE Field
         /\ Wanted \in Nat
         /\ Len(video') <= Len(video)
  <1>1. /\ got \in Seq(Byte) /\ video \in Seq(Byte) /\ sending \in Seq(Byte)
        /\ left \in Nat
        /\ field \in {"size", "kind", "stamp", "payload"}
    BY SizesTyped DEF TypeOK, Read, Reading
  <1>2. Wanted \in Nat /\ Len(got) < Wanted /\ Len(got) \in Nat /\ Len(video) \in Nat
    BY <1>1, SizesTyped DEF Wanted, GotInv
  <1>3. /\ Count \in 0 .. Len(video) /\ Len(got) + Count <= Wanted
    BY <1>2 DEF Count
  <1>4. /\ video' = Slice(video, Count, Len(video))
        /\ got' = IF whole THEN <<>> ELSE got \o Slice(video, 0, Count)
        /\ Field = got \o Slice(video, 0, Count)
        /\ whole <=> Len(got) + Count = Wanted
        /\ sending' = sending
    BY DEF Read, Field, Slice, backVars
  <1> DEFINE head == Slice(video, 0, Count)
  <1>5. /\ head \in Seq(Byte) /\ Len(head) = Count
        /\ video' \in Seq(Byte) /\ Len(video') = Len(video) - Count
        /\ head \o video' = video
    BY <1>1, <1>3, <1>4, SlicesJoin
  <1>10. Field = got \o head
    BY <1>4 DEF head
  <1> HIDE DEF head
  <1>6. Field \in Seq(Byte) /\ Len(Field) = Len(got) + Count
    <2>1. got \o head \in Seq(Byte) /\ Len(got \o head) = Len(got) + Len(head)
      BY <1>1, <1>5, Joins
    <2> QED
      BY <1>5, <1>10, <2>1
  <1>7. Stream = Field \o (video' \o sending)
    <2>1. video \o sending = head \o (video' \o sending)
      <3>1. head \in Seq(Byte) /\ video' \in Seq(Byte) /\ sending \in Seq(Byte)
        BY <1>1, <1>5
      <3>2. (head \o video') \o sending = head \o (video' \o sending)
        BY <3>1, Associative
      <3> QED
        BY <1>5, <3>2, Zenon
    <2> DEFINE tail == video' \o sending
    <2>2. tail \in Seq(Byte) /\ got \in Seq(Byte) /\ head \in Seq(Byte)
      BY <1>1, <1>5, Joins
    <2> HIDE DEF tail
    <2>3. (got \o head) \o tail = got \o (head \o tail)
      BY <2>2, Associative, Zenon
    <2> QED
      BY <1>10, <2>1, <2>3 DEF Stream, tail
  <1>8. got' = IF whole THEN <<>> ELSE Field
    BY <1>4
  <1>9. /\ Len(Field) <= Wanted /\ (whole <=> Len(Field) = Wanted)
        /\ Len(video') <= Len(video)
    BY <1>2, <1>3, <1>4, <1>5, <1>6
  <1> QED
    BY <1>2, <1>4, <1>5, <1>6, <1>7, <1>8, <1>9

LEMMA PartRead ==
  ASSUME TypeOK, VideoInv, ReadPart
  PROVE  VideoInv'
  <1>1. /\ phase = "video" /\ field # "check" /\ Read(FALSE)
        /\ UNCHANGED <<phase, field, left, packet, delivered>>
        /\ UNCHANGED <<sent, noPayload>>
    BY DEF ReadPart, Read, Reading, backVars
  <1>2. GotInv
    BY <1>1 DEF VideoInv
  <1>3. /\ Stream = Field \o (video' \o sending) /\ got' = Field
        /\ sending' = sending
        /\ Len(Field) <= Wanted /\ Len(Field) # Wanted
        /\ Wanted \in Nat /\ Field \in Seq(Byte)
    BY <1>1, <1>2, BytesRead
  <1>4. Stream' = Stream
    BY <1>3 DEF Stream
  <1>5. GotInv'
    <2>1. Wanted' = Wanted
      BY <1>1 DEF Wanted
    <2>2. Len(got') < Wanted
      BY <1>3
    <2> QED
      BY <1>1, <2>1, <2>2 DEF GotInv
  <1> QED
    BY <1>1, <1>4, <1>5, StreamKept

\* What the part of the current packet that is read next, and what follows it,
\* are when all of a field has been read.
LEMMA FieldRead ==
  ASSUME TypeOK, StreamInv, GotInv, Read(TRUE),
         NEW first \in Seq(Byte), NEW more \in Seq(Byte),
         Part = first \o more, Len(first) = Wanted
  PROVE  /\ Field = first /\ got' = <<>>
         /\ \E rest \in Seq(Byte) :
              Stream' = more \o rest /\ Carries(Wires, rest, Following)
  <1>1. /\ Field \in Seq(Byte) /\ video' \in Seq(Byte) /\ sending' = sending
        /\ Stream = Field \o (video' \o sending)
        /\ Len(Field) = Wanted /\ got' = <<>>
    BY BytesRead
  <1>2. PICK rest \in Seq(Byte) :
          Stream = Part \o rest /\ Carries(Wires, rest, Following)
    BY DEF StreamInv
  <1>3. Stream = first \o (more \o rest) /\ more \o rest \in Seq(Byte)
    BY <1>2, Associative, Joins
  <1>4. sending \in Seq(Byte) /\ video' \o sending \in Seq(Byte)
    BY <1>1, Joins DEF TypeOK
  <1>5. Field = first /\ video' \o sending = more \o rest
    BY <1>1, <1>3, <1>4, SplitUnique
  <1>6. Stream' = more \o rest
    BY <1>1, <1>4, <1>5, NothingJoined DEF Stream
  <1> QED
    BY <1>1, <1>2, <1>5, <1>6

\* The same for the size, at the head of a packet or of nonsense.
LEMMA SizeRead ==
  ASSUME TypeOK, VideoInv, phase = "video", field = "size", Read(TRUE),
         SizeAccepted(Number(Field, SizeImage))
  PROVE  /\ Awaited \in 1 .. Len(sent) /\ got' = <<>>
         /\ Number(Field, SizeImage) = SizeOf(Current)
         /\ \E rest \in Seq(Byte) :
              /\ Stream' = AfterSize(Current, noPayload) \o rest
              /\ Carries(Wires, rest, Awaited + 1)
  <1>1. /\ DeliveredInv /\ StreamInv /\ GotInv /\ Wanted = SizeBytes
        /\ delivered \in Seq(Packet) /\ noPayload \in BOOLEAN
        /\ sent \in Seq(Sendable) /\ sending \in Seq(Byte)
    BY DEF VideoInv, Wanted, TypeOK, DeliveredInv
  <1>2. /\ Field \in Seq(Byte) /\ video' \in Seq(Byte) /\ sending' = sending
        /\ Stream = Field \o (video' \o sending)
        /\ Len(Field) = SizeBytes /\ got' = <<>>
    BY <1>1, BytesRead
  <1> DEFINE after == video' \o sending
  <1>3. after \in Seq(Byte)
    BY <1>1, <1>2, Joins
  <1> HIDE DEF after
  <1>4. Stream' = after
    BY <1>2, <1>3, NothingJoined DEF Stream, after
  <1>5. /\ Stream \in Seq(Byte) /\ Stream # <<>> /\ Stream = Field \o after
        /\ Slice(Stream, 0, SizeBytes) = Field
    <2>1. Stream = Field \o after /\ Stream \in Seq(Byte)
      BY <1>2, <1>3, Joins DEF after
    <2>2. Len(Stream) # 0
      BY <1>2, <1>3, <2>1, Joins, SizesTyped
    <2>3. Slice(Stream, 0, SizeBytes) = Slice(Field, 0, Len(Field))
      BY <1>2, <1>3, <2>1, SliceOfFirst, SizesTyped
    <2>4. Slice(Field, 0, Len(Field)) = Field
      BY <1>2 DEF Slice
    <2> QED
      BY <1>2, <2>1, <2>2, <2>3, <2>4
  <1>6. Carries(Wires, Stream, Awaited) /\ Awaited \in 1 .. Len(sent) + 1
    <2>1. Part = <<>> /\ Following = Awaited
      BY DEF Part, Following
    <2>2. PICK rest \in Seq(Byte) :
            Stream = Part \o rest /\ Carries(Wires, rest, Following)
      BY <1>1 DEF StreamInv
    <2>3. Stream = rest
      BY <2>1, <2>2, NothingJoined
    <2> QED
      BY <1>1, <2>1, <2>2, <2>3 DEF StreamInv
  <1>7. /\ Wires \in Seq(Seq(Byte)) /\ Len(Wires) = Len(sent)
        /\ \A i \in 1 .. Len(sent) :
             sent[i] \in Sendable /\ Wires[i] = Wire(sent[i], noPayload)
    BY <1>1, WiresTyped
  <1>8. ~NonsenseAt(Stream, 0)
    <2>1. SUFFICES ASSUME NEW n \in Nonsense, Field = SizeImage[n] PROVE FALSE
      BY <1>5, SizesTyped DEF NonsenseAt
    <2>2. n \in 0 .. SizeMax
      BY SizesTyped DEF Nonsense
    <2>3. Number(Field, SizeImage) = n
      BY <2>1, <2>2, SizeProperties
    <2> QED
      BY <2>3, SizesTyped DEF SizeAccepted, Nonsense
  <1>9. /\ Awaited <= Len(sent)
        /\ \E rest \in Seq(Byte) :
             Stream = Wires[Awaited] \o rest /\ Carries(Wires, rest, Awaited + 1)
    BY <1>5, <1>6, <1>7, <1>8, CarriesFirst
  <1>10. /\ Awaited \in 1 .. Len(sent) /\ Current \in Sendable
         /\ Wires[Awaited] = Wire(Current, noPayload)
    BY <1>6, <1>7, <1>9 DEF Current
  <1>11. PICK rest \in Seq(Byte) :
           Stream = Wire(Current, noPayload) \o rest /\ Carries(Wires, rest, Awaited + 1)
    BY <1>9, <1>10
  <1> DEFINE size == SizeImage[SizeOf(Current)]
             next == AfterSize(Current, noPayload)
  <1>12. /\ SizeOf(Current) \in 0 .. SizeMax
         /\ next \in Seq(Byte)
    <2>1. SizeOf(Current) \in 1 .. SizeMax
      BY <1>10, SendableTyped
    <2> QED
      BY <1>1, <1>10, <2>1, WireTyped, SizesTyped
  <1>13. /\ size \in Seq(Byte) /\ Len(size) = SizeBytes
         /\ Number(size, SizeImage) = SizeOf(Current)
    BY <1>12, SizeProperties
  <1>14. Wire(Current, noPayload) = size \o next
    BY DEF Wire
  <1> HIDE DEF size, next
  <1>15. Stream = size \o (next \o rest) /\ next \o rest \in Seq(Byte)
    <2>1. (size \o next) \o rest = size \o (next \o rest)
      BY <1>12, <1>13, Associative, Zenon
    <2> QED
      BY <1>11, <1>12, <1>14, <2>1, Joins, Zenon
  <1>16. Field = size /\ after = next \o rest
    BY <1>2, <1>3, <1>5, <1>13, <1>15, SplitUnique
  <1> QED
    BY <1>2, <1>4, <1>10, <1>11, <1>13, <1>16 DEF next

\* A packet is delivered as it was sent.
LEMMA PacketEnds ==
  ASSUME TypeOK, DeliveredInv, noPayload \in BOOLEAN, Awaited \in 1 .. Len(sent),
         delivered' = Append(delivered, Received(Current)),
         field' = "check", packet' = Blank, got' = <<>>,
         UNCHANGED <<sent, noPayload>>,
         Stream' \in Seq(Byte), Carries(Wires, Stream', Awaited + 1)
  PROVE  VideoInv'
  <1>1. /\ delivered \in Seq(Packet) /\ Len(delivered) \in Nat
        /\ sent \in Seq(Sendable) /\ Len(sent) \in Nat
        /\ Awaited = Len(delivered) + 1
    BY DEF TypeOK, DeliveredInv, Awaited
  <1>2. /\ Len(delivered') = Len(delivered) + 1
        /\ delivered'[Len(delivered) + 1] = Received(Current)
        /\ \A i \in 1 .. Len(delivered) : delivered'[i] = delivered[i]
    BY <1>1
  <1>3. DeliveredInv'
    <2>1. \A i \in 1 .. Len(delivered) + 1 : delivered'[i] = Received(sent[i])
      BY <1>1, <1>2 DEF DeliveredInv, Current
    <2>2. \A i \in 1 .. Len(delivered) + 1 : Received(sent[i])' = Received(sent[i])
      BY DEF Received, HasPayload
    <2> QED
      BY <1>1, <1>2, <2>1, <2>2 DEF DeliveredInv
  <1>4. Awaited' = Awaited + 1 /\ Following' = Awaited + 1 /\ Part' = <<>>
        /\ Wires' = Wires
    BY <1>1, <1>2 DEF Awaited, Following, Part, Wires
  <1>5. StreamInv'
    <2>1. Stream' = Part' \o Stream'
      BY <1>4, NothingJoined
    <2>2. Following' \in 1 .. Len(sent') + 1
      BY <1>1, <1>4
    <2> QED
      BY <1>4, <2>1, <2>2 DEF StreamInv
  <1>6. PacketInv' /\ GotInv'
    BY DEF PacketInv, GotInv
  <1> QED
    BY <1>3, <1>5, <1>6 DEF VideoInv

\* A step inside of the current packet.
LEMMA PacketGoesOn ==
  ASSUME DeliveredInv, noPayload \in BOOLEAN, Awaited \in 1 .. Len(sent),
         UNCHANGED <<delivered, sent, noPayload>>,
         field' \in {"kind", "stamp", "payload"}, PacketInv', GotInv',
         NEW rest \in Seq(Byte),
         Stream' = Part' \o rest, Carries(Wires, rest, Awaited + 1)
  PROVE  VideoInv'
  <1>1. DeliveredInv'
    BY DEF DeliveredInv, Received, HasPayload
  <1>2. Following' = Awaited + 1 /\ Wires' = Wires
    BY DEF Following, Awaited, Wires
  <1>3. Following' \in 1 .. Len(sent') + 1
    BY <1>2 DEF DeliveredInv
  <1>4. StreamInv'
    BY <1>2, <1>3 DEF StreamInv
  <1> QED
    BY <1>1, <1>4 DEF VideoInv

LEMMA PayloadBegun ==
  ASSUME TypeOK, DeliveredInv, Awaited \in 1 .. Len(sent), Current \in Sendable,
         UNCHANGED <<sent, noPayload>>, got' = <<>>,
         BeginPayload([Current EXCEPT !.payload = <<>>], Len(Current.payload)),
         NEW rest \in Seq(Byte),
         Stream' = OnWire(Current, noPayload) \o rest,
         Carries(Wires, rest, Awaited + 1)
  PROVE  VideoInv'
  <1> DEFINE q == [Current EXCEPT !.payload = <<>>]
  <1>1. /\ Current \in [kind : Kind, stamp : Nat \cup {None}, payload : Seq(Byte)]
        /\ Current.payload \in Seq(Byte) /\ noPayload \in BOOLEAN
    BY SendableTyped DEF TypeOK
  <1>2. q.kind = Current.kind /\ (HasPayload(q) <=> HasPayload(Current))
    BY <1>1 DEF HasPayload
  <1> HIDE DEF q
  <1>3. /\ left' = Len(Current.payload)
        /\ IF Len(Current.payload) = 0 \/ ~HasPayload(q)
             THEN /\ delivered' = Append(delivered, q)
                  /\ field' = "check" /\ packet' = Blank
             ELSE field' = "payload" /\ packet' = q /\ UNCHANGED delivered
    BY DEF BeginPayload, q
  <1>4. CASE Len(Current.payload) = 0 \/ ~HasPayload(q)
    <2>1. q = Received(Current)
      <3>1. CASE ~HasPayload(Current)
        BY <3>1 DEF Received, q
      <3>2. CASE HasPayload(Current)
        <4>1. Current.payload = <<>>
          BY <1>1, <1>2, <1>4, <3>2
        <4>2. q = Current
          BY <1>1, <4>1 DEF q
        <4> QED
          BY <3>2, <4>2 DEF Received
      <3> QED
        BY <3>1, <3>2
    <2>2. OnWire(Current, noPayload) = <<>>
      BY <1>1, <1>2, <1>4 DEF OnWire, HasPayload
    <2>3. Stream' = rest
      BY <2>2, NothingJoined
    <2>4. /\ delivered' = Append(delivered, Received(Current))
          /\ field' = "check" /\ packet' = Blank
      BY <1>3, <1>4, <2>1
    <2> QED
      BY <1>1, <2>3, <2>4, PacketEnds
  <1>5. CASE ~(Len(Current.payload) = 0 \/ ~HasPayload(q))
    <2>1. /\ field' = "payload" /\ packet' = q /\ delivered' = delivered
          /\ left' = Len(Current.payload) /\ HasPayload(Current)
          /\ Len(Current.payload) \in Nat \ {0}
      BY <1>1, <1>2, <1>3, <1>5
    <2>2. Current' = Current /\ Part' = OnWire(Current, noPayload)
      BY <2>1 DEF Current, Awaited, Part
    <2>3. PacketInv'
      BY <2>1, <2>2 DEF PacketInv, HasPayload, q
    <2>4. GotInv'
      BY <2>1 DEF GotInv, Wanted
    <2>5. field' \in {"kind", "stamp", "payload"} /\ Stream' = Part' \o rest
      BY <2>1, <2>2
    <2> QED
      BY <1>1, <2>1, <2>3, <2>4, <2>5, PacketGoesOn
  <1> QED
    BY <1>4, <1>5

LEMMA ReadSizeKeeps ==
  ASSUME TypeOK, VideoInv, ReadSize
  PROVE  VideoInv'
  <1>1. /\ field = "size" /\ Read(TRUE) /\ phase = "video" /\ DeliveredInv
        /\ PacketInv /\ packet = Blank
        /\ UNCHANGED <<packet, delivered>> /\ UNCHANGED <<sent, noPayload>>
        /\ noPayload \in BOOLEAN
    BY DEF ReadSize, Read, Reading, backVars, VideoInv, TypeOK, PacketInv
  <1>2. CASE ~SizeAccepted(Number(Field, SizeImage))
    <2>1. phase' = "end"
      BY <1>1, <1>2 DEF ReadSize, Over
    <2>2. DeliveredInv'
      BY <1>1 DEF DeliveredInv, Received, HasPayload
    <2> QED
      BY <2>1, <2>2 DEF VideoInv
  <1>3. CASE SizeAccepted(Number(Field, SizeImage))
    <2>1. field' = "kind" /\ left' = Number(Field, SizeImage)
      BY <1>3 DEF ReadSize
    <2>2. /\ Awaited \in 1 .. Len(sent) /\ got' = <<>>
          /\ Number(Field, SizeImage) = SizeOf(Current)
          /\ \E rest \in Seq(Byte) :
               /\ Stream' = AfterSize(Current, noPayload) \o rest
               /\ Carries(Wires, rest, Awaited + 1)
      BY <1>1, <1>3, SizeRead
    <2>3. PICK rest \in Seq(Byte) :
            /\ Stream' = AfterSize(Current, noPayload) \o rest
            /\ Carries(Wires, rest, Awaited + 1)
      BY <2>2
    <2>4. Current' = Current /\ Part' = AfterSize(Current, noPayload)
      BY <1>1, <2>1 DEF Current, Awaited, Part
    <2>5. PacketInv'
      BY <1>1, <2>1, <2>2, <2>4 DEF PacketInv, SizeOf
    <2>6. GotInv'
      BY <2>1, <2>2 DEF GotInv, Wanted
    <2>7. Stream' = Part' \o rest /\ field' \in {"kind", "stamp", "payload"}
      BY <2>1, <2>3, <2>4
    <2> QED
      BY <1>1, <2>2, <2>3, <2>5, <2>6, <2>7, PacketGoesOn
  <1> QED
    BY <1>2, <1>3

LEMMA ReadKindKeeps ==
  ASSUME TypeOK, VideoInv, ReadKind
  PROVE  VideoInv'
  <1>1. /\ field = "kind" /\ Read(TRUE) /\ phase = "video" /\ DeliveredInv
        /\ PacketInv /\ packet = Blank /\ StreamInv /\ GotInv
        /\ left = SizeOf(Current)
        /\ UNCHANGED <<sent, noPayload>>
        /\ noPayload \in BOOLEAN /\ delivered \in Seq(Packet)
    BY DEF ReadKind, Read, Reading, backVars, VideoInv, TypeOK, PacketInv
  <1>2. Awaited \in 1 .. Len(sent) /\ Current \in Sendable
    BY <1>1, CurrentTyped
  <1> DEFINE kind == Current.kind
             rank == Len(Stamp(Current))
             load == Len(Current.payload)
  <1>3. /\ <<kind>> \in Seq(Byte) /\ Len(<<kind>>) = 1
        /\ AfterKind(Current, noPayload) \in Seq(Byte)
        /\ Part = <<kind>> \o AfterKind(Current, noPayload)
        /\ Wanted = 1 /\ Following = Awaited + 1
    BY <1>1, <1>2, WireTyped DEF Part, AfterSize, Wanted, Following
  <1>4. /\ Field = <<kind>> /\ got' = <<>>
        /\ \E rest \in Seq(Byte) :
             /\ Stream' = AfterKind(Current, noPayload) \o rest
             /\ Carries(Wires, rest, Following)
    BY <1>1, <1>3, FieldRead
  <1>5. PICK rest \in Seq(Byte) :
          /\ Stream' = AfterKind(Current, noPayload) \o rest
          /\ Carries(Wires, rest, Awaited + 1)
    BY <1>3, <1>4
  <1>6. /\ Current \in [kind : Kind, stamp : Nat \cup {None}, payload : Seq(Byte)]
        /\ kind \in Kind
        /\ rank = IF Current.stamp = None THEN 0 ELSE StampBytes
        /\ load \in Nat /\ left = 1 + rank + load
        /\ Current.payload \in Seq(Byte)
    <2>1. /\ Current \in [kind : Kind, stamp : Nat \cup {None}, payload : Seq(Byte)]
          /\ kind \in Kind /\ Current.payload \in Seq(Byte)
      BY <1>2, SendableTyped
    <2>2. rank = IF Current.stamp = None THEN 0 ELSE StampBytes
      BY <1>2, SendableTyped
    <2>3. SizeOf(Current) = 1 + rank + load
      BY <1>2, SendableTyped
    <2>4. load \in Nat
      BY <2>1
    <2> HIDE DEF kind, rank, load
    <2> QED
      BY <1>1, <2>1, <2>2, <2>3, <2>4
  <1>7. /\ kind = Other => Current.stamp = None
        /\ kind # Other /\ Current.stamp = None => load < StampBytes
    BY <1>2 DEF Sendable
  <1> HIDE DEF kind, rank, load
  <1>8. left - 1 = rank + load /\ rank \in Nat
    BY <1>6, SizesTyped
  <1>9. HasTimestamp(kind, left - 1) <=> Current.stamp # None
    <2>1. CASE Current.stamp = None
      <3>1. rank = 0 /\ left - 1 = load
        BY <1>6, <1>8, <2>1
      <3>2. kind # Other => load < StampBytes
        BY <1>7, <2>1
      <3>3. kind \in {Data, Secondary} => kind # Other
        BY DEF Data, Secondary, Other
      <3> QED
        BY <1>6, <2>1, <3>1, <3>2, <3>3, SizesTyped DEF HasTimestamp
    <2>2. CASE Current.stamp # None
      <3>1. rank = StampBytes /\ left - 1 >= StampBytes
        BY <1>6, <1>8, <2>2, SizesTyped
      <3>2. kind \in {Data, Secondary}
        BY <1>6, <1>7, <2>2 DEF Kind
      <3> QED
        BY <2>2, <3>1, <3>2 DEF HasTimestamp
    <2> QED
      BY <2>1, <2>2
  <1> DEFINE p == [Blank EXCEPT !.kind = kind]
  <1>10. IF HasTimestamp(kind, left - 1)
           THEN /\ field' = "stamp" /\ left' = left - 1 /\ packet' = p
                /\ UNCHANGED delivered
           ELSE BeginPayload(p, left - 1)
    <2>1. Field[1] = kind
      BY <1>4
    <2>2. p.kind = kind
      BY DEF Blank
    <2> QED
      BY <2>1, <2>2 DEF ReadKind
  <1> HIDE DEF p
  <1>11. CASE Current.stamp # None
    <2>1. field' = "stamp" /\ left' = left - 1 /\ packet' = p /\ delivered' = delivered
      BY <1>9, <1>10, <1>11
    <2>2. Current' = Current /\ Part' = AfterKind(Current, noPayload)
      BY <1>1, <2>1 DEF Current, Awaited, Part
    <2>3. PacketInv'
      BY <1>1, <1>11, <2>1, <2>2 DEF PacketInv, SizeOf, Stamp, p, kind
    <2>4. GotInv'
      BY <1>4, <2>1, SizesTyped DEF GotInv, Wanted
    <2>5. Stream' = Part' \o rest /\ field' \in {"kind", "stamp", "payload"}
      BY <1>5, <2>1, <2>2
    <2> QED
      BY <1>1, <1>2, <1>5, <2>1, <2>3, <2>4, <2>5, PacketGoesOn
  <1>12. CASE Current.stamp = None
    <2>1. BeginPayload(p, load)
      BY <1>6, <1>8, <1>9, <1>10, <1>12
    <2>2. p = [Current EXCEPT !.payload = <<>>]
      BY <1>6, <1>12 DEF p, kind, Blank
    <2>3. AfterKind(Current, noPayload) = OnWire(Current, noPayload)
      <3>1. OnWire(Current, noPayload) \in Seq(Byte)
        BY <1>1, <1>2, WireTyped
      <3> QED
        BY <1>12, <3>1, NothingJoined DEF AfterKind, Stamp
    <2> QED
      BY <1>1, <1>2, <1>4, <1>5, <2>1, <2>2, <2>3, PayloadBegun DEF load
  <1> QED
    BY <1>11, <1>12

LEMMA ReadStampKeeps ==
  ASSUME TypeOK, VideoInv, ReadStamp
  PROVE  VideoInv'
  <1>1. /\ field = "stamp" /\ Read(TRUE) /\ phase = "video" /\ DeliveredInv
        /\ PacketInv /\ StreamInv /\ GotInv
        /\ left = SizeOf(Current) - 1 /\ Current.stamp # None
        /\ packet = [Blank EXCEPT !.kind = Current.kind]
        /\ UNCHANGED <<sent, noPayload>>
        /\ noPayload \in BOOLEAN /\ delivered \in Seq(Packet)
        /\ BeginPayload([packet EXCEPT !.stamp = Number(Field, StampImage)],
                        left - StampBytes)
    BY DEF ReadStamp, Read, Reading, backVars, VideoInv, TypeOK, PacketInv
  <1>2. Awaited \in 1 .. Len(sent) /\ Current \in Sendable
    BY <1>1, CurrentTyped
  <1> DEFINE stamp == Stamp(Current)
  <1>3. /\ stamp \in Seq(Byte) /\ Len(stamp) = StampBytes
        /\ Number(stamp, StampImage) = Current.stamp
        /\ OnWire(Current, noPayload) \in Seq(Byte)
        /\ Part = stamp \o OnWire(Current, noPayload)
        /\ Wanted = StampBytes /\ Following = Awaited + 1
    <2>1. Current.stamp \in 0 .. StampMax
      BY <1>1, <1>2, SendableTyped
    <2>2. stamp = StampImage[Current.stamp]
      BY <1>1 DEF Stamp
    <2>3. OnWire(Current, noPayload) \in Seq(Byte)
      BY <1>1, <1>2, WireTyped
    <2> QED
      BY <1>1, <2>1, <2>2, <2>3, StampProperties DEF Part, AfterKind, Wanted, Following
  <1>4. left - StampBytes = Len(Current.payload)
    <2>1. /\ SizeOf(Current) = 1 + Len(stamp) + Len(Current.payload)
          /\ Current.payload \in Seq(Byte)
      BY <1>2, SendableTyped
    <2>2. Len(Current.payload) \in Nat
      BY <2>1
    <2> HIDE DEF stamp
    <2> QED
      BY <1>1, <1>3, <2>1, <2>2, SizesTyped
  <1> HIDE DEF stamp
  <1>5. /\ Field = stamp /\ got' = <<>>
        /\ \E rest \in Seq(Byte) :
             /\ Stream' = OnWire(Current, noPayload) \o rest
             /\ Carries(Wires, rest, Following)
    BY <1>1, <1>3, FieldRead
  <1>6. PICK rest \in Seq(Byte) :
          /\ Stream' = OnWire(Current, noPayload) \o rest
          /\ Carries(Wires, rest, Awaited + 1)
    BY <1>3, <1>5
  <1>7. [packet EXCEPT !.stamp = Number(Field, StampImage)]
          = [Current EXCEPT !.payload = <<>>]
    <2>1. Number(Field, StampImage) = Current.stamp
      BY <1>3, <1>5
    <2>2. Current \in [kind : Kind, stamp : Nat \cup {None}, payload : Seq(Byte)]
      BY <1>2, SendableTyped
    <2>3. packet = [kind |-> Current.kind, stamp |-> None, payload |-> <<>>]
      BY <1>1 DEF Blank
    <2>4. [packet EXCEPT !.stamp = Number(Field, StampImage)]
            = [kind |-> Current.kind, stamp |-> Current.stamp, payload |-> <<>>]
      BY <2>1, <2>3
    <2>5. [Current EXCEPT !.payload = <<>>]
            = [kind |-> Current.kind, stamp |-> Current.stamp, payload |-> <<>>]
      BY <2>2
    <2> QED
      BY <2>4, <2>5
  <1> QED
    BY <1>1, <1>2, <1>4, <1>5, <1>6, <1>7, PayloadBegun

LEMMA ReadPayloadKeeps ==
  ASSUME TypeOK, VideoInv, ReadPayload
  PROVE  VideoInv'
  <1>1. /\ field = "payload" /\ Read(TRUE) /\ phase = "video" /\ DeliveredInv
        /\ PacketInv /\ StreamInv /\ GotInv
        /\ left = Len(Current.payload) /\ HasPayload(Current)
        /\ packet = [Current EXCEPT !.payload = <<>>]
        /\ UNCHANGED <<sent, noPayload>>
        /\ noPayload \in BOOLEAN /\ delivered \in Seq(Packet)
        /\ delivered' = Append(delivered, [packet EXCEPT !.payload = Field])
        /\ field' = "check" /\ packet' = Blank
    BY DEF ReadPayload, Read, Reading, backVars, VideoInv, TypeOK, PacketInv
  <1>2. Awaited \in 1 .. Len(sent) /\ Current \in Sendable
    BY <1>1, CurrentTyped
  <1>3. /\ Current \in [kind : Kind, stamp : Nat \cup {None}, payload : Seq(Byte)]
        /\ Current.payload \in Seq(Byte)
    BY <1>2, SendableTyped
  <1>4. /\ OnWire(Current, noPayload) = Current.payload
        /\ Part = Current.payload \o <<>> /\ <<>> \in Seq(Byte)
        /\ Len(Current.payload) = Wanted /\ Following = Awaited + 1
    BY <1>1, <1>3, NothingJoined DEF OnWire, HasPayload, Part, Wanted, Following
  <1>5. /\ Field = Current.payload /\ got' = <<>>
        /\ \E rest \in Seq(Byte) :
             Stream' = <<>> \o rest /\ Carries(Wires, rest, Following)
    BY <1>1, <1>3, <1>4, FieldRead
  <1>6. Stream' \in Seq(Byte) /\ Carries(Wires, Stream', Awaited + 1)
    BY <1>4, <1>5, NothingJoined
  <1>7. [packet EXCEPT !.payload = Field] = Received(Current)
    BY <1>1, <1>3, <1>5 DEF Received
  <1> QED
    BY <1>1, <1>2, <1>5, <1>6, <1>7, PacketEnds

LEMMA CheckStopKeeps ==
  ASSUME TypeOK, VideoInv, CheckStop
  PROVE  VideoInv'
  <1>1. /\ phase = "video" /\ field = "check" /\ DeliveredInv /\ StreamInv
        /\ packet = Blank /\ got = <<>>
        /\ UNCHANGED <<got, left, packet, delivered, noPayload, video, sending, sent>>
    BY DEF CheckStop, VideoInv, PacketInv, GotInv, backVars
  <1>2. CASE stop
    <2>1. phase' = "end"
      BY <1>1, <1>2 DEF CheckStop, Over
    <2>2. DeliveredInv'
      BY <1>1 DEF DeliveredInv, Received, HasPayload
    <2> QED
      BY <2>1, <2>2 DEF VideoInv
  <1>3. CASE ~stop
    <2>1. field' = "size"
      BY <1>3 DEF CheckStop
    <2>2. DeliveredInv'
      BY <1>1 DEF DeliveredInv, Received, HasPayload
    <2>3. StreamInv'
      BY <1>1, <2>1 DEF StreamInv, Part, Following, Awaited, Wires, Stream
    <2>4. PacketInv' /\ GotInv'
      BY <1>1, <2>1, SizesTyped DEF PacketInv, GotInv, Wanted
    <2> QED
      BY <2>2, <2>3, <2>4 DEF VideoInv
  <1> QED
    BY <1>2, <1>3

LEMMA SendBytesKeeps ==
  ASSUME TypeOK, VideoInv, SendBytes
  PROVE  VideoInv'
  <1>1. /\ sending \in Seq(Byte) /\ video \in Seq(Byte) /\ got \in Seq(Byte)
        /\ UNCHANGED <<field, got, left, packet, delivered, sent, noPayload, phase>>
    BY DEF TypeOK, SendBytes, readVars
  <1>0. PICK count \in 1 .. Len(sending) :
          /\ video' = video \o SubSeq(sending, 1, count)
          /\ sending' = SubSeq(sending, count + 1, Len(sending))
    BY DEF SendBytes
  <1>2. /\ video' = video \o Slice(sending, 0, count)
        /\ sending' = Slice(sending, count, Len(sending))
    BY <1>0 DEF Slice
  <1>3. count \in 0 .. Len(sending)
    BY <1>1
  <1>4. /\ Slice(sending, 0, count) \in Seq(Byte) /\ sending' \in Seq(Byte)
        /\ Slice(sending, 0, count) \o sending' = sending
    BY <1>1, <1>2, <1>3, SlicesJoin
  <1>5. video' \o sending' = video \o sending
    <2> DEFINE head == Slice(sending, 0, count)
    <2>1. head \in Seq(Byte) /\ video' = video \o head /\ head \o sending' = sending
      BY <1>2, <1>4
    <2> HIDE DEF head
    <2>3. video \in Seq(Byte) /\ head \in Seq(Byte) /\ sending' \in Seq(Byte)
      BY <1>1, <1>4, <2>1
    <2>2. (video \o head) \o sending' = video \o (head \o sending')
      BY <2>3, Associative
    <2> QED
      BY <2>1, <2>2
  <1>6. Stream' = Stream
    BY <1>1, <1>5 DEF Stream
  <1>7. GotInv => GotInv'
    BY <1>1 DEF GotInv, Wanted
  <1> QED
    BY <1>1, <1>6, <1>7, StreamKept

LEMMA BeginPacketKeeps ==
  ASSUME TypeOK, VideoInv, BeginPacket
  PROVE  VideoInv'
  <1>1. /\ phase = "video" /\ sending = <<>> /\ noPayload \in BOOLEAN
        /\ UNCHANGED <<phase, readVars, video, noPayload>>
    BY DEF BeginPacket, TypeOK
  <1>2. PICK p \in Sendable : sent' = Append(sent, p) /\ sending' = Encoded(p)
    BY DEF BeginPacket
  <1>3. sending' = Wire(p, noPayload) /\ Wire(p, noPayload) \in Seq(Byte)
    BY <1>1, <1>2, EncodedIsWire, WireTyped
  <1>4. \E q \in Sendable :
          sent' = Append(sent, q) /\ Wire(p, noPayload) = Wire(q, noPayload)
    BY <1>2
  <1> QED
    BY <1>1, <1>3, <1>4, StreamLonger

LEMMA BeginNonsenseKeeps ==
  ASSUME TypeOK, VideoInv, BeginNonsense
  PROVE  VideoInv'
  <1>1. /\ phase = "video" /\ sending = <<>> /\ noPayload \in BOOLEAN
        /\ UNCHANGED <<phase, readVars, video, noPayload>> /\ sent' = sent
    BY DEF BeginNonsense, TypeOK
  <1>2. PICK n \in Nonsense : sending' = SizeImage[n]
    BY DEF BeginNonsense, Nonsense
  <1>3. n \in 0 .. SizeMax
    BY SizesTyped DEF Nonsense
  <1>4. SizeImage[n] \in Seq(Byte) /\ Len(SizeImage[n]) = SizeBytes
    BY <1>3, SizeProperties
  <1>5. \E k \in Nonsense : SizeImage[n] = SizeImage[k]
    OBVIOUS
  <1> QED
    BY <1>1, <1>2, <1>4, <1>5, StreamLonger

\* Every step of the specification keeps it.
LEMMA VideoStep ==
  ASSUME TypeOK, VideoInv, [Next]_vars
  PROVE  VideoInv'
  <1>1. ASSUME \/ Write \/ SleepInWrite \/ PacketWritten \/ WriteFails
               \/ SleepInRead \/ EndOfFile \/ Signal \/ ReadConfig \/ BackendEnds
               \/ UNCHANGED vars
        PROVE  VideoInv'
    <2>1. UNCHANGED <<field, got, left, packet, delivered, sent, noPayload,
                      video, sending>>
      BY <1>1 DEF Write, SleepInWrite, PacketWritten, WriteFails, SleepInRead,
                  EndOfFile, Signal, ReadConfig, BackendEnds, vars, readVars, backVars
    <2>2. Stream' = Stream /\ (GotInv => GotInv')
      BY <2>1 DEF Stream, GotInv, Wanted
    <2>3. phase' \in {"config", "video"} => phase \in {"config", "video"}
      BY <1>1 DEF Write, SleepInWrite, PacketWritten, WriteFails, SleepInRead,
                  EndOfFile, Signal, ReadConfig, BackendEnds, vars, Over, Reading
    <2> QED
      BY <2>1, <2>2, <2>3, StreamKept
  <1> QED
    BY <1>1, CheckStopKeeps, PartRead, ReadSizeKeeps, ReadKindKeeps,
       ReadStampKeeps, ReadPayloadKeeps, BeginPacketKeeps, BeginNonsenseKeeps,
       SendBytesKeeps DEF Next, Run

-----------------------------------------------------------------------------
(* The invariant of the configuration pipe                                 *)

\* The bytes of at most three buffers.
Later(buffers) ==
  CASE Len(buffers) = 2 -> buffers[2]
    [] Len(buffers) = 3 -> buffers[2] \o buffers[3]
    [] OTHER            -> <<>>

Joined(buffers) == IF buffers = <<>> THEN <<>> ELSE buffers[1] \o Later(buffers)

Leads(s, t) == \E u \in Seq(Byte) : s \o u = t

\* Where run() stands in the two packets, by what it has written and has yet to
\* write.  A call that sleeps has filled the pipe.
ConfigInv ==
  /\ Len(toWrite) <= 3
  /\ config <= Len(written)
  /\ phase \in {"config", "end"} /\ asleep =>
       toWrite # <<>> /\ capacity <= Len(written)
  /\ phase = "config" => written \o Joined(toWrite) = ConfigBytes
  /\ phase = "video" => written = ConfigBytes /\ toWrite = <<>>
  /\ phase = "end" =>
       \/ written \o Joined(toWrite) = ConfigBytes \o EndBytes
       \/ /\ stop /\ capacity < Len(ConfigBytes)
          /\ \E k \in 0 .. Len(ConfigBytes) :
               written \o Joined(toWrite) = SubSeq(ConfigBytes, 1, k) \o EndBytes
       \/ backend = "gone" /\ Leads(written, ConfigBytes)
  /\ phase = "done" => ConfigFramed

LEMMA LeadsIsPrefix ==
  ASSUME NEW s \in Seq(Byte), NEW u \in Seq(Byte)
  PROVE  IsPrefix(s, s \o u)
  <1>1. /\ Len(s \o u) = Len(s) + Len(u) /\ Len(s) \in Nat /\ Len(u) \in Nat
        /\ \A i \in 1 .. Len(s) : (s \o u)[i] = s[i]
    BY Joins
  <1>2. SubSeq(s, 1, Len(s)) = SubSeq(s \o u, 1, Len(s))
    OBVIOUS
  <1> QED
    BY <1>1, <1>2 DEF IsPrefix

LEMMA UpToThree ==
  ASSUME NEW S, NEW s \in Seq(S), Len(s) <= 3
  PROVE  /\ Len(s) = 0 \/ Len(s) = 1 \/ Len(s) = 2 \/ Len(s) = 3
         /\ Len(s) = 0 <=> s = <<>>
         /\ s # <<>> => Head(s) = s[1] /\ s[1] \in S /\ Tail(s) \in Seq(S)
         /\ Len(s) = 1 => Tail(s) = <<>>
         /\ Len(s) = 2 => /\ Len(Tail(s)) = 1 /\ Tail(s) # <<>>
                          /\ Tail(s)[1] = s[2] /\ s[2] \in S
         /\ Len(s) = 3 => /\ Len(Tail(s)) = 2 /\ Tail(s) # <<>>
                          /\ Tail(s)[1] = s[2] /\ Tail(s)[2] = s[3]
                          /\ s[2] \in S /\ s[3] \in S
  <1>1. Len(s) = 0 \/ Len(s) = 1 \/ Len(s) = 2 \/ Len(s) = 3
    <2> DEFINE n == Len(s)
    <2>1. n \in Nat /\ n <= 3
      OBVIOUS
    <2> HIDE DEF n
    <2>2. n = 0 \/ n = 1 \/ n = 2 \/ n = 3
      BY <2>1
    <2> QED
      BY <2>2 DEF n
  <1>2. \A t \in Seq(S) : Len(t) = 0 <=> t = <<>>
    OBVIOUS
  <1>3. s # <<>> => Head(s) = s[1] /\ s[1] \in S /\ Tail(s) \in Seq(S)
    OBVIOUS
  <1>4. ASSUME Len(s) = 1 PROVE Tail(s) = <<>>
    <2>1. Tail(s) \in Seq(S) /\ Len(Tail(s)) = 0
      BY <1>2, <1>3, <1>4
    <2> QED
      BY <1>2, <2>1
  <1>5. ASSUME Len(s) = 2
        PROVE  /\ Len(Tail(s)) = 1 /\ Tail(s) # <<>>
               /\ Tail(s)[1] = s[2] /\ s[2] \in S
    <2>1. Tail(s) \in Seq(S) /\ Len(Tail(s)) = 1
      BY <1>2, <1>3, <1>5
    <2>2. Tail(s)[1] = s[2] /\ s[2] \in S
      BY <1>5
    <2>3. Tail(s) # <<>>
      <3>1. Len(Tail(s)) # 0
        BY <2>1
      <3> QED
        BY <1>2, <2>1, <3>1, Zenon
    <2> QED
      BY <2>1, <2>2, <2>3
  <1>6. ASSUME Len(s) = 3
        PROVE  /\ Len(Tail(s)) = 2 /\ Tail(s) # <<>>
               /\ Tail(s)[1] = s[2] /\ Tail(s)[2] = s[3]
               /\ s[2] \in S /\ s[3] \in S
    <2>1. Tail(s) \in Seq(S) /\ Len(Tail(s)) = 2
      BY <1>2, <1>3, <1>6
    <2>2. Tail(s)[1] = s[2] /\ Tail(s)[2] = s[3] /\ s[2] \in S /\ s[3] \in S
      BY <1>6
    <2>3. Tail(s) # <<>>
      <3>1. Len(Tail(s)) # 0
        BY <2>1
      <3> QED
        BY <1>2, <2>1, <3>1, Zenon
    <2> QED
      BY <2>1, <2>2, <2>3
  <1> QED
    BY <1>1, <1>2, <1>3, <1>4, <1>5, <1>6

LEMMA BuffersTyped ==
  ASSUME NEW kind \in Byte, NEW payload \in Seq(Byte), 1 + Len(payload) <= SizeMax
  PROVE  /\ Buffers(kind, payload) \in Seq(Seq(Byte) \ {<<>>})
         /\ Buffers(kind, payload) # <<>> /\ Len(Buffers(kind, payload)) <= 3
         /\ Joined(Buffers(kind, payload))
              = SizeImage[1 + Len(payload)] \o <<kind>> \o payload
  <1> DEFINE size == SizeImage[1 + Len(payload)]
  <1>1. size \in Seq(Byte) /\ Len(size) = SizeBytes
    <2>1. 1 + Len(payload) \in 0 .. SizeMax
      BY SizesTyped
    <2> QED
      BY <2>1, SizeProperties
  <1>2. Buffers(kind, payload) =
          <<size, <<kind>>>> \o (IF payload = <<>> THEN <<>> ELSE <<payload>>)
    BY DEF Buffers
  <1> HIDE DEF size
  <1>3. size # <<>> /\ <<kind>> # <<>> /\ <<kind>> \in Seq(Byte)
    BY <1>1, SizesTyped
  <1>4. CASE payload = <<>>
    <2>1. Buffers(kind, payload) = <<size, <<kind>>>>
      BY <1>2, <1>4
    <2>2. Joined(<<size, <<kind>>>>) = size \o <<kind>>
      BY DEF Joined, Later
    <2>3. size \o <<kind>> \in Seq(Byte)
      BY <1>1, <1>3, Joins
    <2>4. size \o <<kind>> \o payload = size \o <<kind>>
      BY <1>4, <2>3, NothingJoined
    <2>5. /\ <<size, <<kind>>>> \in Seq(Seq(Byte) \ {<<>>})
          /\ <<size, <<kind>>>> # <<>> /\ Len(<<size, <<kind>>>>) <= 3
      BY <1>1, <1>3
    <2> QED
      BY <2>1, <2>2, <2>4, <2>5 DEF size
  <1>5. CASE payload # <<>>
    <2> DEFINE t == <<size, <<kind>>>> \o <<payload>>
    <2>1. Buffers(kind, payload) = t
      BY <1>2, <1>5
    <2>2. /\ t \in Seq(Seq(Byte) \ {<<>>}) /\ Len(t) = 3
          /\ t[1] = size /\ t[2] = <<kind>> /\ t[3] = payload
      <3> DEFINE Piece == Seq(Byte) \ {<<>>}
      <3>1. size \in Piece /\ <<kind>> \in Piece /\ payload \in Piece
        BY <1>1, <1>3, <1>5
      <3> HIDE DEF Piece
      <3>2. \A a, b, c \in Piece : 
              /\ <<a, b>> \o <<c>> \in Seq(Piece) /\ Len(<<a, b>> \o <<c>>) = 3
              /\ (<<a, b>> \o <<c>>)[1] = a /\ (<<a, b>> \o <<c>>)[2] = b
              /\ (<<a, b>> \o <<c>>)[3] = c
        OBVIOUS
      <3> QED
        BY <3>1, <3>2 DEF Piece
    <2> HIDE DEF t
    <2>3. t # <<>>
      BY <2>2
    <2>5. Joined(t) = size \o (<<kind>> \o payload) /\ Len(t) <= 3
      BY <2>2, <2>3 DEF Joined, Later
    <2>4. size \o <<kind>> \o payload = size \o (<<kind>> \o payload)
      BY <1>1, <1>3, Associative
    <2> QED
      BY <2>1, <2>2, <2>3, <2>4, <2>5 DEF size
  <1> QED
    BY <1>4, <1>5

LEMMA PacketsTyped ==
  /\ ConfigKind \in Byte /\ EndKind \in Byte
  /\ Parameters \in Seq(Byte) /\ 1 + Len(Parameters) <= SizeMax
  /\ <<>> \in Seq(Byte) /\ 1 + Len(<<>>) <= SizeMax
  /\ ConfigBytes \in Seq(Byte) /\ Len(ConfigBytes) \in Nat
  /\ EndBytes \in Seq(Byte)
  /\ Joined(Buffers(ConfigKind, Parameters)) = ConfigBytes
  /\ Joined(Buffers(EndKind, <<>>)) = EndBytes
  <1>1. ConfigKind \in Byte /\ EndKind \in Byte
    BY SizesTyped DEF Kind, ConfigKind, EndKind, Data, Secondary
  <1>2. Parameters \in Seq(Byte) /\ 1 + Len(Parameters) <= SizeMax
    BY PacketIOAssumption
  <1>3. <<>> \in Seq(Byte) /\ 1 + Len(<<>>) <= SizeMax /\ 1 + Len(<<>>) = 1
    BY SizesTyped
  <1>4. /\ SizeImage[1 + Len(Parameters)] \in Seq(Byte)
        /\ SizeImage[1] \in Seq(Byte)
    <2>1. 1 + Len(Parameters) \in 0 .. SizeMax /\ 1 \in 0 .. SizeMax
      BY <1>2, <1>3, SizesTyped
    <2> QED
      BY <2>1, SizeProperties
  <1>5. <<ConfigKind>> \in Seq(Byte) /\ <<EndKind>> \in Seq(Byte)
    BY <1>1
  <1>6. /\ SizeImage[1 + Len(Parameters)] \o <<ConfigKind>> \in Seq(Byte)
        /\ SizeImage[1] \o <<EndKind>> \in Seq(Byte)
    BY <1>4, <1>5, Joins
  <1>7. ConfigBytes \in Seq(Byte) /\ Len(ConfigBytes) \in Nat /\ EndBytes \in Seq(Byte)
    BY <1>2, <1>6, Joins DEF ConfigBytes, EndBytes
  <1>8. Joined(Buffers(ConfigKind, Parameters)) = ConfigBytes
    BY <1>1, <1>2, BuffersTyped DEF ConfigBytes
  <1>9. Joined(Buffers(EndKind, <<>>)) = EndBytes
    <2>1. Joined(Buffers(EndKind, <<>>)) = SizeImage[1] \o <<EndKind>> \o <<>>
      BY <1>1, <1>3, BuffersTyped
    <2> QED
      BY <1>6, <2>1, NothingJoined DEF EndBytes
  <1> QED
    BY <1>1, <1>2, <1>3, <1>7, <1>8, <1>9

LEMMA LaterTyped ==
  ASSUME NEW buffers \in Seq(Seq(Byte) \ {<<>>}), Len(buffers) <= 3
  PROVE  /\ Later(buffers) \in Seq(Byte) /\ Joined(buffers) \in Seq(Byte)
         /\ buffers # <<>> => /\ Joined(Tail(buffers)) = Later(buffers)
                              /\ Head(buffers) = buffers[1]
                              /\ buffers[1] \in Seq(Byte)
                              /\ Tail(buffers) \in Seq(Seq(Byte) \ {<<>>})
                              /\ Len(Tail(buffers)) <= 3
                              /\ Joined(buffers) # <<>>
  <1> DEFINE Piece == Seq(Byte) \ {<<>>}
             t     == Tail(buffers)
  <1>1. buffers \in Seq(Piece)
    OBVIOUS
  <1> HIDE DEF Piece
  <1>2. /\ Len(buffers) = 0 \/ Len(buffers) = 1 \/ Len(buffers) = 2 \/ Len(buffers) = 3
        /\ Len(buffers) = 0 <=> buffers = <<>>
        /\ buffers # <<>> =>
             Head(buffers) = buffers[1] /\ buffers[1] \in Piece /\ t \in Seq(Piece)
        /\ Len(buffers) = 1 => t = <<>>
        /\ Len(buffers) = 2 =>
             Len(t) = 1 /\ t # <<>> /\ t[1] = buffers[2] /\ buffers[2] \in Piece
        /\ Len(buffers) = 3 =>
             /\ Len(t) = 2 /\ t # <<>> /\ t[1] = buffers[2] /\ t[2] = buffers[3]
             /\ buffers[2] \in Piece /\ buffers[3] \in Piece
    BY <1>1, UpToThree
  <1> HIDE DEF t
  <1>3. CASE buffers = <<>>
    BY <1>2, <1>3, NothingJoined DEF Later, Joined
  <1>4. CASE buffers # <<>>
    <2>1. \A b \in Piece : b \in Seq(Byte) /\ Len(b) \in Nat \ {0}
      BY DEF Piece
    <2>2. Later(buffers) \in Seq(Byte) /\ Joined(t) = Later(buffers) /\ Len(t) <= 3
      <3>1. CASE Len(buffers) = 1
        BY <1>2, <3>1, NothingJoined DEF Later, Joined
      <3>2. CASE Len(buffers) = 2
        <4>1. /\ Len(t) = 1 /\ t # <<>> /\ t[1] = buffers[2]
              /\ buffers[2] \in Seq(Byte)
          BY <1>2, <2>1, <3>2
        <4>2. Joined(t) = buffers[2] \o <<>>
          BY <4>1 DEF Joined, Later
        <4>3. Later(buffers) = buffers[2]
          BY <3>2 DEF Later
        <4> QED
          BY <4>1, <4>2, <4>3, NothingJoined
      <3>3. CASE Len(buffers) = 3
        <4>1. /\ Len(t) = 2 /\ t # <<>> /\ t[1] = buffers[2] /\ t[2] = buffers[3]
              /\ buffers[2] \in Seq(Byte) /\ buffers[3] \in Seq(Byte)
          BY <1>2, <2>1, <3>3
        <4>4. Later(t) = t[2]
          BY <4>1 DEF Later
        <4>2. Joined(t) = buffers[2] \o buffers[3]
          BY <4>1, <4>4 DEF Joined
        <4>3. Later(buffers) = buffers[2] \o buffers[3]
          BY <3>3 DEF Later
        <4> QED
          BY <4>1, <4>2, <4>3, Joins
      <3> QED
        BY <1>2, <1>4, <3>1, <3>2, <3>3
    <2>3. Joined(buffers) = buffers[1] \o Later(buffers)
      BY <1>4 DEF Joined
    <2>4. /\ Joined(buffers) \in Seq(Byte)
          /\ Len(Joined(buffers)) = Len(buffers[1]) + Len(Later(buffers))
          /\ Len(buffers[1]) \in Nat \ {0} /\ Len(Later(buffers)) \in Nat
      BY <1>2, <1>4, <2>1, <2>2, <2>3, Joins
    <2>5. Joined(buffers) # <<>>
      <3>1. Len(Joined(buffers)) # 0
        BY <2>4
      <3> QED
        BY <3>1
    <2> QED
      BY <1>2, <1>4, <2>1, <2>2, <2>4, <2>5 DEF t, Piece
  <1> QED
    BY <1>3, <1>4

\* What write() returns moves from the buffers to what is written.
LEMMA Written ==
  ASSUME TypeOK, Len(toWrite) <= 3, Write
  PROVE  /\ written' \o Joined(toWrite') = written \o Joined(toWrite)
         /\ toWrite' \in Seq(Seq(Byte) \ {<<>>}) /\ Len(toWrite') <= 3
         /\ written' \in Seq(Byte) /\ config' \in 0 .. capacity
         /\ Len(written') - Len(written) = config' - config
         /\ Len(written) \in Nat /\ Len(written') \in Nat /\ config \in Nat
  <1> DEFINE buffer == toWrite[1]
  <1>1. /\ toWrite \in Seq(Seq(Byte) \ {<<>>}) /\ toWrite # <<>>
        /\ written \in Seq(Byte) /\ config \in 0 .. capacity /\ capacity \in Nat
    BY PacketIOAssumption DEF TypeOK, Write, Writing
  <1>2. /\ Later(toWrite) \in Seq(Byte) /\ Joined(Tail(toWrite)) = Later(toWrite)
        /\ Head(toWrite) = buffer
    BY <1>1, LaterTyped
  <1>3. buffer \in Seq(Byte)
    BY <1>1
  <1> HIDE DEF buffer
  <1>4. PICK count \in 1 .. Len(buffer) :
          /\ config + count <= capacity
          /\ config' = config + count
          /\ written' = written \o SubSeq(buffer, 1, count)
          /\ toWrite' = IF count = Len(buffer) THEN Tail(toWrite)
                        ELSE [toWrite EXCEPT ![1] = Remaining(@, count)]
    BY <1>2 DEF Write
  <1> DEFINE head == Slice(buffer, 0, count)
             tail == Slice(buffer, count, Len(buffer))
  <1>5. count \in 0 .. Len(buffer) /\ count \in Nat \ {0} /\ Len(buffer) \in Nat
    BY <1>3, <1>4
  <1>6. /\ head \in Seq(Byte) /\ Len(head) = count
        /\ tail \in Seq(Byte) /\ Len(tail) = Len(buffer) - count
        /\ head \o tail = buffer
    BY <1>3, <1>5, SlicesJoin
  <1>7. /\ written' = written \o head
        /\ Remaining(buffer, count) = tail
    BY <1>4 DEF Slice, Remaining
  <1> HIDE DEF head, tail
  <1>8. written' \in Seq(Byte) /\ Len(written') = Len(written) + count
    BY <1>1, <1>6, <1>7, Joins
  <1>9. /\ Joined(toWrite) = head \o Joined(toWrite')
        /\ Joined(toWrite') \in Seq(Byte)
        /\ toWrite' \in Seq(Seq(Byte) \ {<<>>}) /\ Len(toWrite') <= 3
    <2>1. Joined(toWrite) = buffer \o Later(toWrite)
      BY <1>1 DEF Joined, buffer
    <2>2. CASE count = Len(buffer)
      <3>1. toWrite' = Tail(toWrite) /\ Len(tail) = 0
        BY <1>4, <1>5, <1>6, <2>2
      <3>2. head = buffer
        <4>1. tail = <<>>
          BY <1>6, <3>1
        <4> QED
          BY <1>6, <4>1, NothingJoined
      <3>3. Tail(toWrite) \in Seq(Seq(Byte) \ {<<>>}) /\ Len(Tail(toWrite)) <= 3
        BY <1>1
      <3> QED
        BY <1>2, <2>1, <3>1, <3>2, <3>3
    <2>3. CASE count # Len(buffer)
      <3>1. toWrite' = [toWrite EXCEPT ![1] = tail]
        BY <1>4, <1>7, <2>3 DEF buffer
      <3>2. tail \in Seq(Byte) \ {<<>>}
        <4>1. Len(tail) # 0
          BY <1>4, <1>5, <1>6, <2>3
        <4> QED
          BY <1>6, <4>1
      <3>3. /\ toWrite' \in Seq(Seq(Byte) \ {<<>>}) /\ Len(toWrite') = Len(toWrite)
            /\ toWrite' # <<>> /\ toWrite'[1] = tail
            /\ \A i \in 2 .. Len(toWrite) : toWrite'[i] = toWrite[i]
        BY <1>1, <3>1, <3>2
      <3>4. Later(toWrite') = Later(toWrite)
        BY <3>3 DEF Later
      <3>5. Joined(toWrite') = tail \o Later(toWrite)
        BY <3>3, <3>4 DEF Joined
      <3>6. (head \o tail) \o Later(toWrite) = head \o (tail \o Later(toWrite))
        BY <1>2, <1>6, Associative
      <3>7. tail \o Later(toWrite) \in Seq(Byte)
        BY <1>2, <1>6, Joins
      <3> QED
        BY <1>6, <2>1, <3>3, <3>5, <3>6, <3>7
    <2> QED
      BY <2>2, <2>3
  <1>10. written' \o Joined(toWrite') = written \o Joined(toWrite)
    <2>1. (written \o head) \o Joined(toWrite') = written \o (head \o Joined(toWrite'))
      BY <1>1, <1>6, <1>9, Associative
    <2> QED
      BY <1>7, <1>9, <2>1
  <1>11. config' \in 0 .. capacity
    BY <1>1, <1>4, <1>5
  <1>12. /\ Len(written') - Len(written) = config' - config
         /\ Len(written) \in Nat /\ Len(written') \in Nat /\ config \in Nat
    BY <1>1, <1>4, <1>5, <1>8
  <1> QED
    BY <1>8, <1>9, <1>10, <1>11, <1>12

\* The backend has read a part of the two packets whatever phase run() is in.
LEMMA ConfigInvFramed ==
  ASSUME TypeOK, ConfigInv
  PROVE  ConfigFramed
  <1>1. /\ written \in Seq(Byte) /\ Joined(toWrite) \in Seq(Byte)
        /\ ConfigBytes \in Seq(Byte) /\ EndBytes \in Seq(Byte)
    BY LaterTyped, PacketsTyped DEF TypeOK, ConfigInv
  <1>2. ASSUME Leads(written, ConfigBytes) PROVE ConfigFramed
    <2>1. PICK u \in Seq(Byte) : written \o u = ConfigBytes
      BY <1>2 DEF Leads
    <2>5. (written \o u) \o EndBytes = written \o (u \o EndBytes)
      BY <1>1, Associative
    <2>2. ConfigBytes \o EndBytes = written \o (u \o EndBytes)
      BY <2>1, <2>5, Zenon
    <2>3. u \o EndBytes \in Seq(Byte)
      BY <1>1, Joins
    <2>4. IsPrefix(written, ConfigBytes \o EndBytes)
      BY <1>1, <2>2, <2>3, LeadsIsPrefix
    <2> QED
      BY <2>4 DEF ConfigFramed
  <1>3. CASE phase = "config"
    BY <1>1, <1>2, <1>3 DEF ConfigInv, Leads
  <1>4. CASE phase = "video"
    <2>1. written \o <<>> = ConfigBytes /\ <<>> \in Seq(Byte)
      BY <1>1, <1>4, NothingJoined DEF ConfigInv
    <2>2. Leads(written, ConfigBytes)
      BY <2>1 DEF Leads
    <2> QED
      BY <1>2, <2>2
  <1>5. CASE phase = "end"
    <2>1. IsPrefix(written, written \o Joined(toWrite))
      BY <1>1, LeadsIsPrefix
    <2> QED
      BY <1>2, <1>5, <2>1 DEF ConfigInv, ConfigFramed
  <1>6. CASE phase = "done"
    BY <1>6 DEF ConfigInv
  <1> QED
    BY <1>3, <1>4, <1>5, <1>6 DEF TypeOK

LEMMA ConfigInit == Init => ConfigInv
  <1> SUFFICES ASSUME Init PROVE ConfigInv
    OBVIOUS
  <1>1. /\ phase = "config" /\ asleep = FALSE /\ written = <<>> /\ config = 0
        /\ toWrite = Buffers(ConfigKind, Parameters)
    BY DEF Init
  <1>2. Len(toWrite) <= 3 /\ Joined(toWrite) = ConfigBytes
    BY <1>1, BuffersTyped, PacketsTyped
  <1>3. written \o Joined(toWrite) = ConfigBytes
    BY <1>1, <1>2, NothingJoined, PacketsTyped
  <1> QED
    BY <1>1, <1>2, <1>3 DEF ConfigInv

\* run() goes on to the end packet, or past it.
LEMMA OverKeeps ==
  ASSUME TypeOK, ConfigInv, Over, phase # "done",
         UNCHANGED <<capacity, config, written>>, stop => stop',
         phase = "config" =>
           (backend = "gone" /\ backend' = "gone") \/ (asleep /\ stop')
  PROVE  ConfigInv'
  <1>1. /\ written \in Seq(Byte) /\ Joined(toWrite) \in Seq(Byte)
        /\ ConfigBytes \in Seq(Byte) /\ EndBytes \in Seq(Byte)
        /\ Len(ConfigBytes) \in Nat /\ capacity \in Nat
        /\ toWrite \in Seq(Seq(Byte) \ {<<>>})
    BY LaterTyped, PacketsTyped, PacketIOAssumption DEF TypeOK, ConfigInv
  <1>2. CASE phase = "end"
    <2>1. phase' = "done" /\ toWrite' = <<>> /\ asleep' = FALSE
      BY <1>2 DEF Over
    <2>2. ConfigFramed'
      BY ConfigInvFramed DEF ConfigFramed
    <2> QED
      BY <2>1, <2>2 DEF ConfigInv
  <1>3. CASE phase # "end"
    <2>1. /\ phase' = "end" /\ asleep' = FALSE
          /\ toWrite' = Buffers(EndKind, <<>>)
      BY <1>3 DEF Over
    <2>2. Len(toWrite') <= 3 /\ Joined(toWrite') = EndBytes
      BY <2>1, BuffersTyped, PacketsTyped
    <2>3. CASE phase = "video"
      BY <2>1, <2>2, <2>3 DEF ConfigInv
    <2>4. CASE phase = "config" /\ backend = "gone" /\ backend' = "gone"
      <3>1. Leads(written, ConfigBytes)
        BY <1>1, <2>4 DEF ConfigInv, Leads
      <3> QED
        BY <2>1, <2>2, <2>4, <3>1 DEF ConfigInv
    <2>5. CASE phase = "config" /\ asleep /\ stop'
      <3>1. /\ written \o Joined(toWrite) = ConfigBytes
            /\ toWrite # <<>> /\ capacity <= Len(written) /\ Len(toWrite) <= 3
        BY <2>5 DEF ConfigInv
      <3>2. Joined(toWrite) # <<>>
        BY <1>1, <3>1, LaterTyped
      <3>3. /\ Len(written) \in 0 .. Len(ConfigBytes)
            /\ capacity < Len(ConfigBytes)
        <4>1. Len(ConfigBytes) = Len(written) + Len(Joined(toWrite))
          BY <1>1, <3>1, Joins
        <4>2. Len(Joined(toWrite)) \in Nat \ {0} /\ Len(written) \in Nat
          BY <1>1, <3>2
        <4> QED
          BY <1>1, <3>1, <4>1, <4>2
      <3>4. SubSeq(ConfigBytes, 1, Len(written)) = written
        BY <1>1, <3>1
      <3>5. written' \o Joined(toWrite')
              = SubSeq(ConfigBytes, 1, Len(written)) \o EndBytes
        BY <2>2, <3>4
      <3> QED
        BY <2>1, <2>2, <2>5, <3>3, <3>5 DEF ConfigInv
    <2> QED
      BY <1>3, <2>3, <2>4, <2>5 DEF TypeOK
  <1> QED
    BY <1>2, <1>3

LEMMA WriteKeeps ==
  ASSUME TypeOK, ConfigInv, Write
  PROVE  ConfigInv'
  <1>1. /\ written' \o Joined(toWrite') = written \o Joined(toWrite)
        /\ Len(toWrite') <= 3
        /\ Len(written') - Len(written) = config' - config
        /\ Len(written) \in Nat /\ Len(written') \in Nat /\ config \in Nat
        /\ config' \in 0 .. capacity
    BY Written DEF ConfigInv
  <1>2. /\ phase \in {"config", "end"} /\ backend = "running" /\ asleep' = FALSE
        /\ UNCHANGED <<phase, stop, capacity>>
    BY DEF Write, Writing
  <1>3. config' <= Len(written')
    BY <1>1 DEF ConfigInv
  <1>4. phase = "end" =>
          \/ written' \o Joined(toWrite') = ConfigBytes \o EndBytes
          \/ /\ stop /\ capacity < Len(ConfigBytes)
             /\ \E k \in 0 .. Len(ConfigBytes) :
                  written' \o Joined(toWrite') = SubSeq(ConfigBytes, 1, k) \o EndBytes
    BY <1>1, <1>2 DEF ConfigInv
  <1>5. phase = "config" => written' \o Joined(toWrite') = ConfigBytes
    BY <1>1 DEF ConfigInv
  <1> QED
    BY <1>1, <1>2, <1>3, <1>4, <1>5 DEF ConfigInv

LEMMA ConfigStep ==
  ASSUME TypeOK, ConfigInv, [Next]_vars
  PROVE  ConfigInv'
  <1>1. config \in Nat /\ Len(written) \in Nat /\ written \in Seq(Byte)
    BY PacketIOAssumption DEF TypeOK
  <1>2. CASE SleepInWrite
    BY <1>2 DEF SleepInWrite, Writing, ConfigInv, ConfigFramed, sendVars, backVars
  <1>3. CASE PacketWritten
    <2>1. /\ toWrite = <<>>
          /\ UNCHANGED <<stop, asleep, toWrite, capacity, written, config, backend>>
          /\ phase \in {"config", "end"}
          /\ phase' = IF phase = "config" THEN "video" ELSE "done"
      BY <1>3 DEF PacketWritten, sendVars, backVars
    <2>2. written \o Joined(toWrite) = written
      BY <1>1, <2>1, NothingJoined DEF Joined
    <2>3. ConfigFramed'
      BY <2>1, ConfigInvFramed DEF ConfigFramed
    <2> QED
      BY <2>1, <2>2, <2>3 DEF ConfigInv
  <1>4. CASE WriteFails
    <2>1. /\ Over /\ phase # "done" /\ UNCHANGED <<capacity, config, written>>
          /\ stop' = stop /\ backend = "gone" /\ backend' = "gone"
      BY <1>4 DEF WriteFails, Writing, backVars
    <2>2. stop => stop'
      BY <2>1
    <2>3. (backend = "gone" /\ backend' = "gone") \/ (asleep /\ stop')
      BY <2>1
    <2> QED
      BY <2>1, <2>2, <2>3, OverKeeps
  <1>5. CASE CheckStop
    <2>1. CASE stop
      BY <1>5, <2>1, OverKeeps DEF CheckStop
    <2>2. CASE ~stop
      BY <1>5, <2>2 DEF CheckStop, ConfigInv, ConfigFramed, backVars
    <2> QED
      BY <2>1, <2>2
  <1>6. CASE SleepInRead
    BY <1>6 DEF SleepInRead, Reading, ConfigInv, ConfigFramed, sendVars, backVars
  <1>7. CASE ReadSize
    <2>1. /\ phase = "video" /\ UNCHANGED <<capacity, config, written, stop, backend>>
      BY <1>7 DEF ReadSize, Read, Reading, backVars
    <2>2. CASE SizeAccepted(Number(Field, SizeImage))
      BY <1>7, <2>1, <2>2 DEF ReadSize, ConfigInv
    <2>3. CASE ~SizeAccepted(Number(Field, SizeImage))
      BY <1>7, <2>1, <2>3, OverKeeps DEF ReadSize
    <2> QED
      BY <2>2, <2>3
  <1>8. CASE ReadPart \/ ReadKind \/ ReadStamp \/ ReadPayload
    <2>1. /\ phase = "video" /\ phase' = "video" /\ toWrite' = toWrite
          /\ UNCHANGED <<capacity, config, written>>
      BY <1>8 DEF ReadPart, ReadKind, ReadStamp, ReadPayload, Read, Reading
    <2> QED
      BY <2>1 DEF ConfigInv
  <1>9. CASE EndOfFile
    BY <1>9, OverKeeps DEF EndOfFile, Reading
  <1>10. CASE Signal
    <2>1. CASE asleep
      BY <1>10, <2>1, OverKeeps DEF Signal
    <2>2. CASE ~asleep
      <3>1. /\ UNCHANGED <<phase, toWrite, asleep, capacity, config, written, backend>>
            /\ stop' = TRUE
        BY <1>10, <2>2 DEF Signal, backVars
      <3> QED
        BY <3>1 DEF ConfigInv, ConfigFramed
    <2> QED
      BY <2>1, <2>2
  <1>11. CASE ReadConfig
    <2>1. config' \in 0 .. config - 1
      BY <1>11 DEF ReadConfig
    <2>2. /\ config' <= config
          /\ UNCHANGED <<phase, stop, asleep, toWrite, capacity, written, backend>>
      BY <1>1, <1>11, <2>1 DEF ReadConfig, sendVars, backVars
    <2>3. config' <= Len(written)
      BY <1>1, <2>1, <2>2 DEF ConfigInv
    <2> QED
      BY <2>2, <2>3 DEF ConfigInv, ConfigFramed
  <1>12. CASE BeginPacket \/ BeginNonsense \/ SendBytes \/ BackendEnds \/ UNCHANGED vars
    <2>1. /\ UNCHANGED <<phase, stop, asleep, toWrite, capacity, config, written>>
          /\ backend = "gone" => backend' = "gone"
      BY <1>12 DEF BeginPacket, BeginNonsense, SendBytes, BackendEnds, vars,
                   sendVars, backVars
    <2> QED
      BY <2>1 DEF ConfigInv, ConfigFramed
  <1> QED
    BY <1>2, <1>3, <1>4, <1>5, <1>6, <1>7, <1>8, <1>9, <1>10, <1>11, <1>12, WriteKeeps
       DEF Next, Run

-----------------------------------------------------------------------------
(* Types                                                                   *)

LEMMA SendableArePackets == Sendable \subseteq Packet
  <1> SUFFICES ASSUME NEW p \in Sendable PROVE p \in Packet
    OBVIOUS
  <1> QED
    BY SendableTyped DEF Packet

LEMMA ReceivedTyped ==
  ASSUME NEW p \in Packet
  PROVE  Received(p) \in Packet
  <1>1. [p EXCEPT !.payload = <<>>] \in Packet
    <2>1. <<>> \in Seq(Byte)
      OBVIOUS
    <2> QED
      BY <2>1 DEF Packet
  <1> QED
    BY <1>1 DEF Received

LEMMA BlankTyped == Blank \in Packet
  BY DEF Blank, Packet, Kind, Data, None

LEMMA TypeInit == Init => TypeOK
  <1> SUFFICES ASSUME Init PROVE TypeOK
    OBVIOUS
  <1>1. toWrite \in Seq(Seq(Byte) \ {<<>>})
    BY BuffersTyped, PacketsTyped DEF Init
  <1>2. capacity \in ConfigCapacities /\ 0 \in 0 .. capacity
    BY PacketIOAssumption DEF Init
  <1>3. /\ 0 < MaximumPacketSize + SizeBytes /\ 0 \in 0 .. MaximumPacketSize
        /\ 0 <= VideoCapacity
    BY SizesTyped, PacketIOAssumption
  <1>4. /\ <<>> \in Seq(Byte) /\ <<>> \in Seq(Packet) /\ Len(<<>>) = 0
    OBVIOUS
  <1> QED
    BY <1>1, <1>2, <1>3, <1>4, BlankTyped DEF Init, TypeOK

\* The longest field.
LEMMA WantedBounded ==
  ASSUME TypeOK, VideoInv, phase = "video", field # "check"
  PROVE  /\ Wanted \in Nat /\ Wanted <= MaximumPacketSize + SizeBytes
         /\ field = "kind" => left >= 1
         /\ field = "stamp" => left >= StampBytes
  <1>1. /\ DeliveredInv /\ StreamInv /\ PacketInv /\ delivered \in Seq(Packet)
        /\ field \in {"size", "kind", "stamp", "payload"}
        /\ left \in 0 .. MaximumPacketSize
    BY DEF VideoInv, TypeOK
  <1>2. field # "size" => Current \in Sendable
    BY <1>1, CurrentTyped
  <1>3. field = "kind" => left >= 1
    <2>1. CASE field = "kind"
      <3>1. left = SizeOf(Current) /\ SizeOf(Current) \in 1 .. SizeMax
        BY <1>1, <1>2, <2>1, SendableTyped DEF PacketInv
      <3> QED
        BY <3>1
    <2> QED
      BY <2>1
  <1>4. field = "stamp" => left >= StampBytes
    <2>1. CASE field = "stamp"
      <3>1. /\ left = SizeOf(Current) - 1
            /\ SizeOf(Current) = 1 + Len(Stamp(Current)) + Len(Current.payload)
            /\ Len(Stamp(Current)) = StampBytes /\ Current.payload \in Seq(Byte)
        BY <1>1, <1>2, <2>1, SendableTyped DEF PacketInv
      <3> DEFINE size == SizeOf(Current)
                 load == Len(Current.payload)
      <3>2. load \in Nat
        BY <3>1
      <3>3. left = size - 1 /\ size = 1 + StampBytes + load
        BY <3>1
      <3> HIDE DEF size, load
      <3> QED
        BY <3>2, <3>3, SizesTyped
    <2> QED
      BY <2>1
  <1>5. Wanted \in Nat /\ Wanted <= MaximumPacketSize + SizeBytes
    BY <1>1, <1>4, SizesTyped DEF Wanted
  <1> QED
    BY <1>3, <1>4, <1>5

\* A step that reads ends in the types of what it has read.
LEMMA TypeRead ==
  ASSUME TypeOK, VideoInv, VideoInv', NEW whole \in BOOLEAN, Read(whole),
         phase' \in {"video", "end"},
         phase' = "end" => delivered' = delivered /\ packet' = packet,
         field' \in {"size", "check", "kind", "stamp", "payload"},
         left' \in 0 .. MaximumPacketSize,
         delivered' = delivered \/ \E p : delivered' = Append(delivered, p),
         toWrite' \in Seq(Seq(Byte) \ {<<>>}), asleep' \in BOOLEAN
  PROVE  TypeOK'
  <1>1. /\ phase = "video" /\ field # "check" /\ GotInv
        /\ UNCHANGED <<stop, capacity, config, written, noPayload, sending, sent,
                       backend>>
    BY DEF Read, Reading, VideoInv, backVars
  <1>2. /\ Field \in Seq(Byte) /\ video' \in Seq(Byte)
        /\ Len(Field) <= Wanted /\ (whole <=> Len(Field) = Wanted)
        /\ got' = IF whole THEN <<>> ELSE Field
        /\ Wanted \in Nat /\ Len(video') <= Len(video)
    BY <1>1, BytesRead
  <1>3. got' \in Seq(Byte) /\ Len(got') < MaximumPacketSize + SizeBytes
    <2>1. Wanted <= MaximumPacketSize + SizeBytes
      BY <1>1, WantedBounded
    <2>2. CASE whole
      BY <1>2, <2>2, SizesTyped
    <2>3. CASE ~whole
      <3>1. got' = Field /\ Len(Field) # Wanted
        BY <1>2, <2>3
      <3>2. Len(Field) \in Nat
        BY <1>2
      <3> QED
        BY <1>2, <2>1, <3>1, <3>2, SizesTyped
    <2> QED
      BY <2>2, <2>3
  <1>4. Len(video') <= VideoCapacity
    <2>1. /\ Len(video) <= VideoCapacity /\ Len(video) \in Nat /\ Len(video') \in Nat
          /\ VideoCapacity \in Nat
      BY <1>2, PacketIOAssumption DEF TypeOK
    <2> QED
      BY <1>2, <2>1
  <1>5. delivered' \in Seq(Packet)
    <2>1. CASE delivered' = delivered
      BY <2>1 DEF TypeOK
    <2>2. ASSUME NEW p, delivered' = Append(delivered, p)
          PROVE  delivered' \in Seq(Packet)
      <3>1. delivered \in Seq(Packet)
        BY DEF TypeOK
      <3>2. /\ Len(delivered') = Len(delivered) + 1
            /\ delivered'[Len(delivered) + 1] = p
            /\ Len(delivered) + 1 \in Nat \ {0}
        BY <2>2, <3>1
      <3>3. /\ sent \in Seq(Sendable) /\ Len(delivered') <= Len(sent)
            /\ \A i \in 1 .. Len(delivered') : delivered'[i] = Received(sent[i])
        BY <1>1 DEF VideoInv, DeliveredInv, Received, HasPayload
      <3>4. /\ Len(delivered) + 1 \in 1 .. Len(delivered')
            /\ Len(delivered) + 1 \in 1 .. Len(sent)
        BY <3>2, <3>3
      <3>7. p = Received(sent[Len(delivered) + 1])
        BY <3>2, <3>3, <3>4
      <3>5. sent[Len(delivered) + 1] \in Packet
        BY <3>3, <3>4, SendableArePackets
      <3>6. p \in Packet
        BY <3>5, <3>7, ReceivedTyped
      <3> QED
        BY <2>2, <3>1, <3>6
    <2> QED
      BY <2>1, <2>2
  <1>6. packet' \in Packet
    <2>1. CASE phase' = "end"
      BY <2>1 DEF TypeOK
    <2>2. CASE phase' = "video"
      <3>1. (DeliveredInv /\ StreamInv /\ PacketInv)'
        BY <2>2 DEF VideoInv
      <3>2. ASSUME field' \notin {"check", "size"} PROVE Current' \in Packet
        <4>1. Len(delivered') \in Nat /\ Awaited' = Len(delivered') + 1
          BY <1>5 DEF Awaited
        <4>2. Awaited' + 1 <= Len(sent') + 1 /\ Len(sent') \in Nat
          BY <3>1, <3>2, <4>1 DEF StreamInv, Following, DeliveredInv
        <4>3. Awaited' \in 1 .. Len(sent')
          BY <4>1, <4>2
        <4> QED
          BY <3>1, <4>3, SendableArePackets DEF Current, DeliveredInv
      <3>3. CASE field' \in {"check", "size", "kind"}
        BY <3>1, <3>3, BlankTyped DEF PacketInv
      <3>4. CASE field' = "stamp"
        <4>1. /\ packet' = [Blank EXCEPT !.kind = Current'.kind]
              /\ Current' \in Packet
          BY <3>1, <3>2, <3>4 DEF PacketInv
        <4> QED
          BY <4>1, BlankTyped DEF Packet
      <3>5. CASE field' = "payload"
        <4>1. /\ packet' = [Current' EXCEPT !.payload = <<>>]
              /\ Current' \in Packet /\ <<>> \in Seq(Byte)
          BY <3>1, <3>2, <3>5 DEF PacketInv
        <4> QED
          BY <4>1 DEF Packet
      <3> QED
        BY <3>3, <3>4, <3>5
    <2> QED
      BY <2>1, <2>2
  <1> QED
    BY <1>1, <1>2, <1>3, <1>4, <1>5, <1>6 DEF TypeOK

LEMMA OverTyped ==
  ASSUME TypeOK, Over
  PROVE  /\ phase' \in {"end", "done"} /\ asleep' = FALSE
         /\ toWrite' \in Seq(Seq(Byte) \ {<<>>})
  <1>1. Buffers(EndKind, <<>>) \in Seq(Seq(Byte) \ {<<>>})
    BY BuffersTyped, PacketsTyped
  <1>2. <<>> \in Seq(Seq(Byte) \ {<<>>})
    OBVIOUS
  <1> QED
    BY <1>1, <1>2 DEF Over

LEMMA TypeReads ==
  ASSUME TypeOK, VideoInv, VideoInv',
         ReadPart \/ ReadSize \/ ReadKind \/ ReadStamp \/ ReadPayload
  PROVE  TypeOK'
  <1>1. /\ phase = "video" /\ left \in 0 .. MaximumPacketSize
        /\ toWrite \in Seq(Seq(Byte) \ {<<>>})
        /\ field \in {"size", "check", "kind", "stamp", "payload"}
        /\ field # "check"
    BY DEF ReadPart, ReadSize, ReadKind, ReadStamp, ReadPayload, Read, Reading, TypeOK
  <1>2. CASE ReadPart
    <2>1. /\ Read(FALSE) /\ phase' = "video" /\ toWrite' = toWrite /\ field' = field
          /\ left' = left /\ delivered' = delivered /\ asleep' = FALSE
      BY <1>1, <1>2 DEF ReadPart
    <2> QED
      BY <1>1, <2>1, TypeRead
  <1>3. CASE ReadSize
    <2>1. Read(TRUE) /\ delivered' = delivered /\ packet' = packet
      BY <1>3 DEF ReadSize
    <2>2. CASE SizeAccepted(Number(Field, SizeImage))
      <3>1. /\ field' = "kind" /\ left' = Number(Field, SizeImage)
            /\ asleep' = FALSE /\ toWrite' = toWrite /\ phase' = "video"
        BY <1>1, <1>3, <2>2 DEF ReadSize
      <3>2. Number(Field, SizeImage) = SizeOf(Current) /\ SizeOf(Current) \in 1 .. SizeMax
        <4>1. /\ Awaited \in 1 .. Len(sent)
              /\ Number(Field, SizeImage) = SizeOf(Current)
          BY <1>1, <1>3, <2>1, <2>2, SizeRead DEF ReadSize
        <4>2. Current \in Sendable
          BY <4>1 DEF VideoInv, DeliveredInv, Current
        <4> QED
          BY <4>1, <4>2, SendableTyped
      <3>3. left' \in 0 .. MaximumPacketSize
        BY <2>2, <3>1, <3>2, SizesTyped DEF SizeAccepted
      <3> QED
        BY <1>1, <2>1, <3>1, <3>3, TypeRead
    <2>3. CASE ~SizeAccepted(Number(Field, SizeImage))
      <3>1. Over /\ field' = field /\ left' = left
        BY <1>3, <2>3 DEF ReadSize
      <3>2. phase' = "end"
        BY <1>1, <3>1 DEF Over
      <3> QED
        BY <1>1, <2>1, <3>1, <3>2, OverTyped, TypeRead
    <2> QED
      BY <2>2, <2>3
  <1>4. CASE ReadKind
    <2>1. /\ Read(TRUE) /\ phase' = "video" /\ toWrite' = toWrite /\ asleep' = FALSE
          /\ field = "kind"
      BY <1>1, <1>4 DEF ReadKind
    <2>2. left - 1 \in 0 .. MaximumPacketSize
      BY <1>1, <2>1, WantedBounded, SizesTyped
    <2>3. /\ left' = left - 1
          /\ field' \in {"check", "stamp", "payload"}
          /\ delivered' = delivered \/ \E p : delivered' = Append(delivered, p)
      BY <1>4 DEF ReadKind, BeginPayload
    <2> QED
      BY <1>1, <2>1, <2>2, <2>3, TypeRead
  <1>5. CASE ReadStamp
    <2>1. /\ Read(TRUE) /\ phase' = "video" /\ toWrite' = toWrite /\ asleep' = FALSE
          /\ field = "stamp"
      BY <1>1, <1>5 DEF ReadStamp
    <2>2. left - StampBytes \in 0 .. MaximumPacketSize
      BY <1>1, <2>1, WantedBounded, SizesTyped
    <2>3. /\ left' = left - StampBytes
          /\ field' \in {"check", "payload"}
          /\ delivered' = delivered \/ \E p : delivered' = Append(delivered, p)
      BY <1>5 DEF ReadStamp, BeginPayload
    <2> QED
      BY <1>1, <2>1, <2>2, <2>3, TypeRead
  <1>6. CASE ReadPayload
    <2>1. /\ Read(TRUE) /\ phase' = "video" /\ toWrite' = toWrite /\ asleep' = FALSE
          /\ field' = "check" /\ left' = 0
          /\ \E p : delivered' = Append(delivered, p)
      BY <1>1, <1>6 DEF ReadPayload
    <2>2. left' \in 0 .. MaximumPacketSize
      BY <2>1, SizesTyped
    <2> QED
      BY <1>1, <2>1, <2>2, TypeRead
  <1> QED
    BY <1>2, <1>3, <1>4, <1>5, <1>6

LEMMA TypeStep ==
  ASSUME TypeOK, VideoInv, VideoInv', ConfigInv, [Next]_vars
  PROVE  TypeOK'
  <1>1. sent' \in Seq(Packet)
    <2>1. sent' \in Seq(Sendable)
      BY DEF VideoInv, DeliveredInv
    <2> QED
      BY <2>1, SendableArePackets
  <1>2. capacity \in Nat /\ config \in 0 .. capacity
    BY PacketIOAssumption DEF TypeOK
  <1>3. CASE Write
    <2>1. /\ toWrite' \in Seq(Seq(Byte) \ {<<>>})
          /\ written' \in Seq(Byte) /\ config' \in 0 .. capacity
      BY <1>3, Written DEF ConfigInv
    <2> QED
      BY <1>3, <2>1 DEF Write, TypeOK, readVars, backVars
  <1>4. CASE SleepInWrite \/ SleepInRead \/ BackendEnds \/ UNCHANGED vars
    BY <1>4 DEF SleepInWrite, SleepInRead, BackendEnds, vars, TypeOK, sendVars,
                readVars, backVars
  <1>5. CASE PacketWritten
    BY <1>5 DEF PacketWritten, TypeOK, sendVars, readVars, backVars
  <1>6. CASE WriteFails \/ EndOfFile
    <2>1. Over
      BY <1>6 DEF WriteFails, EndOfFile
    <2>2. UNCHANGED <<stop, capacity, config, written, field, got, left, packet,
                      delivered, noPayload, video, sending, sent, backend>>
      BY <1>6 DEF WriteFails, EndOfFile, readVars, backVars
    <2> QED
      BY <2>1, <2>2, OverTyped DEF TypeOK
  <1>7. CASE CheckStop
    <2>1. UNCHANGED <<stop, capacity, config, written, got, left, packet,
                      delivered, noPayload, video, sending, sent, backend>>
      BY <1>7 DEF CheckStop, backVars
    <2>2. CASE stop
      BY <1>7, <2>1, <2>2, OverTyped DEF CheckStop, TypeOK
    <2>3. CASE ~stop
      BY <1>7, <2>1, <2>3 DEF CheckStop, TypeOK
    <2> QED
      BY <2>2, <2>3
  <1>8. CASE Signal
    <2>1. /\ UNCHANGED <<capacity, config, written, field, got, left, packet,
                         delivered, noPayload, video, sending, sent, backend>>
          /\ stop' \in BOOLEAN
      BY <1>8 DEF Signal, readVars, backVars
    <2>2. CASE asleep
      BY <1>8, <2>1, <2>2, OverTyped DEF Signal, TypeOK
    <2>3. CASE ~asleep
      BY <1>8, <2>1, <2>3 DEF Signal, TypeOK
    <2> QED
      BY <2>2, <2>3
  <1>9. CASE ReadConfig
    <2>1. config' \in 0 .. capacity
      <3>1. config' \in 0 .. config - 1
        BY <1>9 DEF ReadConfig
      <3> QED
        BY <1>2, <3>1
    <2> QED
      BY <1>9, <2>1 DEF ReadConfig, TypeOK, sendVars, readVars, backVars
  <1>10. CASE BeginPacket \/ BeginNonsense
    <2>1. sending' \in Seq(Byte)
      <3>1. CASE BeginPacket
        <4>1. PICK p \in Sendable : sending' = Encoded(p)
          BY <3>1 DEF BeginPacket
        <4>2. noPayload \in BOOLEAN
          BY DEF TypeOK
        <4>3. Wire(p, noPayload) \in Seq(Byte)
          BY <4>2, WireTyped
        <4> QED
          BY <4>1, <4>2, <4>3, EncodedIsWire
      <3>2. CASE BeginNonsense
        <4>1. PICK n \in Nonsense : sending' = SizeImage[n]
          BY <3>2 DEF BeginNonsense, Nonsense
        <4>2. n \in 0 .. SizeMax
          BY SizesTyped DEF Nonsense
        <4> QED
          BY <4>1, <4>2, SizeProperties
      <3> QED
        BY <1>10, <3>1, <3>2
    <2>2. UNCHANGED <<phase, stop, asleep, sendVars, config, readVars, noPayload,
                      video, backend>>
      BY <1>10 DEF BeginPacket, BeginNonsense
    <2> QED
      BY <1>1, <2>1, <2>2 DEF TypeOK, sendVars, readVars
  <1>11. CASE SendBytes
    <2>1. sending \in Seq(Byte) /\ video \in Seq(Byte)
      BY DEF TypeOK
    <2>2. PICK count \in 1 .. Len(sending) :
            /\ Len(video) + count <= VideoCapacity
            /\ video' = video \o SubSeq(sending, 1, count)
            /\ sending' = SubSeq(sending, count + 1, Len(sending))
      BY <1>11 DEF SendBytes
    <2>3. SubSeq(sending, 1, count) \in Seq(Byte) /\ Len(SubSeq(sending, 1, count)) = count
      BY <2>1
    <2>4. sending' \in Seq(Byte)
      BY <2>1, <2>2
    <2>5. video' \in Seq(Byte) /\ Len(video') <= VideoCapacity
      <3> DEFINE head == SubSeq(sending, 1, count)
      <3>1. head \in Seq(Byte) /\ Len(head) = count /\ video' = video \o head
        BY <2>2, <2>3
      <3> HIDE DEF head
      <3>2. video' \in Seq(Byte) /\ Len(video') = Len(video) + count
        BY <2>1, <3>1, Joins
      <3> QED
        BY <2>2, <3>2
    <2>6. UNCHANGED <<phase, stop, asleep, sendVars, config, readVars, noPayload,
                      sent, backend>>
      BY <1>11 DEF SendBytes
    <2> QED
      BY <2>4, <2>5, <2>6 DEF TypeOK, sendVars, readVars
  <1> QED
    BY <1>3, <1>4, <1>5, <1>6, <1>7, <1>8, <1>9, <1>10, <1>11, TypeReads
       DEF Next, Run

-----------------------------------------------------------------------------
(* Theorems                                                                *)

\* What read_video_packet has returned is what was sent, seen from a step of
\* the stream.
LEMMA DeliveredInvIsPrefix ==
  ASSUME TypeOK, DeliveredInv
  PROVE  DeliveredAreSent
  <1> DEFINE all == [i \in 1 .. Len(sent) |-> Received(sent[i])]
  <1>1. /\ delivered \in Seq(Packet) /\ sent \in Seq(Packet)
        /\ Len(delivered) \in Nat /\ Len(sent) \in Nat /\ Len(delivered) <= Len(sent)
    BY DEF TypeOK, DeliveredInv
  <1>2. \A i \in 1 .. Len(sent) : Received(sent[i]) \in Packet
    BY <1>1, ReceivedTyped
  <1>3. /\ all \in Seq(Packet) /\ Len(all) = Len(sent)
        /\ \A i \in 1 .. Len(sent) : all[i] = Received(sent[i])
    BY <1>1, <1>2
  <1>4. \A i \in 1 .. Len(delivered) : delivered[i] = all[i]
    BY <1>1, <1>3 DEF DeliveredInv
  <1> HIDE DEF all
  <1>5. SubSeq(delivered, 1, Len(delivered)) = SubSeq(all, 1, Len(delivered))
    BY <1>1, <1>3, <1>4
  <1>6. IsPrefix(delivered, all)
    BY <1>1, <1>3, <1>5 DEF IsPrefix
  <1> QED
    BY <1>6 DEF DeliveredAreSent, all

Inv == TypeOK /\ VideoInv /\ ConfigInv

LEMMA Invariant == Spec => []Inv
  <1>1. Init => Inv
    BY TypeInit, VideoInit, ConfigInit DEF Inv
  <1>2. Inv /\ [Next]_vars => Inv'
    <2> SUFFICES ASSUME Inv, [Next]_vars PROVE Inv'
      OBVIOUS
    <2>1. TypeOK /\ VideoInv /\ ConfigInv
      BY DEF Inv
    <2>2. VideoInv'
      BY <2>1, VideoStep
    <2>3. ConfigInv'
      BY <2>1, ConfigStep
    <2>4. TypeOK'
      BY <2>1, <2>2, TypeStep
    <2> QED
      BY <2>2, <2>3, <2>4 DEF Inv
  <1> QED
    BY <1>1, <1>2, PTL DEF Spec

\* Every variable keeps its type: nothing read_video_packet assembles is longer
\* than kMaximumPacketSize, and the size it counts down never goes below zero.
THEOREM PacketIOTypeCorrect == Spec => []TypeOK
  BY Invariant, PTL DEF Inv

\* Whatever the sizes of the reads and writes, a signal at any point and the end
\* of the backend at any byte, read_video_packet returns packets that were sent,
\* each whole, in order and once.
THEOREM PacketsAreDelivered == Spec => []DeliveredAreSent
  <1>1. Inv => DeliveredAreSent
    BY DeliveredInvIsPrefix DEF Inv, VideoInv
  <1> QED
    BY <1>1, Invariant, PTL

\* The backend reads the configuration packet and the end packet; only a stop
\* request during a configuration longer than its pipe cuts it short.
THEOREM ConfigurationIsFramed == Spec => []ConfigFramed
  <1>1. Inv => ConfigFramed
    BY ConfigInvFramed DEF Inv
  <1> QED
    BY <1>1, Invariant, PTL
=============================================================================
