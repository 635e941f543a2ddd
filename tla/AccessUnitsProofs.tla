-------------------------- MODULE AccessUnitsProofs --------------------------
(***************************************************************************)
(* Theorems about AccessUnits, for every width of the integers, every time *)
(* base and any number of packets: its types, that DTS increase, that they *)
(* are the least that do, and that the units hold every packet once.       *)
(***************************************************************************)
EXTENDS AccessUnits, TLAPS

-----------------------------------------------------------------------------
(* Rounding to ticks                                                       *)

\* What \div means, without \div.
LEMMA Division ==
  ASSUME NEW a \in Nat, NEW b \in Nat \ {0}
  PROVE  /\ a \div b \in Nat
         /\ b * (a \div b) <= a
         /\ a < b * (a \div b) + b
  BY SMT

LEMMA HalfBounds ==
  ASSUME NEW a \in Nat
  PROVE  /\ a \div 2 \in Nat
         /\ 2 * (a \div 2) <= a
         /\ a <= 2 * (a \div 2) + 1
  BY SMT

LEMMA Monotone ==
  ASSUME NEW a \in Int, NEW b \in Int, NEW c \in Nat, a <= b
  PROVE  a * c <= b * c
  BY SMT

\* A rounded time is within half a tick of the time.
LEMMA Rounding ==
  ASSUME NEW time \in Nat
  PROVE  /\ Ticks(time) \in Nat
         /\ NotBefore(Ticks(time), time)
         /\ NotAfter(Ticks(time), time)
  <1> DEFINE half == InputRate \div 2
             a    == time * StreamRate
             t    == Ticks(time)
             b    == t * InputRate
  <1>1. /\ InputRate \in Nat \ {0}
        /\ StreamRate \in Nat
    BY AccessUnitsAssumption
  <1>2. /\ half \in Nat
        /\ 2 * half <= InputRate
        /\ InputRate <= 2 * half + 1
    BY <1>1, HalfBounds
  <1>3. a \in Nat
    BY <1>1
  <1>4. /\ t \in Nat
        /\ InputRate * t <= a + half
        /\ a + half < InputRate * t + InputRate
    <2>1. a + half \in Nat
      BY <1>2, <1>3
    <2>2. t = (a + half) \div InputRate
      BY DEF Ticks
    <2> QED
      BY <1>1, <2>1, <2>2, Division
  <1>5. b \in Int /\ b = InputRate * t
    BY <1>1, <1>4
  <1> HIDE DEF half, a, t, b
  <1>6. 2 * (a - b) <= InputRate /\ 2 * (b - a) <= InputRate
    BY <1>1, <1>2, <1>3, <1>4, <1>5
  <1> QED
    BY <1>4, <1>6 DEF a, b, t, NotBefore, NotAfter

\* A tick is not shorter than a unit of the input.
LEMMA TicksFit ==
  ASSUME NEW time \in Nat
  PROVE  Ticks(time) <= time
  <1> DEFINE t == Ticks(time)
  <1>1. /\ InputRate \in Nat \ {0}
        /\ StreamRate \in Nat /\ StreamRate <= InputRate
    BY AccessUnitsAssumption
  <1>2. t \in Nat /\ 2 * (t * InputRate - time * StreamRate) <= InputRate
    BY Rounding DEF NotAfter
  <1>3. time * StreamRate <= time * InputRate
    BY <1>1, Monotone
  <1>4. SUFFICES ASSUME time + 1 <= t PROVE FALSE
    BY <1>2
  <1> HIDE DEF t
  <1>5. (time + 1) * InputRate <= t * InputRate
    BY <1>1, <1>2, <1>4, Monotone
  <1>6. (time + 1) * InputRate = time * InputRate + InputRate
    BY <1>1
  <1>7. /\ time * InputRate \in Int
        /\ t * InputRate \in Int
        /\ time * StreamRate \in Int
    BY <1>1, <1>2
  <1> QED
    BY <1>1, <1>2, <1>3, <1>5, <1>6, <1>7

LEMMA NotBeforeMonotone ==
  ASSUME NEW time \in Nat, NEW t \in Nat, NEW u \in Nat, t <= u,
         NotBefore(t, time)
  PROVE  NotBefore(u, time)
  <1>1. InputRate \in Nat /\ StreamRate \in Nat
    BY AccessUnitsAssumption
  <1>2. t * InputRate <= u * InputRate
    BY <1>1, Monotone
  <1>3. /\ time * StreamRate \in Int
        /\ t * InputRate \in Int
        /\ u * InputRate \in Int
    BY <1>1
  <1>4. 2 * (time * StreamRate - t * InputRate) <= InputRate
    BY DEF NotBefore
  <1>5. 2 * (time * StreamRate - u * InputRate) <= InputRate
    BY <1>1, <1>2, <1>3, <1>4
  <1> QED
    BY <1>5 DEF NotBefore
-----------------------------------------------------------------------------
(* One file                                                                *)

Increasing(file) ==
  \A i, j \in 1 .. Len(file) : i < j => file[i].dts < file[j].dts

Least(file) ==
  \A i \in 1 .. Len(file) :
    /\ NotBefore(file[i].dts, Elapsed(file, i))
    /\ \E j \in 1 .. i : NotAfter(file[i].dts - (i - j), Elapsed(file, j))

\* The muxer of the open file knows its first timestamp and its last DTS.
MuxerKnows ==
  LET file == segments[Len(segments)]
  IN IF file = <<>> THEN first = None /\ last = None
     ELSE first = file[1].stamp /\ last = file[Len(file)].dts

LEMMA FrameTyped ==
  ASSUME NEW file \in Seq(Frame), NEW i \in 1 .. Len(file)
  PROVE  /\ file[i] \in Frame
         /\ file[i].stamp \in Nat
         /\ file[i].dts \in Nat
         /\ file[1] \in Frame
         /\ file[1].stamp \in Nat
         /\ Elapsed(file, i) \in Nat
  <1>1. 1 \in 1 .. Len(file) /\ file[i] \in Frame /\ file[1] \in Frame
    OBVIOUS
  <1>2. \A f \in Frame : f.stamp \in Nat /\ f.dts \in Nat
    BY AccessUnitsAssumption DEF Frame
  <1>3. file[i].stamp \in Nat /\ file[1].stamp \in Nat
    BY <1>1, <1>2
  <1> QED
    BY <1>1, <1>2, <1>3 DEF Elapsed

LEMMA AppendFrame ==
  ASSUME NEW file \in Seq(Frame), NEW f \in Frame
  PROVE  LET longer == Append(file, f)
         IN /\ longer \in Seq(Frame)
            /\ Len(longer) = Len(file) + 1
            /\ longer[Len(longer)] = f
            /\ \A i \in 1 .. Len(file) :
                 /\ longer[i] = file[i]
                 /\ Elapsed(longer, i) = Elapsed(file, i)
  BY DEF Elapsed

LEMMA IncreasingAppend ==
  ASSUME NEW file \in Seq(Frame), Increasing(file), NEW f \in Frame,
         file # <<>> => file[Len(file)].dts < f.dts
  PROVE  Increasing(Append(file, f))
  <1> DEFINE longer == Append(file, f)
  <1>1. /\ Len(longer) = Len(file) + 1
        /\ longer[Len(longer)] = f
        /\ \A i \in 1 .. Len(file) : longer[i] = file[i]
    BY AppendFrame
  <1>2. \A i \in 1 .. Len(file) : file[i].dts \in Nat
    BY FrameTyped
  <1>3. f.dts \in Nat
    BY AccessUnitsAssumption DEF Frame
  <1> HIDE DEF longer
  <1>4. SUFFICES ASSUME NEW i \in 1 .. Len(longer), NEW j \in 1 .. Len(longer),
                        i < j
                 PROVE  longer[i].dts < longer[j].dts
    BY DEF Increasing, longer
  <1>5. CASE j <= Len(file)
    BY <1>1, <1>4, <1>5 DEF Increasing
  <1>6. CASE j = Len(file) + 1
    <2>1. i \in 1 .. Len(file) /\ file # <<>>
      BY <1>1, <1>4, <1>6
    <2>2. file[i].dts <= file[Len(file)].dts
      BY <1>2, <2>1 DEF Increasing
    <2> QED
      BY <1>1, <1>2, <1>3, <1>6, <2>1, <2>2
  <1> QED
    BY <1>1, <1>4, <1>5, <1>6

\* A frame keeps a file at its least DTS if it has the one nearest to its time,
\* or, that one being taken, the first that is free.
LEMMA LeastAppend ==
  ASSUME NEW file \in Seq(Frame), Least(file), NEW f \in Frame,
         NEW time \in Nat, time = Elapsed(Append(file, f), Len(file) + 1),
         \/ f.dts = Ticks(time)
         \/ /\ file # <<>>
            /\ Ticks(time) <= file[Len(file)].dts
            /\ f.dts = file[Len(file)].dts + 1
  PROVE  Least(Append(file, f))
  <1> DEFINE longer == Append(file, f)
             n      == Len(file) + 1
  <1>1. /\ Len(longer) = n /\ n \in Nat
        /\ longer[n] = f
        /\ \A i \in 1 .. Len(file) :
             longer[i] = file[i] /\ Elapsed(longer, i) = Elapsed(file, i)
    BY AppendFrame
  <1>2. /\ Ticks(time) \in Nat
        /\ NotBefore(Ticks(time), time)
        /\ NotAfter(Ticks(time), time)
    BY Rounding
  <1>3. f.dts \in Nat
    BY AccessUnitsAssumption DEF Frame
  <1>4. time = Elapsed(longer, n)
    OBVIOUS
  <1> HIDE DEF longer
  <1>5. SUFFICES ASSUME NEW i \in 1 .. n
                 PROVE  /\ NotBefore(longer[i].dts, Elapsed(longer, i))
                        /\ \E j \in 1 .. i :
                             NotAfter(longer[i].dts - (i - j), Elapsed(longer, j))
    BY <1>1 DEF Least, longer
  <1>6. CASE i \in 1 .. Len(file)
    <2>1. PICK j \in 1 .. i : NotAfter(file[i].dts - (i - j), Elapsed(file, j))
      BY <1>6 DEF Least
    <2>2. j \in 1 .. Len(file)
      BY <1>6
    <2>3. NotAfter(longer[i].dts - (i - j), Elapsed(longer, j))
      BY <1>1, <1>6, <2>1, <2>2
    <2> QED
      BY <1>1, <1>6, <2>3 DEF Least
  <1>7. CASE i = n /\ f.dts = Ticks(time)
    <2>1. f.dts - (n - n) = Ticks(time)
      BY <1>1, <1>3, <1>7
    <2>2. NotAfter(longer[n].dts - (n - n), Elapsed(longer, n))
      BY <1>1, <1>2, <1>4, <2>1
    <2> QED
      BY <1>1, <1>2, <1>4, <1>7, <2>2
  <1>8. CASE /\ i = n
             /\ file # <<>>
             /\ Ticks(time) <= file[Len(file)].dts
             /\ f.dts = file[Len(file)].dts + 1
    <2> DEFINE m == Len(file)
    <2>1. m \in 1 .. Len(file) /\ n = m + 1 /\ file[m].dts \in Nat
      BY <1>8, FrameTyped
    <2>2. NotBefore(f.dts, time)
      BY <1>2, <1>3, <1>8, <2>1, NotBeforeMonotone
    <2>3. PICK j \in 1 .. m : NotAfter(file[m].dts - (m - j), Elapsed(file, j))
      BY <2>1 DEF Least
    <2>4. f.dts - (n - j) = file[m].dts - (m - j)
      BY <1>8, <2>1, <2>3
    <2>5. NotAfter(longer[n].dts - (n - j), Elapsed(longer, j))
      BY <1>1, <2>1, <2>3, <2>4
    <2> QED
      BY <1>1, <1>4, <1>8, <2>1, <2>2, <2>5
  <1> QED
    BY <1>1, <1>5, <1>6, <1>7, <1>8

-----------------------------------------------------------------------------
(* One frame                                                               *)

LEMMA NormalizedTyped ==
  ASSUME NEW origin \in Nat, NEW stamp \in Nat
  PROVE  Normalized(origin, stamp) \in Nat
  BY DEF Normalized

\* What write_h264_packet computes from the state of its muxer, and that the
\* file with the frame is as sound as it was without.
LEMMA FrameMuxed ==
  ASSUME TypeOK, MuxerKnows, NEW stamp \in Stamps, InRange(stamp),
         NEW unit \in Seq(Nat)
  PROVE  LET file == segments[Len(segments)]
             f    == [unit |-> unit, stamp |-> stamp, dts |-> NewDts(stamp)]
         IN /\ Origin(stamp) \in 0 .. StampMax
            /\ NewDts(stamp) \in 0 .. TickMax
            /\ f \in Frame
            /\ file \in Seq(Frame)
            /\ Append(file, f)[1].stamp = Origin(stamp)
            /\ Increasing(file) => Increasing(Append(file, f))
            /\ Least(file) => Least(Append(file, f))
  <1> DEFINE file == segments[Len(segments)]
             f    == [unit |-> unit, stamp |-> stamp, dts |-> NewDts(stamp)]
             time == Normalized(Origin(stamp), stamp)
             n    == Len(file) + 1
  <1>1. stamp \in 0 .. StampMax /\ stamp \in Nat
    BY AccessUnitsAssumption
  <1>2. file \in Seq(Frame)
    BY DEF TypeOK
  <1>3. /\ file = <<>> => first = None /\ last = None
        /\ file # <<>> => first = file[1].stamp /\ last = file[Len(file)].dts
    BY DEF MuxerKnows
  <1>4. file # <<>> =>
          /\ 1 \in 1 .. Len(file) /\ Len(file) \in 1 .. Len(file)
          /\ file[1].stamp \in 0 .. StampMax
          /\ file[Len(file)].dts \in 0 .. TickMax
    <2>1. \A g \in Frame : g.stamp \in 0 .. StampMax /\ g.dts \in 0 .. TickMax
      BY DEF Frame
    <2>2. file # <<>> =>
            /\ 1 \in 1 .. Len(file) /\ Len(file) \in 1 .. Len(file)
            /\ file[1] \in Frame /\ file[Len(file)] \in Frame
      BY <1>2
    <2> QED
      BY <2>1, <2>2
  <1>5. Origin(stamp) \in 0 .. StampMax /\ Origin(stamp) \in Nat
    BY <1>1, <1>3, <1>4, AccessUnitsAssumption DEF Origin, None
  <1>6. time \in Nat /\ Ticks(time) \in Nat /\ Ticks(time) <= time
    BY <1>1, <1>5, NormalizedTyped, Rounding, TicksFit
  <1>7. time <= TickMax /\ (Ticks(time) <= last => last < TickMax)
    BY DEF InRange
  <1>8. NewDts(stamp) = Adjusted(Ticks(time), last)
    BY DEF NewDts
  <1> HIDE DEF time
  <1>9. last = None \/ last \in 0 .. TickMax
    BY DEF TypeOK
  <1>10. /\ NewDts(stamp) \in 0 .. TickMax
         /\ \/ NewDts(stamp) = Ticks(time) /\ (last # None => last < Ticks(time))
            \/ last # None /\ Ticks(time) <= last /\ NewDts(stamp) = last + 1
    BY <1>6, <1>7, <1>8, <1>9, AccessUnitsAssumption DEF Adjusted, None
  <1>11. f \in Frame /\ f.stamp = stamp /\ f.dts = NewDts(stamp)
    BY <1>1, <1>10 DEF Frame
  <1>12. Append(file, f)[1].stamp = Origin(stamp)
    BY <1>2, <1>3, <1>4, <1>11 DEF Origin, None
  <1>13. ASSUME Increasing(file) PROVE Increasing(Append(file, f))
    <2>1. file # <<>> => file[Len(file)].dts < f.dts
      BY <1>3, <1>4, <1>9, <1>10, <1>11 DEF None
    <2> QED
      BY <1>2, <1>11, <1>13, <2>1, IncreasingAppend
  <1>14. time = Elapsed(Append(file, f), n)
    <2>1. Append(file, f)[n] = f
      BY <1>2
    <2> QED
      BY <1>1, <1>5, <1>11, <1>12, <2>1 DEF Elapsed, Normalized, time
  <1>15. ASSUME Least(file) PROVE Least(Append(file, f))
    <2>1. \/ f.dts = Ticks(time)
          \/ /\ file # <<>>
             /\ Ticks(time) <= file[Len(file)].dts
             /\ f.dts = file[Len(file)].dts + 1
      BY <1>3, <1>10, <1>11
    <2> HIDE DEF f, file
    <2> QED
      BY <1>2, <1>6, <1>11, <1>14, <1>15, <2>1, LeastAppend
  <1> QED
    BY <1>2, <1>5, <1>10, <1>11, <1>12, <1>13, <1>15
-----------------------------------------------------------------------------
(* The invariant                                                           *)

\* While the loop runs, the muxer knows its file; the others matter no more.
Inv ==
  /\ TypeOK
  /\ status = "draining" => MuxerKnows
  /\ \A s \in 1 .. Len(segments) : Increasing(segments[s]) /\ Least(segments[s])

LEMMA EmptyFile ==
  /\ <<>> \in Seq(Frame)
  /\ Increasing(<<>>)
  /\ Least(<<>>)
  BY DEF Increasing, Least

LEMMA InitInv == Init => Inv
  <1> SUFFICES ASSUME Init PROVE Inv
    OBVIOUS
  <1>1. /\ segments \in Seq(Seq(Frame)) /\ Len(segments) = 1
        /\ segments[1] = <<>>
    BY EmptyFile DEF Init
  <1>2. TypeOK
    BY <1>1 DEF Init, TypeOK
  <1>3. MuxerKnows
    BY <1>1 DEF Init, MuxerKnows
  <1> QED
    BY <1>1, <1>2, <1>3, EmptyFile DEF Inv

LEMMA ReceiveTyped ==
  ASSUME TypeOK, NEW class \in Class, Receive(class)
  PROVE  /\ status = "draining"
         /\ packets' \in Seq(Class)
         /\ Number \in Nat
         /\ Append(prefix, Number) \in Seq(Nat)
         /\ Append(raw, Number) \in Seq(Nat)
  BY DEF TypeOK, Receive, Number

\* Replacing the open file by one that is sound.
LEMMA LastReplaced ==
  ASSUME TypeOK, NEW file \in Seq(Frame)
  PROVE  LET n    == Len(segments)
             next == [segments EXCEPT ![n] = file]
         IN /\ n \in 1 .. n
            /\ next \in Seq(Seq(Frame)) /\ next # <<>>
            /\ Len(next) = n
            /\ next[n] = file
            /\ \A s \in 1 .. n : s # n => next[s] = segments[s]
  BY DEF TypeOK

\* The files after a frame.
LEMMA SegmentsMuxed ==
  ASSUME Inv, status = "draining", NEW stamp \in Stamps, InRange(stamp),
         Number \in Nat
  PROVE  LET next == Muxed(stamp)
             n    == Len(next)
         IN /\ next \in Seq(Seq(Frame)) /\ next # <<>> /\ n \in Nat \ {0}
            /\ \A s \in 1 .. n : Increasing(next[s]) /\ Least(next[s])
            /\ next[n] # <<>>
            /\ next[n][1].stamp = Origin(stamp)
            /\ next[n][Len(next[n])].dts = NewDts(stamp)
            /\ Origin(stamp) \in 0 .. StampMax
            /\ NewDts(stamp) \in 0 .. TickMax
  <1> DEFINE file == segments[Len(segments)]
             unit == Append(prefix, Number)
             f    == [unit |-> unit, stamp |-> stamp, dts |-> NewDts(stamp)]
             next == Muxed(stamp)
  <1>1. TypeOK /\ MuxerKnows /\ unit \in Seq(Nat)
    BY DEF Inv, TypeOK
  <1>2. /\ Origin(stamp) \in 0 .. StampMax
        /\ NewDts(stamp) \in 0 .. TickMax
        /\ f \in Frame
        /\ file \in Seq(Frame)
        /\ Append(file, f)[1].stamp = Origin(stamp)
        /\ Increasing(file) => Increasing(Append(file, f))
        /\ Least(file) => Least(Append(file, f))
    <2> HIDE DEF unit
    <2> QED
      BY <1>1, FrameMuxed
  <1>3. next = [segments EXCEPT ![Len(segments)] = Append(file, f)]
    BY DEF Muxed
  <1>4. f.dts = NewDts(stamp)
    OBVIOUS
  <1> HIDE DEF f, next
  <1>5. /\ Append(file, f) \in Seq(Frame)
        /\ Len(Append(file, f)) = Len(file) + 1
        /\ Append(file, f)[Len(file) + 1] = f
        /\ Append(file, f) # <<>>
    <2> HIDE DEF file
    <2> QED
      BY <1>2, AppendFrame
  <1> DEFINE longer == Append(file, f)
  <1>6. /\ Len(segments) \in 1 .. Len(segments)
        /\ next \in Seq(Seq(Frame)) /\ next # <<>>
        /\ Len(next) = Len(segments)
        /\ next[Len(segments)] = longer
        /\ \A s \in 1 .. Len(segments) :
             s # Len(segments) => next[s] = segments[s]
    <2> HIDE DEF file
    <2> QED
      BY <1>1, <1>3, <1>5, LastReplaced
  <1>7. \A s \in 1 .. Len(segments) :
          Increasing(segments[s]) /\ Least(segments[s])
    BY DEF Inv
  <1>8. Increasing(longer) /\ Least(longer)
    BY <1>2, <1>6, <1>7
  <1> HIDE DEF longer, file
  <1>9. Len(longer) = Len(file) + 1 /\ longer[Len(longer)].dts = NewDts(stamp)
    BY <1>4, <1>5 DEF longer
  <1>10. longer # <<>> /\ longer[1].stamp = Origin(stamp)
    BY <1>2, <1>5 DEF longer
  <1>11. \A s \in 1 .. Len(next) : Increasing(next[s]) /\ Least(next[s])
    BY <1>6, <1>7, <1>8
  <1>12. Len(next) \in Nat \ {0}
    BY <1>6
  <1> QED
    BY <1>2, <1>6, <1>9, <1>10, <1>11, <1>12 DEF next

LEMMA EmptyAppended ==
  ASSUME NEW s \in Seq(Seq(Frame))
  PROVE  LET next == Append(s, <<>>)
         IN /\ next \in Seq(Seq(Frame)) /\ next # <<>>
            /\ Len(next) = Len(s) + 1
            /\ next[Len(next)] = <<>>
            /\ \A i \in 1 .. Len(s) : next[i] = s[i]
  BY EmptyFile

\* Only a frame that is written changes the files or what the muxer knows.
LEMMA FilesUntouched ==
  ASSUME Inv, TypeOK', UNCHANGED segments,
         status' = "draining" => status = "draining" /\ UNCHANGED <<first, last>>
  PROVE  Inv'
  BY DEF Inv, MuxerKnows

LEMMA NextInv ==
  ASSUME Inv, [Next]_vars
  PROVE  Inv'
  <1>1. TypeOK
    BY DEF Inv
  <1>2. CASE Skip
    <2>1. TypeOK'
      BY <1>1, <1>2, ReceiveTyped DEF Skip, TypeOK
    <2> QED
      BY <1>2, <2>1, FilesUntouched DEF Skip, Receive
  <1>3. CASE WriteRaw
    <2>1. TypeOK'
      BY <1>1, <1>3, ReceiveTyped DEF WriteRaw, TypeOK
    <2> QED
      BY <1>3, <2>1, FilesUntouched DEF WriteRaw, Receive
  <1>4. CASE WriteRawFails
    <2>1. TypeOK'
      BY <1>1, <1>4, ReceiveTyped DEF WriteRawFails, TypeOK
    <2> QED
      BY <1>4, <2>1, FilesUntouched DEF WriteRawFails, Receive
  <1>5. CASE KeepParameters
    <2>1. "parameters" \in Class
      BY DEF Class
    <2>2. TypeOK'
      BY <1>1, <1>5, <2>1, ReceiveTyped DEF KeepParameters, TypeOK
    <2> QED
      BY <1>5, <2>2, FilesUntouched DEF KeepParameters, Receive
  <1>6. "frame" \in Class
    BY DEF Class
  <1>7. <<>> \in Seq(Nat)
    OBVIOUS
  <1>8. ASSUME NEW stamp \in Stamps, WriteFrame(stamp)
        PROVE  Inv'
    <2>1. /\ status = "draining" /\ packets' \in Seq(Class)
          /\ Number \in Nat /\ InRange(stamp)
      BY <1>1, <1>6, <1>8, ReceiveTyped DEF WriteFrame, Muxable
    <2>2. /\ segments' = Muxed(stamp) /\ prefix' = <<>>
          /\ first' = Origin(stamp) /\ last' = NewDts(stamp)
          /\ UNCHANGED <<mode, status, raw>>
      BY <1>8 DEF WriteFrame
    <2>3. TypeOK'
      BY <1>1, <1>7, <2>1, <2>2, SegmentsMuxed DEF TypeOK
    <2>4. MuxerKnows'
      BY <2>1, <2>2, SegmentsMuxed DEF MuxerKnows
    <2> QED
      BY <2>1, <2>2, <2>3, <2>4, SegmentsMuxed DEF Inv
  <1>9. ASSUME NEW stamp \in Stamps, WriteLastFrame(stamp)
        PROVE  Inv'
    <2>1. /\ status = "draining" /\ packets' \in Seq(Class)
          /\ Number \in Nat /\ InRange(stamp)
      BY <1>1, <1>6, <1>9, ReceiveTyped DEF WriteLastFrame, Muxable
    <2>2. /\ segments' = Append(Muxed(stamp), <<>>) /\ prefix' = <<>>
          /\ first' = None /\ last' = None
          /\ UNCHANGED <<mode, status, raw>>
      BY <1>9 DEF WriteLastFrame
    <2>3. /\ Muxed(stamp) \in Seq(Seq(Frame)) /\ Len(Muxed(stamp)) \in Nat
          /\ \A s \in 1 .. Len(Muxed(stamp)) :
               Increasing(Muxed(stamp)[s]) /\ Least(Muxed(stamp)[s])
      BY <2>1, SegmentsMuxed
    <2>4. /\ segments' \in Seq(Seq(Frame)) /\ segments' # <<>>
          /\ Len(segments') = Len(Muxed(stamp)) + 1
          /\ segments'[Len(segments')] = <<>>
          /\ \A s \in 1 .. Len(Muxed(stamp)) : segments'[s] = Muxed(stamp)[s]
      BY <2>2, <2>3, EmptyAppended
    <2>5. TypeOK'
      BY <1>1, <1>7, <2>1, <2>2, <2>4 DEF TypeOK
    <2>6. MuxerKnows'
      BY <2>2, <2>4 DEF MuxerKnows
    <2>7. \A s \in 1 .. Len(segments') :
            Increasing(segments'[s]) /\ Least(segments'[s])
      <3> SUFFICES ASSUME NEW s \in 1 .. Len(segments')
                   PROVE  Increasing(segments'[s]) /\ Least(segments'[s])
        OBVIOUS
      <3>1. s \in 1 .. Len(Muxed(stamp)) \/ s = Len(segments')
        BY <2>3, <2>4
      <3> QED
        BY <2>3, <2>4, <3>1, EmptyFile
    <2> QED
      BY <2>5, <2>6, <2>7 DEF Inv
  <1>10. ASSUME NEW stamp \in Stamps, WriteFrameFails(stamp)
         PROVE  Inv'
    <2>1. /\ status = "draining" /\ packets' \in Seq(Class)
          /\ Number \in Nat
      BY <1>1, <1>6, <1>10, ReceiveTyped DEF WriteFrameFails
    <2>2. /\ prefix' = <<>> /\ status' = "failed"
          /\ UNCHANGED <<mode, raw, first, last>>
      BY <1>10 DEF WriteFrameFails
    <2>3. CASE UNCHANGED segments
      <3>1. TypeOK'
        BY <1>1, <1>7, <2>1, <2>2, <2>3 DEF TypeOK
      <3> QED
        BY <2>2, <2>3, <3>1, FilesUntouched
    <2>4. CASE Muxable(stamp) /\ segments' = Muxed(stamp)
      <3>1. InRange(stamp)
        BY <2>4 DEF Muxable
      <3>2. TypeOK'
        BY <1>1, <1>7, <2>1, <2>2, <2>4, <3>1, SegmentsMuxed DEF TypeOK
      <3> QED
        BY <2>1, <2>2, <2>4, <3>1, <3>2, SegmentsMuxed DEF Inv
    <2> QED
      BY <1>10, <2>3, <2>4 DEF WriteFrameFails
  <1>11. CASE Finish
    <2>1. TypeOK'
      BY <1>1, <1>11 DEF Finish, TypeOK
    <2> QED
      BY <1>11, <2>1, FilesUntouched DEF Finish
  <1>12. CASE UNCHANGED vars
    <2>1. TypeOK'
      BY <1>1, <1>12 DEF vars, TypeOK
    <2> QED
      BY <1>12, <2>1, FilesUntouched DEF vars
  <1> QED
    BY <1>2, <1>3, <1>4, <1>5, <1>8, <1>9, <1>10, <1>11, <1>12 DEF Next

LEMMA Invariance == Spec => []Inv
  BY InitInv, NextInv, PTL DEF Spec

-----------------------------------------------------------------------------
(* Units                                                                   *)

LEMMA AscendingAppend ==
  ASSUME NEW s \in Seq(Nat), NEW n \in Nat
  PROVE  /\ Range(Append(s, n)) = Range(s) \cup {n}
         /\ Ascending(s) /\ (\A m \in Range(s) : m < n) => Ascending(Append(s, n))
  <1> DEFINE longer == Append(s, n)
  <1>1. /\ Len(longer) = Len(s) + 1 /\ Len(s) \in Nat
        /\ DOMAIN longer = 1 .. Len(longer) /\ DOMAIN s = 1 .. Len(s)
        /\ longer[Len(longer)] = n
        /\ \A i \in 1 .. Len(s) : longer[i] = s[i] /\ s[i] \in Nat
    OBVIOUS
  <1> HIDE DEF longer
  <1>2. Range(longer) = Range(s) \cup {n}
    <2>1. ASSUME NEW m \in Range(longer) PROVE m \in Range(s) \cup {n}
      <3>1. PICK i \in 1 .. Len(longer) : longer[i] = m
        BY <1>1, <2>1 DEF Range
      <3>2. i \in 1 .. Len(s) \/ i = Len(longer)
        BY <1>1
      <3> QED
        BY <1>1, <3>1, <3>2 DEF Range
    <2>2. ASSUME NEW m \in Range(s) PROVE m \in Range(longer)
      <3>1. PICK i \in 1 .. Len(s) : s[i] = m
        BY <1>1, <2>2 DEF Range
      <3>2. i \in 1 .. Len(longer) /\ longer[i] = m
        BY <1>1, <3>1
      <3> QED
        BY <1>1, <3>2 DEF Range
    <2>3. n \in Range(longer)
      <3>1. Len(longer) \in 1 .. Len(longer)
        BY <1>1
      <3> QED
        BY <1>1, <3>1 DEF Range
    <2> QED
      BY <2>1, <2>2, <2>3
  <1>3. ASSUME Ascending(s), \A m \in Range(s) : m < n
        PROVE  Ascending(longer)
    <2> SUFFICES ASSUME NEW i \in 1 .. Len(longer), NEW j \in 1 .. Len(longer),
                        i < j
                 PROVE  longer[i] < longer[j]
      BY DEF Ascending
    <2>1. i \in 1 .. Len(s) /\ s[i] \in Range(s)
      BY <1>1 DEF Range
    <2>2. CASE j \in 1 .. Len(s)
      BY <1>1, <1>3, <2>1, <2>2 DEF Ascending
    <2>3. CASE j = Len(longer)
      BY <1>1, <1>3, <2>1, <2>3
    <2> QED
      BY <1>1, <2>2, <2>3
  <1> QED
    BY <1>2, <1>3 DEF longer

\* The packet that arrives has the greatest number.
LEMMA WantedGrows ==
  ASSUME TypeOK, NEW class \in Class, Receive(class), mode' = mode
  PROVE  /\ Number \in Nat
         /\ \A n \in Wanted : n \in Nat /\ n < Number /\ packets'[n] = packets[n]
         /\ packets'[Number] = class
         /\ Wanted' = IF \/ mode = "raw" /\ class # "other"
                         \/ mode # "raw" /\ class \in {"parameters", "frame"}
                      THEN Wanted \cup {Number} ELSE Wanted
  <1>1. /\ packets \in Seq(Class) /\ packets' = Append(packets, class)
        /\ Number = Len(packets) + 1
    BY DEF TypeOK, Receive, Number
  <1>2. /\ Len(packets) \in Nat
        /\ 1 .. Len(packets') = (1 .. Len(packets)) \cup {Number}
        /\ Number \notin 1 .. Len(packets)
        /\ \A n \in 1 .. Len(packets) : packets'[n] = packets[n]
        /\ packets'[Number] = class
    BY <1>1
  <1>3. /\ Number \in Nat
        /\ \A n \in Wanted : n \in 1 .. Len(packets)
        /\ \A n \in 1 .. Len(packets) : n \in Nat /\ n < Number
    BY <1>1 DEF Wanted
  <1>4. CASE mode = "raw"
    <2>1. /\ Wanted = {n \in 1 .. Len(packets) : packets[n] # "other"}
          /\ Wanted' = {n \in 1 .. Len(packets') : packets'[n] # "other"}
      BY <1>4 DEF Wanted
    <2> QED
      BY <1>2, <1>3, <1>4, <2>1
  <1>5. CASE mode # "raw"
    <2>1. /\ Wanted = {n \in 1 .. Len(packets) :
                         packets[n] \in {"parameters", "frame"}}
          /\ Wanted' = {n \in 1 .. Len(packets') :
                          packets'[n] \in {"parameters", "frame"}}
      BY <1>5 DEF Wanted
    <2> QED
      BY <1>2, <1>3, <1>5, <2>1
  <1> QED
    BY <1>4, <1>5

\* What is known of a unit once it is written.
LEMMA UnitKept ==
  ASSUME NEW unit \in Seq(Nat), UnitFramed(unit), Wanted \subseteq Wanted',
         \A n \in Wanted : packets'[n] = packets[n]
  PROVE  UnitFramed(unit)'
  <1>1. \A k \in 1 .. Len(unit) : unit[k] \in Wanted
    BY DEF UnitFramed, Range
  <1> QED
    BY <1>1 DEF UnitFramed

LEMMA UnitTyped ==
  ASSUME TypeOK, NEW s \in 1 .. Len(segments), NEW i \in 1 .. Len(segments[s])
  PROVE  Unit(s, i) \in Seq(Nat)
  <1>1. segments[s] \in Seq(Frame)
    BY DEF TypeOK
  <1>2. segments[s][i] \in Frame
    BY <1>1
  <1> QED
    BY <1>2 DEF Unit, Frame

\* A packet that is not written, or not wanted, changes nothing that the
\* property says of the files.
LEMMA FilesKept ==
  ASSUME TypeOK, UnitsComplete, mode # "raw", UNCHANGED segments,
         Wanted \subseteq Wanted', \A n \in Wanted : packets'[n] = packets[n]
  PROVE  /\ \A s \in 1 .. Len(segments') : \A i \in 1 .. Len(segments'[s]) :
              UnitFramed(Unit(s, i))'
         /\ UnitsInOrder'
         /\ \A n : InFiles(n)' <=> InFiles(n)
         /\ \A n : InFiles(n) => n \in Wanted
  <1>1. ASSUME NEW s \in 1 .. Len(segments), NEW i \in 1 .. Len(segments[s])
        PROVE  UnitFramed(Unit(s, i))'
    <2>1. UnitFramed(Unit(s, i)) /\ Unit(s, i) \in Seq(Nat)
      BY UnitTyped DEF UnitsComplete
    <2>2. Unit(s, i)' = Unit(s, i)
      BY DEF Unit
    <2> QED
      BY <2>1, <2>2, UnitKept DEF UnitFramed
  <1>2. UnitsInOrder'
    BY DEF UnitsComplete, UnitsInOrder, Unit
  <1>3. \A n : InFiles(n)' <=> InFiles(n)
    BY DEF InFiles, Unit
  <1>4. \A n : InFiles(n) => n \in Wanted
    BY DEF UnitsComplete, UnitFramed, InFiles
  <1> QED
    BY <1>1, <1>2, <1>3, <1>4

\* A packet that is not wanted changes nothing, and neither does the end.
LEMMA UnitsUntouched ==
  ASSUME TypeOK, UnitsComplete, UNCHANGED <<mode, prefix, raw, segments>>,
         Wanted' = Wanted, \A n \in Wanted : packets'[n] = packets[n],
         status' = status \/ status = "draining"
  PROVE  UnitsComplete'
  <1>1. CASE mode = "raw"
    BY <1>1 DEF UnitsComplete
  <1>2. CASE mode # "raw"
    <2>1. PrefixPending'
      BY <1>2, FilesKept DEF UnitsComplete, PrefixPending
    <2>2. \A n \in Wanted' :
            \/ InFiles(n)'
            \/ n \in Range(prefix')
            \/ status' = "failed" /\ \A m \in Wanted' : InFiles(m)' => m < n
      BY <1>2, FilesKept DEF UnitsComplete
    <2> QED
      BY <1>2, <2>1, <2>2, FilesKept DEF UnitsComplete
  <1> QED
    BY <1>1, <1>2

LEMMA RawAppended ==
  ASSUME TypeOK, UnitsComplete, mode = "raw", mode' = mode,
         NEW class \in Class \ {"other"}, Receive(class),
         \/ raw' = Append(raw, Number) /\ status' = status
         \/ raw' = raw /\ status' = "failed"
  PROVE  UnitsComplete'
  <1>1. /\ Number \in Nat
        /\ \A n \in Wanted : n < Number
        /\ Wanted' = Wanted \cup {Number}
    BY WantedGrows
  <1>2. /\ Ascending(raw) /\ Range(raw) \subseteq Wanted
        /\ status = "draining"
        /\ status # "failed" => Wanted \subseteq Range(raw)
    BY DEF UnitsComplete, Receive
  <1>3. CASE raw' = Append(raw, Number)
    <2>1. raw \in Seq(Nat)
      BY DEF TypeOK
    <2>2. Range(raw') = Range(raw) \cup {Number} /\ Ascending(raw')
      BY <1>1, <1>2, <1>3, <2>1, AscendingAppend
    <2> QED
      BY <1>1, <1>2, <2>2 DEF UnitsComplete
  <1>4. CASE raw' = raw /\ status' = "failed"
    BY <1>1, <1>2, <1>4 DEF UnitsComplete
  <1> QED
    BY <1>3, <1>4

LEMMA ParametersKept ==
  ASSUME TypeOK, UnitsComplete, KeepParameters
  PROVE  UnitsComplete'
  <1>1. /\ mode # "raw" /\ Receive("parameters") /\ "parameters" \in Class
        /\ prefix' = Append(prefix, Number)
        /\ UNCHANGED <<mode, status, raw, segments>>
    BY DEF KeepParameters, Class
  <1>2. /\ Number \in Nat
        /\ \A n \in Wanted : n \in Nat /\ n < Number /\ packets'[n] = packets[n]
        /\ packets'[Number] = "parameters"
        /\ Wanted' = Wanted \cup {Number}
    BY <1>1, WantedGrows
  <1>3. /\ UnitsInOrder'
        /\ \A s \in 1 .. Len(segments') : \A i \in 1 .. Len(segments'[s]) :
             UnitFramed(Unit(s, i))'
        /\ \A n : InFiles(n)' <=> InFiles(n)
        /\ \A n : InFiles(n) => n \in Wanted
    BY <1>1, <1>2, FilesKept
  <1>4. PrefixPending /\ \A n \in Range(prefix) : n < Number
    BY <1>1, <1>2 DEF UnitsComplete, PrefixPending
  <1>5. Range(prefix') = Range(prefix) \cup {Number} /\ Ascending(prefix')
    BY <1>1, <1>2, <1>4, AscendingAppend DEF PrefixPending, TypeOK
  <1>6. PrefixPending'
    <2> SUFFICES ASSUME NEW n \in Range(prefix')
                 PROVE  /\ n \in Wanted' /\ packets'[n] = "parameters"
                        /\ \A m \in Wanted' : InFiles(m)' => m < n
      BY <1>5 DEF PrefixPending
    <2>1. CASE n \in Range(prefix)
      BY <1>2, <1>3, <1>4, <2>1 DEF PrefixPending
    <2>2. CASE n = Number
      BY <1>2, <1>3, <2>2
    <2> QED
      BY <1>5, <2>1, <2>2
  <1>7. ASSUME NEW n \in Wanted'
        PROVE  \/ InFiles(n)'
               \/ n \in Range(prefix')
               \/ status' = "failed" /\ \A m \in Wanted' : InFiles(m)' => m < n
    BY <1>1, <1>2, <1>3, <1>5 DEF UnitsComplete, Receive
  <1> QED
    BY <1>1, <1>3, <1>6, <1>7 DEF UnitsComplete

\* The files with one more unit at the end of the last one, and perhaps with
\* an empty file after it.
UnitAdded(next, unit) ==
  LET n == Len(segments)
      m == Len(segments[n]) + 1
  IN /\ \A s \in 1 .. Len(segments) :
          /\ s \in 1 .. Len(next)
          /\ \A i \in 1 .. Len(segments[s]) :
               i \in 1 .. Len(next[s]) /\ next[s][i].unit = Unit(s, i)
     /\ n \in 1 .. Len(next) /\ m \in 1 .. Len(next[n]) /\ next[n][m].unit = unit
     /\ \A s \in 1 .. Len(next) : \A i \in 1 .. Len(next[s]) :
          \/ s = n /\ i = m
          \/ /\ s \in 1 .. n /\ i \in 1 .. Len(segments[s])
             /\ ~(n < s \/ (n = s /\ m < i))

LEMMA MuxedAdds ==
  ASSUME TypeOK, NEW stamp, NEW f \in Frame,
         f = [unit |-> Append(prefix, Number), stamp |-> stamp,
              dts |-> NewDts(stamp)]
  PROVE  /\ UnitAdded(Muxed(stamp), Append(prefix, Number))
         /\ UnitAdded(Append(Muxed(stamp), <<>>), Append(prefix, Number))
  <1> DEFINE n    == Len(segments)
             file == segments[n]
             m    == Len(file) + 1
             next == Muxed(stamp)
             more == Append(next, <<>>)
             unit == Append(prefix, Number)
  <1>1. /\ segments \in Seq(Seq(Frame)) /\ n \in 1 .. n /\ n \in Nat
        /\ file \in Seq(Frame) /\ Len(file) \in Nat
    BY DEF TypeOK
  <1>2. next = [segments EXCEPT ![n] = Append(file, f)]
    BY DEF Muxed
  <1>3. /\ Append(file, f) \in Seq(Frame) /\ Len(Append(file, f)) = m
        /\ Append(file, f)[m] = f
        /\ \A i \in 1 .. Len(file) : Append(file, f)[i] = file[i]
    BY <1>1
  <1>4. f.unit = unit
    OBVIOUS
  <1> HIDE DEF next, file, unit
  <1>5. /\ next \in Seq(Seq(Frame)) /\ Len(next) = n
        /\ next[n] = Append(file, f)
        /\ \A s \in 1 .. n : s # n => next[s] = segments[s]
    BY <1>2, <1>3, LastReplaced
  <1>6. UnitAdded(next, unit)
    <2>1. ASSUME NEW s \in 1 .. n
          PROVE  /\ s \in 1 .. Len(next)
                 /\ \A i \in 1 .. Len(segments[s]) :
                      i \in 1 .. Len(next[s]) /\ next[s][i].unit = Unit(s, i)
      <3>1. CASE s = n
        <4>1. segments[s] = file /\ next[s] = Append(file, f)
          BY <1>5, <3>1 DEF file
        <4>2. \A i \in 1 .. Len(file) : i \in 1 .. m
          BY <1>1
        <4> QED
          BY <1>3, <1>5, <4>1, <4>2, <3>1 DEF Unit
      <3>2. CASE s # n
        BY <1>5, <3>2 DEF Unit
      <3> QED
        BY <3>1, <3>2
    <2>2. n \in 1 .. Len(next) /\ m \in 1 .. Len(next[n]) /\ next[n][m].unit = unit
      BY <1>1, <1>3, <1>4, <1>5
    <2>3. ASSUME NEW s \in 1 .. Len(next), NEW i \in 1 .. Len(next[s])
          PROVE  \/ s = n /\ i = m
                 \/ /\ s \in 1 .. n /\ i \in 1 .. Len(segments[s])
                    /\ ~(n < s \/ (n = s /\ m < i))
      <3>1. s \in 1 .. n
        BY <1>5
      <3>2. CASE s = n
        BY <1>1, <1>3, <1>5, <3>2 DEF file
      <3>3. CASE s # n
        BY <1>1, <1>5, <3>1, <3>3
      <3> QED
        BY <3>2, <3>3
    <2> QED
      BY <2>1, <2>2, <2>3 DEF UnitAdded, file
  <1>7. /\ Len(more) = n + 1 /\ more[n + 1] = <<>>
        /\ \A s \in 1 .. n : more[s] = next[s]
    BY <1>1, <1>5
  <1> HIDE DEF more
  <1>8. UnitAdded(more, unit)
    <2>1. 1 .. Len(more) = (1 .. n) \cup {n + 1} /\ 1 .. Len(next) = 1 .. n
      BY <1>1, <1>5, <1>7
    <2>2. \A i : i \notin 1 .. Len(<<>>)
      OBVIOUS
    <2>3. \A s \in 1 .. Len(next) : s \in 1 .. Len(more) /\ more[s] = next[s]
      BY <1>7, <2>1
    <2>4. \A s \in 1 .. Len(more) :
            \/ s \in 1 .. Len(next) /\ more[s] = next[s]
            \/ 1 .. Len(more[s]) = {}
      BY <1>7, <2>1, <2>2
    <2> HIDE DEF n, m
    <2> QED
      BY <1>6, <2>3, <2>4 DEF UnitAdded
  <1> QED
    BY <1>6, <1>8 DEF next, more, unit

\* A frame that fails is lost with the parameter sets before it: nothing later
\* is written.
LEMMA FrameLost ==
  ASSUME TypeOK, UnitsComplete, mode # "raw", Receive("frame"),
         UNCHANGED <<mode, raw, segments>>, prefix' = <<>>, status' = "failed"
  PROVE  UnitsComplete'
  <1>1. "frame" \in Class /\ status = "draining"
    BY DEF Class, Receive
  <1>2. /\ Number \in Nat
        /\ \A n \in Wanted : n \in Nat /\ n < Number /\ packets'[n] = packets[n]
        /\ Wanted' = Wanted \cup {Number}
    BY <1>1, WantedGrows
  <1>3. /\ UnitsInOrder'
        /\ \A s \in 1 .. Len(segments') : \A i \in 1 .. Len(segments'[s]) :
             UnitFramed(Unit(s, i))'
        /\ \A n : InFiles(n)' <=> InFiles(n)
        /\ \A n : InFiles(n) => n \in Wanted
    BY <1>2, FilesKept
  <1>4. PrefixPending'
    BY DEF PrefixPending, Ascending, Range
  <1>5. ASSUME NEW n \in Wanted'
        PROVE  InFiles(n)' \/ \A m \in Wanted' : InFiles(m)' => m < n
    <2>1. CASE n \in Range(prefix)
      BY <1>2, <1>3, <2>1 DEF UnitsComplete, PrefixPending
    <2>2. CASE n = Number
      BY <1>2, <1>3, <2>2
    <2> QED
      BY <1>1, <1>2, <1>3, <2>1, <2>2 DEF UnitsComplete
  <1> QED
    BY <1>3, <1>4, <1>5 DEF UnitsComplete

LEMMA FrameAdded ==
  ASSUME TypeOK, UnitsComplete, mode # "raw", Receive("frame"),
         UNCHANGED <<mode, raw>>, prefix' = <<>>,
         NEW unit, unit = Append(prefix, Number), UnitAdded(segments', unit),
         NEW n, n = Len(segments), NEW m, m = Len(segments[n]) + 1
  PROVE  UnitsComplete'
  <1>1. "frame" \in Class /\ status = "draining" /\ prefix \in Seq(Nat)
    BY DEF Class, Receive, TypeOK
  <1>2. /\ Number \in Nat
        /\ \A k \in Wanted : k \in Nat /\ k < Number /\ packets'[k] = packets[k]
        /\ packets'[Number] = "frame"
        /\ Wanted' = Wanted \cup {Number}
    BY <1>1, WantedGrows
  <1>3. /\ PrefixPending
        /\ \A k \in Range(prefix) : k \in Wanted /\ packets[k] = "parameters"
    BY DEF UnitsComplete, PrefixPending
  <1>4. Range(unit) = Range(prefix) \cup {Number} /\ Ascending(unit)
    BY <1>1, <1>2, <1>3, AscendingAppend DEF PrefixPending
  <1>5. UnitFramed(unit)'
    <2>1. unit # <<>> /\ Range(unit) \subseteq Wanted'
      BY <1>1, <1>2, <1>3, <1>4
    <2>2. ASSUME NEW k \in 1 .. Len(unit)
          PROVE  packets'[unit[k]] = "frame" <=> k = Len(unit)
      <3>1. CASE k = Len(unit)
        <4>1. unit[k] = Number
          BY <1>1, <3>1
        <4> QED
          BY <1>2, <3>1, <4>1
      <3>2. CASE k # Len(unit)
        <4>1. k \in DOMAIN prefix /\ unit[k] = prefix[k]
          BY <1>1, <3>2
        <4>2. unit[k] \in Range(prefix)
          BY <4>1 DEF Range
        <4> QED
          BY <1>2, <1>3, <3>2, <4>2
      <3> QED
        BY <3>1, <3>2
    <2> QED
      BY <1>4, <2>1, <2>2 DEF UnitFramed, Ascending
  <1>6. /\ \A s \in 1 .. Len(segments) :
             /\ s \in 1 .. Len(segments')
             /\ \A i \in 1 .. Len(segments[s]) :
                  i \in 1 .. Len(segments'[s]) /\ Unit(s, i)' = Unit(s, i)
        /\ n \in 1 .. Len(segments') /\ m \in 1 .. Len(segments'[n])
        /\ Unit(n, m)' = unit
        /\ \A s \in 1 .. Len(segments') : \A i \in 1 .. Len(segments'[s]) :
             \/ s = n /\ i = m
             \/ /\ s \in 1 .. Len(segments) /\ i \in 1 .. Len(segments[s])
                /\ ~(n < s \/ (n = s /\ m < i))
    BY DEF UnitAdded, Unit
  <1>7. \A k : InFiles(k) => k \in Wanted
    BY DEF UnitsComplete, UnitFramed, InFiles
  <1>8. \A k : InFiles(k)' <=> InFiles(k) \/ k \in Range(unit)
    <2>1. ASSUME NEW k, InFiles(k) PROVE InFiles(k)'
      <3>1. PICK s \in 1 .. Len(segments) :
              \E i \in 1 .. Len(segments[s]) : k \in Range(Unit(s, i))
        BY <2>1 DEF InFiles
      <3>2. PICK i \in 1 .. Len(segments[s]) : k \in Range(Unit(s, i))
        BY <3>1
      <3>3. /\ s \in 1 .. Len(segments') /\ i \in 1 .. Len(segments'[s])
            /\ k \in Range(Unit(s, i)')
        BY <1>6, <3>2
      <3> QED
        BY <3>3 DEF InFiles
    <2>2. ASSUME NEW k \in Range(unit) PROVE InFiles(k)'
      BY <1>6 DEF InFiles
    <2>3. ASSUME NEW k, InFiles(k)', k \notin Range(unit) PROVE InFiles(k)
      <3>1. PICK s \in 1 .. Len(segments') :
              \E i \in 1 .. Len(segments'[s]) : k \in Range(Unit(s, i)')
        BY <2>3 DEF InFiles
      <3>2. PICK i \in 1 .. Len(segments'[s]) : k \in Range(Unit(s, i)')
        BY <3>1
      <3>3. s \in 1 .. Len(segments) /\ i \in 1 .. Len(segments[s])
        BY <1>6, <2>3, <3>2
      <3> QED
        BY <1>6, <3>2, <3>3 DEF InFiles
    <2> QED
      BY <2>1, <2>2, <2>3
  <1>9. ASSUME NEW s \in 1 .. Len(segments'), NEW i \in 1 .. Len(segments'[s])
        PROVE  UnitFramed(Unit(s, i))'
    <2>1. CASE s = n /\ i = m
      BY <1>5, <1>6, <2>1 DEF UnitFramed
    <2>2. CASE s \in 1 .. Len(segments) /\ i \in 1 .. Len(segments[s])
      <3>1. UnitFramed(Unit(s, i)) /\ Unit(s, i) \in Seq(Nat)
        BY <2>2, UnitTyped DEF UnitsComplete
      <3>2. Unit(s, i)' = Unit(s, i)
        BY <1>6, <2>2
      <3> QED
        BY <1>2, <3>1, <3>2, UnitKept DEF UnitFramed
    <2> QED
      BY <1>6, <2>1, <2>2
  <1>10. \A k \in Range(unit) : \A l : InFiles(l) => l < k
    BY <1>2, <1>3, <1>4, <1>7 DEF PrefixPending
  <1>11. UnitsInOrder'
    <2> SUFFICES ASSUME NEW s \in 1 .. Len(segments'), NEW t \in 1 .. Len(segments'),
                        NEW i \in 1 .. Len(segments'[s]),
                        NEW j \in 1 .. Len(segments'[t]),
                        s < t \/ (s = t /\ i < j),
                        NEW k \in Range(Unit(s, i)'), NEW l \in Range(Unit(t, j)')
                 PROVE  k < l
      BY DEF UnitsInOrder
    <2>1. s \in 1 .. Len(segments) /\ i \in 1 .. Len(segments[s])
      <3>1. SUFFICES ASSUME s = n /\ i = m PROVE FALSE
        BY <1>6
      <3>2. t # n \/ j # m
        BY <3>1
      <3>3. n < t \/ (n = t /\ m < j)
        BY <3>1
      <3> QED
        BY <1>6, <3>2, <3>3
    <2>2. Unit(s, i)' = Unit(s, i) /\ InFiles(k)
      BY <1>6, <2>1 DEF InFiles
    <2>3. CASE t = n /\ j = m
      BY <1>6, <1>10, <2>2, <2>3
    <2>4. CASE t \in 1 .. Len(segments) /\ j \in 1 .. Len(segments[t])
      <3>1. Unit(t, j)' = Unit(t, j) /\ UnitsInOrder
        BY <1>6, <2>4 DEF UnitsComplete
      <3> QED
        BY <2>1, <2>2, <2>4, <3>1 DEF UnitsInOrder
    <2> QED
      BY <1>6, <2>3, <2>4
  <1>12. PrefixPending'
    BY DEF PrefixPending, Ascending, Range
  <1>13. ASSUME NEW k \in Wanted' PROVE InFiles(k)'
    BY <1>1, <1>2, <1>4, <1>8 DEF UnitsComplete
  <1> QED
    BY <1>9, <1>11, <1>12, <1>13 DEF UnitsComplete

LEMMA UnitsInit == Init => UnitsComplete
  <1> SUFFICES ASSUME Init PROVE UnitsComplete
    OBVIOUS
  <1>1. /\ Len(segments) = 1 /\ segments[1] = <<>> /\ Len(<<>>) = 0
        /\ raw = <<>> /\ prefix = <<>> /\ Range(<<>>) = {}
    BY DEF Init, Range
  <1>2. Wanted = {}
    BY DEF Init, Wanted
  <1>3. PrefixPending /\ Ascending(raw)
    BY <1>1 DEF PrefixPending, Ascending
  <1>4. \A s \in 1 .. Len(segments) : 1 .. Len(segments[s]) = {}
    BY <1>1
  <1> QED
    BY <1>1, <1>2, <1>3, <1>4 DEF UnitsComplete, UnitsInOrder

LEMMA UnitsNext ==
  ASSUME Inv, UnitsComplete, [Next]_vars
  PROVE  UnitsComplete'
  <1>1. TypeOK
    BY DEF Inv
  <1>2. CASE Skip
    <2>1. PICK class \in Class :
            /\ Receive(class)
            /\ IF mode = "raw" THEN class = "other"
               ELSE class \in {"other", "unstamped", "foreign"}
      BY <1>2 DEF Skip
    <2>2. UNCHANGED <<mode, status, prefix, raw, segments>>
      BY <1>2 DEF Skip
    <2>3. Wanted' = Wanted /\ \A n \in Wanted : packets'[n] = packets[n]
      BY <1>1, <2>1, <2>2, WantedGrows
    <2> QED
      BY <1>1, <2>2, <2>3, UnitsUntouched
  <1>3. CASE WriteRaw
    BY <1>1, <1>3, RawAppended DEF WriteRaw
  <1>4. CASE WriteRawFails
    BY <1>1, <1>4, RawAppended DEF WriteRawFails
  <1>5. CASE KeepParameters
    BY <1>1, <1>5, ParametersKept
  <1>6. ASSUME NEW stamp \in Stamps, Receive("frame"), Muxable(stamp), mode # "raw",
               UNCHANGED <<mode, raw>>, prefix' = <<>>,
               segments' = Muxed(stamp) \/ segments' = Append(Muxed(stamp), <<>>)
        PROVE  UnitsComplete'
    <2> DEFINE unit == Append(prefix, Number)
    <2>1. /\ InRange(stamp) /\ status = "draining" /\ MuxerKnows
          /\ unit \in Seq(Nat)
      <3>1. "frame" \in Class
        BY DEF Class
      <3> QED
        BY <1>1, <1>6, <3>1, ReceiveTyped DEF Muxable, Receive, Inv
    <2> HIDE DEF unit
    <2>2. [unit |-> unit, stamp |-> stamp, dts |-> NewDts(stamp)] \in Frame
      BY <1>1, <2>1, FrameMuxed
    <2>3. UnitAdded(segments', Append(prefix, Number))
      BY <1>1, <1>6, <2>2, MuxedAdds DEF unit
    <2> QED
      BY <1>1, <1>6, <2>3, FrameAdded
  <1>7. ASSUME NEW stamp \in Stamps, WriteFrame(stamp)
        PROVE  UnitsComplete'
    BY <1>6, <1>7 DEF WriteFrame
  <1>8. ASSUME NEW stamp \in Stamps, WriteLastFrame(stamp)
        PROVE  UnitsComplete'
    BY <1>6, <1>8 DEF WriteLastFrame
  <1>9. ASSUME NEW stamp \in Stamps, WriteFrameFails(stamp)
        PROVE  UnitsComplete'
    <2>1. CASE UNCHANGED segments
      BY <1>1, <1>9, <2>1, FrameLost DEF WriteFrameFails
    <2>2. CASE Muxable(stamp) /\ segments' = Muxed(stamp)
      BY <1>6, <1>9, <2>2 DEF WriteFrameFails
    <2> QED
      BY <1>9, <2>1, <2>2 DEF WriteFrameFails
  <1>10. CASE Finish
    <2>1. Wanted' = Wanted
      BY <1>10 DEF Finish, Wanted
    <2> QED
      BY <1>1, <1>10, <2>1, UnitsUntouched DEF Finish
  <1>11. CASE UNCHANGED vars
    <2>1. Wanted' = Wanted
      BY <1>11 DEF vars, Wanted
    <2> QED
      BY <1>1, <1>11, <2>1, UnitsUntouched DEF vars
  <1> QED
    BY <1>2, <1>3, <1>4, <1>5, <1>7, <1>8, <1>9, <1>10, <1>11 DEF Next

-----------------------------------------------------------------------------
(* Theorems                                                                *)

\* Every variable keeps its type: in particular a DTS is a number between 0
\* and the largest int64, whatever the camera gives as timestamps.
THEOREM UnitsTypeCorrect == Spec => []TypeOK
  <1>1. Inv => TypeOK
    BY DEF Inv
  <1> QED
    BY <1>1, Invariance, PTL

\* In every file the DTS of the frames increase strictly.
THEOREM TimesIncrease == Spec => []DtsIncreasing
  <1>1. Inv => DtsIncreasing
    BY DEF Inv, Increasing, DtsIncreasing
  <1> QED
    BY <1>1, Invariance, PTL

\* And no strictly increasing DTS that are not before the camera's times, up to
\* half a tick, are smaller.
THEOREM TimesLeast == Spec => []DtsLeast
  <1>1. Inv => DtsLeast
    BY DEF Inv, Least, DtsLeast
  <1> QED
    BY <1>1, Invariance, PTL

\* The files hold every parameter set and frame once and in order, in units
\* that end with their only frame, whatever is skipped in between and wherever
\* a segment ends; the raw file holds every payload.
THEOREM UnitsAreComplete == Spec => []UnitsComplete
  <1>1. Inv /\ UnitsComplete /\ [Next]_vars => UnitsComplete'
    BY UnitsNext
  <1> QED
    BY <1>1, UnitsInit, Invariance, PTL DEF Spec
=============================================================================
