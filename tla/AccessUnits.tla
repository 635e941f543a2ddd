---------------------------- MODULE AccessUnits ----------------------------
(***************************************************************************)
(* What drain_video_pipe does with the packets of the camera (app.cpp):    *)
(* which it writes, which it keeps for the next frame and which it passes  *)
(* over; and the timestamps TsMuxerFFmpeg::write_h264_packet gives to the  *)
(* access units of a file, across the segments of managed storage.         *)
(*                                                                         *)
(* A packet is its number in the stream and what the H264 inspector says   *)
(* of it.  A uint64 is a member of 0 .. StampMax and an int64 that is not  *)
(* negative one of 0 .. TickMax.                                           *)
(***************************************************************************)
EXTENDS Integers, Sequences, SequencesExt

CONSTANTS
  StampMax,   \* the largest uint64
  TickMax,    \* the largest int64
  InputRate,  \* input_time_base, in units per second
  StreamRate, \* the time base of the MPEG-TS stream, in ticks per second
  UnitMax,    \* packets whose joined size is still an int
  Stamps,     \* timestamps the camera may give
  MaxPackets  \* packets of one run: a bound of the model

ASSUME AccessUnitsAssumption ==
  /\ StampMax \in Nat
  /\ TickMax \in Nat
  /\ InputRate \in Nat \ {0}
  /\ StreamRate \in 1 .. InputRate
  /\ UnitMax \in Nat
  /\ Stamps \subseteq 0 .. StampMax
  /\ MaxPackets \in Nat

VARIABLES
  mode,     \* "raw", "mpegts" or "storage"
  status,   \* "draining", or how the loop ended
  packets,  \* the class of every packet so far
  prefix,   \* pending_h264_prefix: the numbers of its packets
  raw,      \* the raw file: the numbers of its packets
  segments, \* the MPEG-TS files, as sequences of frames
  first,    \* first_timestamp of the open muxer
  last      \* last_dts of the open muxer

vars == <<mode, status, packets, prefix, raw, segments, first, last>>

None == -1  \* no value: have_first_timestamp is false, AV_NOPTS_VALUE

\* "other": a kind the loop passes over, or no payload.  "unstamped": without a
\* timestamp.  "foreign": without a start code.  "parameters": no video frame.
Class == {"other", "unstamped", "foreign", "parameters", "frame"}

Frame == [unit : Seq(Nat), stamp : 0 .. StampMax, dts : 0 .. TickMax]

Init ==
  /\ mode \in {"raw", "mpegts", "storage"}
  /\ status = "draining"
  /\ packets = <<>> /\ prefix = <<>> /\ raw = <<>>
  /\ segments = <<<<>>>>
  /\ first = None /\ last = None

-----------------------------------------------------------------------------
(* Timestamps                                                              *)

\* av_rescale_q: to the nearest tick.
Ticks(time) == (time * StreamRate + InputRate \div 2) \div InputRate

\* The time since the first frame of the file; zero for a frame before it.
Normalized(origin, stamp) == IF stamp < origin THEN 0 ELSE stamp - origin

Adjusted_AllowEqual(ticks, previous) ==
  IF previous # None /\ ticks < previous THEN previous + 1 ELSE ticks

\* The DTS of a frame after one with DTS previous.
Adjusted(ticks, previous) ==
  IF previous # None /\ ticks <= previous THEN previous + 1 ELSE ticks

Origin(stamp) == IF first = None THEN stamp ELSE first

NewDts(stamp) == Adjusted(Ticks(Normalized(Origin(stamp), stamp)), last)

InRange_NoLimit(stamp) == Normalized(Origin(stamp), stamp) <= TickMax

\* The time fits into an int64, and so does the DTS.
InRange(stamp) ==
  /\ Normalized(Origin(stamp), stamp) <= TickMax
  /\ Ticks(Normalized(Origin(stamp), stamp)) <= last => last < TickMax

-----------------------------------------------------------------------------
(* The loop                                                                *)

Number == Len(packets) + 1

Receive(class) ==
  /\ status = "draining"
  /\ Len(packets) < MaxPackets
  /\ packets' = Append(packets, class)

Skip ==
  /\ \E class \in Class :
       /\ Receive(class)
       /\ IF mode = "raw" THEN class = "other"
          ELSE class \in {"other", "unstamped", "foreign"}
  /\ UNCHANGED <<mode, status, prefix, raw, segments, first, last>>

WriteRaw ==
  /\ mode = "raw"
  /\ \E class \in Class \ {"other"} : Receive(class)
  /\ raw' = Append(raw, Number)
  /\ UNCHANGED <<mode, status, prefix, segments, first, last>>

WriteRawFails ==
  /\ mode = "raw"
  /\ \E class \in Class \ {"other"} : Receive(class)
  /\ status' = "failed"
  /\ UNCHANGED <<mode, prefix, raw, segments, first, last>>

KeepParameters_Replace ==
  /\ mode # "raw"
  /\ Receive("parameters")
  /\ prefix' = <<Number>>
  /\ UNCHANGED <<mode, status, raw, segments, first, last>>

KeepParameters ==
  /\ mode # "raw"
  /\ Receive("parameters")
  /\ prefix' = Append(prefix, Number)
  /\ UNCHANGED <<mode, status, raw, segments, first, last>>

\* The frame with its parameter sets, once muxed.
Muxed(stamp) ==
  [segments EXCEPT ![Len(segments)] =
     Append(@, [unit |-> Append(prefix, Number), stamp |-> stamp,
                dts |-> NewDts(stamp)])]

Muxable(stamp) == Len(prefix) + 1 <= UnitMax /\ InRange(stamp)

WriteFrame(stamp) ==
  /\ mode # "raw"
  /\ Receive("frame")
  /\ Muxable(stamp)
  /\ prefix' = <<>>
  /\ segments' = Muxed(stamp)
  /\ first' = Origin(stamp)
  /\ last' = NewDts(stamp)
  /\ UNCHANGED <<mode, status, raw>>

WriteLastFrame_KeepTimes(stamp) ==
  /\ mode = "storage"
  /\ Receive("frame")
  /\ Muxable(stamp)
  /\ prefix' = <<>>
  /\ segments' = Append(Muxed(stamp), <<>>)
  /\ first' = Origin(stamp)
  /\ last' = NewDts(stamp)
  /\ UNCHANGED <<mode, status, raw>>

\* The frame fills its segment: the muxer is closed and opened on the next one.
WriteLastFrame(stamp) ==
  /\ mode = "storage"
  /\ Receive("frame")
  /\ Muxable(stamp)
  /\ prefix' = <<>>
  /\ segments' = Append(Muxed(stamp), <<>>)
  /\ first' = None /\ last' = None
  /\ UNCHANGED <<mode, status, raw>>

\* The muxer refuses the frame or FFmpeg fails; or, the frame being written,
\* the next segment cannot be opened.  No frame follows, so first and last no
\* longer matter.
WriteFrameFails(stamp) ==
  /\ mode # "raw"
  /\ Receive("frame")
  /\ \/ UNCHANGED segments
     \/ mode = "storage" /\ Muxable(stamp) /\ segments' = Muxed(stamp)
  /\ prefix' = <<>>
  /\ status' = "failed"
  /\ UNCHANGED <<mode, raw, first, last>>

\* A stop, an error of the backend or the end of the pipe.
Finish ==
  /\ status = "draining"
  /\ status' = "ended"
  /\ UNCHANGED <<mode, packets, prefix, raw, segments, first, last>>

Next ==
  \/ Skip
  \/ WriteRaw
  \/ WriteRawFails
  \/ KeepParameters
  \/ \E stamp \in Stamps :
       \/ WriteFrame(stamp)
       \/ WriteLastFrame(stamp)
       \/ WriteFrameFails(stamp)
  \/ Finish

Spec == Init /\ [][Next]_vars

-----------------------------------------------------------------------------
(* Properties                                                              *)

TypeOK ==
  /\ mode \in {"raw", "mpegts", "storage"}
  /\ status \in {"draining", "failed", "ended"}
  /\ packets \in Seq(Class)
  /\ prefix \in Seq(Nat)
  /\ raw \in Seq(Nat)
  /\ segments \in Seq(Seq(Frame)) /\ segments # <<>>
  /\ first \in 0 .. StampMax \cup {None}
  /\ last \in 0 .. TickMax \cup {None}

\* README "the later timestamp is advanced by one tick to keep DTS strictly
\* increasing": in every file, whatever timestamps repeat, go back or share a
\* tick.
DtsIncreasing ==
  \A s \in 1 .. Len(segments) :
    \A i, j \in 1 .. Len(segments[s]) :
      i < j => segments[s][i].dts < segments[s][j].dts

\* The camera's time since the first frame of the file.
Elapsed(file, i) ==
  IF file[i].stamp > file[1].stamp THEN file[i].stamp - file[1].stamp ELSE 0

NotBefore(ticks, time) == 2 * (time * StreamRate - ticks * InputRate) <= InputRate
NotAfter(ticks, time)  == 2 * (ticks * InputRate - time * StreamRate) <= InputRate

\* README "normalized at the first frame" and "variable frame rate timing is
\* preserved as supplied by the camera": up to half a tick, the DTS of a file
\* are the least strictly increasing ones that are not before the camera's
\* times since its first frame.  A frame is late only by the ticks that the
\* frames since the one it had to make way for take.
DtsLeast ==
  \A s \in 1 .. Len(segments) :
    LET file == segments[s]
    IN \A i \in 1 .. Len(file) :
         /\ NotBefore(file[i].dts, Elapsed(file, i))
         /\ \E j \in 1 .. i : NotAfter(file[i].dts - (i - j), Elapsed(file, j))

\* The numbers of the packets that belong into the output.
Wanted ==
  {n \in 1 .. Len(packets) :
     IF mode = "raw" THEN packets[n] # "other"
     ELSE packets[n] \in {"parameters", "frame"}}

Ascending(numbers) ==
  \A i, j \in 1 .. Len(numbers) : i < j => numbers[i] < numbers[j]

Unit(s, i) == segments[s][i].unit

InFiles(n) ==
  \E s \in 1 .. Len(segments) : \E i \in 1 .. Len(segments[s]) :
    n \in Range(Unit(s, i))

\* Parameter sets and, at the end, a frame.
UnitFramed(unit) ==
  /\ unit # <<>> /\ Ascending(unit)
  /\ Range(unit) \subseteq Wanted
  /\ \A k \in 1 .. Len(unit) : packets[unit[k]] = "frame" <=> k = Len(unit)

\* No unit of a file begins before an earlier one has ended.
UnitsInOrder ==
  \A s, t \in 1 .. Len(segments) :
    \A i \in 1 .. Len(segments[s]), j \in 1 .. Len(segments[t]) :
      s < t \/ (s = t /\ i < j) =>
        \A m \in Range(Unit(s, i)), n \in Range(Unit(t, j)) : m < n

\* Parameter sets that no frame has followed yet.
PrefixPending ==
  /\ Ascending(prefix)
  /\ \A n \in Range(prefix) :
       /\ n \in Wanted /\ packets[n] = "parameters"
       /\ \A m \in Wanted : InFiles(m) => m < n

\* README "Separate SPS/PPS encoder output is joined to its following video
\* frame": the files taken together hold every parameter set and frame once
\* and in order, across skipped packets and rotations, in units that end with
\* their only frame; parameter sets that no frame has followed yet are kept,
\* and a failure loses nothing that came before what is in the files.  The raw
\* file has every payload, those that MPEG-TS output skips too.
UnitsComplete ==
  IF mode = "raw"
    THEN /\ Ascending(raw)
         /\ Range(raw) \subseteq Wanted
         /\ status # "failed" => Wanted \subseteq Range(raw)
    ELSE /\ \A s \in 1 .. Len(segments) : \A i \in 1 .. Len(segments[s]) :
              UnitFramed(Unit(s, i))
         /\ UnitsInOrder
         /\ PrefixPending
         /\ \A n \in Wanted :
              \/ InFiles(n)
              \/ n \in Range(prefix)
              \/ status = "failed" /\ \A m \in Wanted : InFiles(m) => m < n
=============================================================================
