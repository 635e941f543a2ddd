------------------------------ MODULE PacketIO ------------------------------
(***************************************************************************)
(* The bytes of the two pipes (packet_io.cpp): write_config_packet, the    *)
(* loop over read_video_packet and write_end_packet, as run() calls them   *)
(* one after another, against a backend that reads and writes any number   *)
(* of bytes at a time and may end anywhere.                                *)
(*                                                                         *)
(* A packet is its size, its kind, for some kinds a timestamp, and the     *)
(* payload.  read() returns what there is and write() what there is room   *)
(* for; both sleep when that is nothing, and only a sleeping call is       *)
(* interrupted by a signal.  EINTR without a stop request changes nothing. *)
(***************************************************************************)
EXTENDS Integers, Sequences, SequencesExt

CONSTANTS
  Byte,
  SizeMax,           \* the largest uint32, that of packet_size
  SizeBytes,         \* sizeof(packet_size)
  SizeImage,         \* a packet_size as the bytes of its memory
  StampMax,          \* the largest uint64, that of packet.timestamp
  StampBytes,        \* sizeof(packet.timestamp)
  StampImage,        \* a timestamp as the bytes of its memory
  MaximumPacketSize, \* kMaximumPacketSize
  Parameters,        \* the payload of the configuration packet
  ConfigCapacities,  \* room in the configuration pipe
  VideoCapacity,     \* room in the video pipe
  Payloads, TimeStamps, \* what the backend may send
  MaxPackets         \* packets it sends: a bound of the model

Data == 0       \* 'd' and 's' may carry a timestamp
Secondary == 1
Other == 2
Kind == {Data, Secondary, Other}

ConfigKind == 0 \* 'c' and 'e'
EndKind    == 1

\* Every value has its own width bytes, in whatever order the machine keeps
\* them.
IsImage(image, width, limit) ==
  /\ width \in Nat \ {0} /\ limit \in Nat
  /\ image \in [0 .. limit -> [1 .. width -> Byte]]
  /\ \A m, n \in 0 .. limit : image[m] = image[n] => m = n

\* write_packet refuses a payload whose size does not fit (EOVERFLOW).
ASSUME PacketIOAssumption ==
  /\ Kind \subseteq Byte
  /\ IsImage(SizeImage, SizeBytes, SizeMax)
  /\ IsImage(StampImage, StampBytes, StampMax)
  /\ MaximumPacketSize \in 1 .. SizeMax - 1
  /\ Parameters \in Seq(Byte) /\ 1 + Len(Parameters) <= SizeMax
  /\ ConfigCapacities \subseteq Nat \ {0}
  /\ VideoCapacity \in Nat \ {0}
  /\ Payloads \subseteq Seq(Byte)
  /\ TimeStamps \subseteq 0 .. StampMax
  /\ MaxPackets \in Nat

VARIABLES
  phase,      \* "config", "video", "end" or "done": what run() is at
  stop,       \* g_stop_requested
  asleep,     \* run() sleeps in read() or write()
  toWrite,    \* what write_packet has yet to write, as buffers for write_full
  capacity,   \* room in the configuration pipe
  config,     \* bytes in the configuration pipe
  written,    \* every byte run() has written to it
  field,      \* what read_video_packet reads; "check": at the head of the loop
  got,        \* the bytes of the field so far
  left,       \* packet_size
  packet,     \* the packet being read
  delivered,  \* the packets it has returned
  noPayload,  \* NO_PAYLOAD_WRITE is set, for run() and for its child
  video,      \* bytes in the video pipe
  sending,    \* bytes of its packet the backend has yet to write
  sent,       \* the packets it has begun
  backend     \* "running" or "gone"

sendVars == <<toWrite, capacity, written>>
readVars == <<field, got, left, packet, delivered>>
backVars == <<sending, sent, backend>>
vars == <<phase, stop, asleep, sendVars, config, readVars, noPayload, video,
          backVars>>

-----------------------------------------------------------------------------
(* Packets as bytes                                                        *)

None == -1

Packet == [kind : Kind, stamp : Nat \cup {None}, payload : Seq(Byte)]

\* The integer whose memory holds these bytes.
Number(bytes, image) == CHOOSE n \in DOMAIN image : image[n] = bytes

\* The buffers that write_packet gives to write_full; an empty one is done.
Buffers(kind, payload) ==
  <<SizeImage[1 + Len(payload)], <<kind>>>>
    \o (IF payload = <<>> THEN <<>> ELSE <<payload>>)

\* A packet of the backend on the wire.
Stamp(p) == IF p.stamp = None THEN <<>> ELSE StampImage[p.stamp]

SizeOf(p) == 1 + Len(Stamp(p)) + Len(p.payload)

HasPayload(p) == ~(noPayload /\ p.kind = Data)

Encoded(p) ==
  SizeImage[SizeOf(p)] \o <<p.kind>> \o Stamp(p)
    \o (IF HasPayload(p) THEN p.payload ELSE <<>>)

\* What the backend may send.  A payload without a timestamp is shorter than one.
Sendable ==
  {p \in [kind : Kind, stamp : TimeStamps \cup {None}, payload : Payloads] :
     /\ SizeOf(p) <= SizeMax
     /\ p.kind = Other => p.stamp = None
     /\ p.kind # Other /\ p.stamp = None => Len(p.payload) < StampBytes}

Blank == [kind |-> Data, stamp |-> None, payload |-> <<>>]

Init ==
  /\ phase = "config" /\ stop = FALSE /\ asleep = FALSE
  /\ toWrite = Buffers(ConfigKind, Parameters)
  /\ capacity \in ConfigCapacities
  /\ config = 0 /\ written = <<>>
  /\ field = "check" /\ got = <<>> /\ left = 0 /\ packet = Blank
  /\ delivered = <<>>
  /\ noPayload \in BOOLEAN
  /\ video = <<>> /\ sending = <<>> /\ sent = <<>> /\ backend = "running"

-----------------------------------------------------------------------------
(* write_full and write_packet                                             *)

Writing == phase \in {"config", "end"} /\ toWrite # <<>>

Remaining_StartOver(buffer, count) == buffer

\* data += written, size -= written.
Remaining(buffer, count) == SubSeq(buffer, count + 1, Len(buffer))

\* write() returns count.
Write ==
  /\ Writing
  /\ backend = "running"
  /\ \E count \in 1 .. Len(Head(toWrite)) :
       /\ config + count <= capacity
       /\ config' = config + count
       /\ written' = written \o SubSeq(Head(toWrite), 1, count)
       /\ toWrite' = IF count = Len(Head(toWrite)) THEN Tail(toWrite)
                     ELSE [toWrite EXCEPT ![1] = Remaining(@, count)]
  /\ asleep' = FALSE
  /\ UNCHANGED <<phase, stop, capacity, readVars, noPayload, video, backVars>>

SleepInWrite ==
  /\ Writing
  /\ backend = "running" /\ config = capacity
  /\ asleep' = TRUE
  /\ UNCHANGED <<phase, stop, sendVars, config, readVars, noPayload, video,
                 backVars>>

\* run() goes on to the end packet, or past it.
Over ==
  /\ phase' = IF phase = "end" THEN "done" ELSE "end"
  /\ toWrite' = IF phase = "end" THEN <<>> ELSE Buffers(EndKind, <<>>)
  /\ asleep' = FALSE

\* write_packet returns true.
PacketWritten ==
  /\ phase \in {"config", "end"} /\ toWrite = <<>>
  /\ phase' = IF phase = "config" THEN "video" ELSE "done"
  /\ UNCHANGED <<stop, asleep, sendVars, config, readVars, noPayload, video,
                 backVars>>

\* EPIPE.
WriteFails ==
  /\ Writing
  /\ backend = "gone"
  /\ Over
  /\ UNCHANGED <<stop, capacity, config, written, readVars, noPayload, video,
                 backVars>>

-----------------------------------------------------------------------------
(* read_full and read_video_packet                                         *)

CheckStop ==
  /\ phase = "video" /\ field = "check"
  /\ IF stop THEN Over /\ UNCHANGED field
     ELSE field' = "size" /\ UNCHANGED <<phase, toWrite, asleep>>
  /\ UNCHANGED <<stop, capacity, config, written, got, left, packet, delivered,
                 noPayload, video, backVars>>

Reading == phase = "video" /\ field # "check"

SleepInRead ==
  /\ Reading
  /\ video = <<>> /\ backend = "running"
  /\ asleep' = TRUE
  /\ UNCHANGED <<phase, stop, sendVars, config, readVars, noPayload, video,
                 backVars>>

\* size in the call of read_full.
Wanted ==
  CASE field = "size"    -> SizeBytes
    [] field = "kind"    -> 1
    [] field = "stamp"   -> StampBytes
    [] field = "payload" -> left
    [] OTHER             -> 0

\* What read() returns: as much as there is and as is still wanted.
Count ==
  LET missing == Wanted - Len(got)
  IN IF Len(video) < missing THEN Len(video) ELSE missing

\* read() returns a part of the field, or all of it when whole is TRUE.
Read(whole) ==
  /\ Reading
  /\ video # <<>>
  /\ whole <=> Len(got) + Count = Wanted
  /\ video' = SubSeq(video, Count + 1, Len(video))
  /\ got' = IF whole THEN <<>> ELSE got \o SubSeq(video, 1, Count)
  /\ UNCHANGED <<stop, capacity, config, written, noPayload, backVars>>

ReadPart ==
  /\ Read(FALSE)
  /\ asleep' = FALSE
  /\ UNCHANGED <<phase, toWrite, field, left, packet, delivered>>

Field == got \o SubSeq(video, 1, Count)

SizeAccepted_NoLimit(n) == n >= 1

SizeAccepted(n) == n >= 1 /\ n <= MaximumPacketSize

ReadSize ==
  /\ field = "size" /\ Read(TRUE)
  /\ IF SizeAccepted(Number(Field, SizeImage))
       THEN /\ field' = "kind" /\ left' = Number(Field, SizeImage)
            /\ asleep' = FALSE /\ UNCHANGED <<phase, toWrite>>
       ELSE Over /\ UNCHANGED <<field, left>>
  /\ UNCHANGED <<packet, delivered>>

\* The payload of p is next, rest bytes long, unless there is none to read.
BeginPayload(p, rest) ==
  /\ left' = rest
  /\ IF rest = 0 \/ ~HasPayload(p)
       THEN /\ delivered' = Append(delivered, p)
            /\ field' = "check" /\ packet' = Blank
       ELSE field' = "payload" /\ packet' = p /\ UNCHANGED delivered

HasTimestamp_AnySize(kind, rest) == kind \in {Data, Secondary}

HasTimestamp(kind, rest) == kind \in {Data, Secondary} /\ rest >= StampBytes

ReadKind ==
  /\ field = "kind" /\ Read(TRUE)
  /\ LET p == [Blank EXCEPT !.kind = Field[1]]
     IN IF HasTimestamp(p.kind, left - 1)
          THEN /\ field' = "stamp" /\ left' = left - 1 /\ packet' = p
               /\ UNCHANGED delivered
          ELSE BeginPayload(p, left - 1)
  /\ asleep' = FALSE
  /\ UNCHANGED <<phase, toWrite>>

ReadStamp_SizeKept ==
  /\ field = "stamp" /\ Read(TRUE)
  /\ BeginPayload([packet EXCEPT !.stamp = Number(Field, StampImage)], left)
  /\ asleep' = FALSE
  /\ UNCHANGED <<phase, toWrite>>

ReadStamp ==
  /\ field = "stamp" /\ Read(TRUE)
  /\ BeginPayload([packet EXCEPT !.stamp = Number(Field, StampImage)], left - StampBytes)
  /\ asleep' = FALSE
  /\ UNCHANGED <<phase, toWrite>>

ReadPayload ==
  /\ field = "payload" /\ Read(TRUE)
  /\ delivered' = Append(delivered, [packet EXCEPT !.payload = Field])
  /\ field' = "check" /\ left' = 0 /\ packet' = Blank
  /\ asleep' = FALSE
  /\ UNCHANGED <<phase, toWrite>>

EndOfFile ==
  /\ Reading
  /\ video = <<>> /\ backend = "gone"
  /\ Over
  /\ UNCHANGED <<stop, capacity, config, written, readVars, noPayload, video,
                 backVars>>

\* SIGINT or SIGTERM.  A sleeping call returns EINTR, which ends the packet.
Signal ==
  /\ phase # "done"
  /\ stop' = TRUE
  /\ IF asleep THEN Over ELSE UNCHANGED <<phase, toWrite, asleep>>
  /\ UNCHANGED <<capacity, config, written, readVars, noPayload, video,
                 backVars>>

-----------------------------------------------------------------------------
(* The backend                                                             *)

ReadConfig ==
  /\ backend = "running"
  /\ config' \in 0 .. config - 1
  /\ UNCHANGED <<phase, stop, asleep, sendVars, readVars, noPayload, video,
                 backVars>>

\* Once it has its configuration; an error packet sent before that reads like
\* any other.
BeginPacket ==
  /\ backend = "running" /\ phase = "video" /\ config = 0
  /\ sending = <<>> /\ Len(sent) < MaxPackets
  /\ \E p \in Sendable :
       /\ sent' = Append(sent, p)
       /\ sending' = Encoded(p)
  /\ UNCHANGED <<phase, stop, asleep, sendVars, config, readVars, noPayload,
                 video, backend>>

\* A size that no packet has.
BeginNonsense ==
  /\ backend = "running" /\ phase = "video" /\ config = 0
  /\ sending = <<>> /\ Len(sent) < MaxPackets
  /\ \E n \in {0, MaximumPacketSize + 1} : sending' = SizeImage[n]
  /\ UNCHANGED <<phase, stop, asleep, sendVars, config, readVars, noPayload,
                 video, sent, backend>>

SendBytes ==
  /\ backend = "running" /\ phase = "video"
  /\ \E count \in 1 .. Len(sending) :
       /\ Len(video) + count <= VideoCapacity
       /\ video' = video \o SubSeq(sending, 1, count)
       /\ sending' = SubSeq(sending, count + 1, Len(sending))
  /\ UNCHANGED <<phase, stop, asleep, sendVars, config, readVars, noPayload,
                 sent, backend>>

BackendEnds ==
  /\ backend = "running"
  /\ backend' = "gone"
  /\ UNCHANGED <<phase, stop, asleep, sendVars, config, readVars, noPayload,
                 video, sending, sent>>

-----------------------------------------------------------------------------
Run ==
  \/ Write \/ SleepInWrite \/ PacketWritten \/ WriteFails
  \/ CheckStop \/ SleepInRead
  \/ ReadPart \/ ReadSize \/ ReadKind \/ ReadStamp \/ ReadPayload
  \/ EndOfFile

Next ==
  \/ Run
  \/ Signal
  \/ ReadConfig
  \/ BeginPacket
  \/ BeginNonsense
  \/ SendBytes
  \/ BackendEnds

Spec == Init /\ [][Next]_vars /\ WF_vars(Run)

-----------------------------------------------------------------------------
(* Properties                                                              *)

TypeOK ==
  /\ phase \in {"config", "video", "end", "done"}
  /\ stop \in BOOLEAN /\ asleep \in BOOLEAN /\ noPayload \in BOOLEAN
  /\ toWrite \in Seq(Seq(Byte) \ {<<>>})
  /\ capacity \in ConfigCapacities /\ config \in 0 .. capacity
  /\ written \in Seq(Byte)
  /\ field \in {"check", "size", "kind", "stamp", "payload"}
  /\ got \in Seq(Byte) /\ Len(got) < MaximumPacketSize + SizeBytes
  /\ left \in 0 .. MaximumPacketSize
  /\ packet \in Packet
  /\ delivered \in Seq(Packet)
  /\ video \in Seq(Byte) /\ Len(video) <= VideoCapacity
  /\ sending \in Seq(Byte)
  /\ sent \in Seq(Packet)
  /\ backend \in {"running", "gone"}

Received(p) ==
  IF HasPayload(p) THEN p ELSE [p EXCEPT !.payload = <<>>]

\* The pipe is a queue of packets: whatever the sizes of the reads, wherever a
\* signal or the end of the backend cuts the stream, read_video_packet returns
\* the packets that were sent, each whole, in order and once.
DeliveredAreSent ==
  IsPrefix(delivered, [i \in 1 .. Len(sent) |-> Received(sent[i])])

ConfigBytes == SizeImage[1 + Len(Parameters)] \o <<ConfigKind>> \o Parameters
EndBytes    == SizeImage[1] \o <<EndKind>>

\* The backend reads the configuration packet and the end packet, whatever
\* parts they are written in.  Only a stop request can cut the first one
\* short, so that the end packet is taken for its rest, and only if the packet
\* does not fit into its pipe.
ConfigFramed ==
  \/ IsPrefix(written, ConfigBytes \o EndBytes)
  \/ /\ stop
     /\ capacity < Len(ConfigBytes)
     /\ \E k \in 0 .. Len(ConfigBytes) :
          IsPrefix(written, SubSeq(ConfigBytes, 1, k) \o EndBytes)

\* read_full never waits for bytes beyond the packet: one that is in the pipe
\* as a whole is returned although nothing follows it.
PacketsReturned ==
  \A n \in 1 .. MaxPackets :
    (phase = "video" /\ Len(sent) >= n /\ (Len(sent) = n => sending = <<>>))
      ~> (Len(delivered) >= n \/ phase # "video")
=============================================================================
