------------------------------ MODULE MCInputs ------------------------------
(***************************************************************************)
(* What the program reads before and while it records: the invocations of  *)
(* Startup, and the functions that read its inputs compared with reference *)
(* definitions.  Each behaviour has one subject: the steps of Startup, the *)
(* frames that FrameStats counts, or an input that grows by one element.   *)
(***************************************************************************)
EXTENDS Startup, IndexText, H264Inspector, FrameStats, ConfigText

CONSTANT MaxFrames \* a bound

VARIABLES subject, input

MCArguments ==
  {<<>>, <<"--verbose">>, <<"other">>, <<"--storage">>,
   <<"camera.yml", "--verbose", "out.ts">>, <<"out.264">>, <<"out.ts">>,
   <<"camera.yml">>, <<"out.ts", "camera.yml">>,
   <<"--storage", "other">>, <<"--storage", "">>,
   <<"camera.yml", "--storage", "out.ts">>,
   <<"--generate-default-config", "RpiCamTs.yml">>,
   <<"--generate-default-config", "camera.yml">>}

-----------------------------------------------------------------------------
(* An encoder's NAL units                                                  *)

Zeros(n) == [i \in 1 .. n |-> 0]

\* value + 1 in binary, after one zero less than it has digits.
GolombOf(value) ==
  LET half[k \in 0 .. 31] ==
        IF k = 0 THEN value + 1 ELSE half[k - 1] \div 2
      width == CHOOSE w \in 1 .. 31 : half[w - 1] = 1
  IN Zeros(width - 1) \o [i \in 1 .. width |-> half[width - i] % 2]

\* With a one and as many zeros as fill the last byte.
BytesOf(bits) ==
  LET full == bits \o <<1>> \o Zeros((7 - Len(bits)) % 8)
      Bit(i, j) == full[8 * (i - 1) + j]
  IN [i \in 1 .. Len(full) \div 8 |->
        128 * Bit(i, 1) + 64 * Bit(i, 2) + 32 * Bit(i, 3) + 16 * Bit(i, 4)
          + 8 * Bit(i, 5) + 4 * Bit(i, 6) + 2 * Bit(i, 7) + Bit(i, 8)]

\* One more byte of a unit, after an emulation prevention byte if two zeros
\* come before it and it needs one.
Escape(r, byte) ==
  IF r.zeros = 2 /\ byte <= 3
    THEN [bytes |-> Append(Append(r.bytes, 3), byte),
          zeros |-> IF byte = 0 THEN 1 ELSE 0]
  ELSE [bytes |-> Append(r.bytes, byte),
        zeros |-> IF byte = 0 THEN r.zeros + 1 ELSE 0]

Escaped(bytes) ==
  LET escaped[k \in 0 .. Len(bytes)] ==
        IF k = 0 THEN [bytes |-> <<>>, zeros |-> 0]
        ELSE Escape(escaped[k - 1], bytes[k])
  IN escaped[Len(bytes)].bytes

ParameterUnit(long, header, info) ==
  [long |-> long, header |-> header, body |-> <<66, 0, 0, 1>>, info |-> info]

SliceUnit(long, header, first, slice) ==
  [long |-> long, header |-> header,
   body |-> BytesOf(GolombOf(first) \o GolombOf(slice)) \o <<0, 0, 1, 255>>,
   info |-> << <<"P", "B", "I", "SP", "SI", "P", "B", "I", "SP", "SI">>
                 [slice + 1] >>]

Unit ==
  {ParameterUnit(long, h[1], h[2]) :
     long \in BOOLEAN,
     h \in {<<6, <<"SEI">>>>, <<103, <<"SPS">>>>, <<104, <<"PPS">>>>,
            <<9, <<"AUD">>>>, <<12, <<>>>>}}
  \cup {SliceUnit(long, header, first, slice) :
          long \in BOOLEAN, header \in {65, 101},
          first \in {0, 6, 4194303}, slice \in {0, 2, 6, 9}}

UnitBytes(u) ==
  (IF u.long THEN <<0>> ELSE <<>>) \o <<0, 0, 1, u.header>> \o Escaped(u.body)

Stream(units) ==
  LET stream[k \in 0 .. Len(units)] ==
        IF k = 0 THEN <<>> ELSE stream[k - 1] \o UnitBytes(units[k])
  IN stream[Len(units)]

\* What there is to say about them.
InfoOf(units) ==
  LET info[k \in 0 .. Len(units)] ==
        IF k = 0 THEN <<>> ELSE info[k - 1] \o units[k].info
  IN info[Len(units)]

-----------------------------------------------------------------------------
(* The other inputs                                                        *)

\* A line an operator may write: a key, a value in quotes or not, a comment.
Writable(l) ==
  /\ l.key # <<>> /\ l.key = Trim(l.key)
  /\ \A i \in DOMAIN l.key : l.key[i] \notin {"#", ":"} \cup QuoteMark
  /\ l.quote = "" =>
       /\ l.value = Trim(l.value)
       /\ \A i \in DOMAIN l.value : l.value[i] \notin {"#"} \cup QuoteMark
  /\ l.quote # "" =>
       /\ \A i \in DOMAIN l.value : l.value[i] # l.quote
       /\ l.value # <<>> => Last(l.value) # "\\"

ConfigLine ==
  {l \in [key : {<<"k">>, <<"l">>},
          value : SeqOf({"v", "#", ":", "'", " ", "\\"}, 2),
          quote : {"", "'", "\""}, comment : BOOLEAN] : Writable(l)}

Quote(mark) == IF mark = "" THEN <<>> ELSE <<mark>>

LineText(l) ==
  <<" ">> \o l.key \o <<" ", ":", " ">>
  \o Quote(l.quote) \o l.value \o Quote(l.quote)
  \o (IF l.comment THEN <<" ", "#", "'", ":">> ELSE <<>>)

IndexLine ==
  {VersionLine, FoldersLine, OtherLine}
  \cup {MaxLine(n) : n \in 0 .. 2} \cup {SizeLine(n) : n \in 0 .. 1}
  \cup {FolderLine(n, padded) :
          n \in {0, 1, IntMax - 1, IntMax}, padded \in BOOLEAN}
  \cup {RecordLine(n, s) : n \in {0, 1, 2, IntMax - 1, IntMax}, s \in Suffix}

Elements ==
  CASE subject = "h264"   -> Unit
    [] subject = "config" -> ConfigLine
    [] subject = "index"  -> IndexLine
    [] subject = "number" -> 0 .. 9
    [] OTHER              -> {}

Limit ==
  CASE subject = "h264"   -> 2
    [] subject = "config" -> 2
    [] subject = "index"  -> 9
    [] subject = "number" -> 4
    [] OTHER              -> 0

MCInit ==
  /\ Init
  /\ StatsInit
  /\ subject \in {"startup", "h264", "stats", "config", "index", "number"}
  /\ subject # "startup" => home = "dst" /\ environment = "unset"
  /\ input = <<>>

Grow ==
  /\ Len(input) < Limit
  /\ subject = "index" /\ Len(input) >= 4 => ReadIndex(input, TRUE).ok
  /\ input' \in {Append(input, e) : e \in Elements}
  /\ UNCHANGED <<vars, statsVars, subject>>

Frame ==
  /\ subject = "stats"
  /\ Len(seen) < MaxFrames
  /\ StatsNext
  /\ UNCHANGED <<vars, subject, input>>

MCNext ==
  \/ Grow
  \/ Frame
  \/ subject = "startup" /\ Next /\ UNCHANGED <<statsVars, subject, input>>

MCSpec == MCInit /\ [][MCNext]_<<vars, statsVars, subject, input>>

-----------------------------------------------------------------------------
(* Properties                                                              *)

\* For every stream of NAL units that an encoder writes, with either start
\* code and with emulation prevention, the inspector names exactly the units
\* and slices in it, and finds a video frame in it exactly when it has one:
\* what it takes for a frame is what the muxer gets a timestamp for.
NalusFound ==
  subject = "h264" /\ input # <<>> =>
    LET bytes == Stream(input)
        types == {input[i].header % 32 : i \in DOMAIN input}
    IN /\ CollectNaluInfo(bytes) = InfoOf(input)
       /\ ContainsVideoFrame(bytes) <=> types \cap 1 .. 5 # {}
       /\ ContainsType(bytes, 5) <=> 5 \in types
       /\ LooksLikeAnnexB(bytes)

\* README "one Key: Value pair per line, with optional quotes, blank lines,
\* and # comments": what an operator writes is what is loaded, with comment
\* signs, colons, spaces and the other quote inside quotes, and the last line
\* of a key counts.
ConfigAsWritten ==
  subject = "config" =>
    LoadConfigLines([i \in DOMAIN input |-> LineText(input[i])]) =
      [key \in {input[i].key : i \in DOMAIN input} |->
         input[Greatest({i \in DOMAIN input : input[i].key = key})].value]

\* What the lines say, with no check: the settings, if there are any, and the
\* records below them, each in the folder that was named last.
PlainRecords(body) ==
  LET said[k \in 0 .. Len(body)] ==
        IF k = 0 THEN [folder |-> NoFolder, records |-> <<>>]
        ELSE LET before == said[k - 1]
                 line   == body[k]
             IN CASE line.kind = "folder" -> [before EXCEPT !.folder = line.n]
                  [] line.kind = "record" ->
                       [before EXCEPT !.records =
                          Append(@, [folder |-> before.folder,
                                     file   |-> line.n,
                                     suffix |-> line.suffix])]
                  [] OTHER -> before
  IN said[Len(body)].records

Plain(lines) ==
  LET headed == Len(lines) > 1 /\ lines[2].kind = "max"
  IN [headed  |-> headed,
      max     |-> IF headed THEN lines[2].n ELSE DefaultMaxFileNum,
      size    |-> IF headed /\ Len(lines) > 2 /\ lines[3].kind = "size"
                    THEN lines[3].n ELSE DefaultSegmentSize,
      records |-> PlainRecords(SubSeq(lines, IF headed THEN 5 ELSE 3,
                                      Len(lines)))]

Canonical(lines) ==
  [i \in DOMAIN lines |->
     IF lines[i].kind = "folder" THEN FolderLine(lines[i].n, TRUE)
     ELSE lines[i]]

\* The loop of load_index_file accepts exactly the texts that save_atomic can
\* have written, of a valid index in the sense of StorageIndex, and those of
\* the earlier formats; it reads what they say and ends at the next position.
\* A text with a line missing, repeated, reordered or edited is not half
\* accepted.  One that is cut behind a whole record is a valid index of fewer
\* records: the text does not tell, and it is accepted.
IndexTextExact ==
  subject = "index" =>
    \A legacy \in BOOLEAN :
      LET s       == ReadIndex(input, legacy)
          written == Canonical(input)
          says    == Plain(input)
      IN /\ Accepted(s) <=>
              /\ legacy \/ written = input
              /\ written = WrittenLines(says)
              /\ says.max > 0 /\ says.size > 0
              /\ ValidRecords(says.records, says.max)
         /\ Accepted(s) =>
              /\ ReadContent(input, s) = says
              /\ s.next = NextOf(says.records, says.max)
              /\ s.rewrite <=> (~says.headed \/ written # input)

\* The number that digits spell.
DecimalValue(digits) ==
  LET value[k \in 0 .. Len(digits)] ==
        IF k = 0 THEN 0 ELSE 10 * value[k - 1] + digits[k]
  IN value[Len(digits)]

\* The parsers accept exactly the numbers that fit, in exactly the spelling
\* that is written, whatever their digits: neither an int nor a size in bytes
\* ever wraps around on the way.
NumbersExact ==
  subject = "number" =>
    LET value == DecimalValue(input)
        zero  == input # <<>> /\ input[1] = 0
    IN /\ ParseInt(input) =
            IF input = <<>> \/ (zero /\ Len(input) > 1) \/ value > IntMax
              THEN NoNumber ELSE value
       /\ ParseIndex(input) =
            IF \/ Len(input) < 3 \/ value > IntMax
               \/ zero /\ Len(input) > 3
              THEN NoNumber ELSE value
       /\ \A unit \in SizeUnit :
            ParseSize(input, unit) =
              IF input = <<>> \/ zero \/ value * unit > SizeMax
                THEN NoNumber ELSE value * unit
=============================================================================
