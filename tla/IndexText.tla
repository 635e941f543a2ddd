------------------------------ MODULE IndexText ------------------------------
(***************************************************************************)
(* The text of an index file: load_index_file line by line, the lines that *)
(* save_atomic writes, and the numbers in them (storage_index.cpp).        *)
(* StorageIndex says the same of whole indexes, in one formula; the loop   *)
(* here is what the code does.                                             *)
(***************************************************************************)
EXTENDS StorageIndex

CONSTANTS
  SizeMax,  \* the largest uint64
  SizeUnit  \* kMegabyteBytes and kGigabyteBytes

ASSUME IndexTextAssumption == SizeMax \in Nat /\ SizeUnit \subseteq Nat \ {0}

-----------------------------------------------------------------------------
(* Numbers, as sequences of decimal digits                                 *)

NoNumber == -1

WithDigit_OffByDigit(n, d, max) ==
  IF n = NoNumber \/ n > max \div 10 THEN NoNumber ELSE 10 * n + d

WithDigit(n, d, max) ==
  IF n = NoNumber \/ n > (max - d) \div 10 THEN NoNumber ELSE 10 * n + d

\* The value, unless it exceeds max.  No intermediate result does.
ParseUpTo(digits, max) ==
  LET after[k \in 0 .. Len(digits)] ==
        IF k = 0 THEN 0 ELSE WithDigit(after[k - 1], digits[k], max)
  IN after[Len(digits)]

\* parse_nonnegative_int.
ParseInt(digits) ==
  IF digits = <<>> \/ (Len(digits) > 1 /\ Head(digits) = 0) THEN NoNumber
  ELSE ParseUpTo(digits, IntMax)

\* parse_padded_nonnegative_int.
ParsePadded(digits) ==
  LET nonzero == {i \in DOMAIN digits : digits[i] # 0}
  IN IF digits = <<>> THEN NoNumber
     ELSE IF nonzero = {} THEN 0
     ELSE ParseInt(SubSeq(digits,
                          CHOOSE i \in nonzero : \A j \in nonzero : i <= j,
                          Len(digits)))

\* format_file_index and format_folder_index: at least three digits.
Padded(n) ==
  LET over[k \in Nat] == IF k = 0 THEN n ELSE over[k - 1] \div 10
      width == CHOOSE w \in 3 .. n + 3 :
                 over[w] = 0 /\ (w = 3 \/ over[w - 1] # 0)
  IN [i \in 1 .. width |-> over[width - i] % 10]

\* parse_record_filename and a folder line: the number in its only spelling.
ParseIndex(digits) ==
  LET n == ParsePadded(digits)
  IN IF n # NoNumber /\ Len(digits) >= 3 /\ digits = Padded(n)
       THEN n ELSE NoNumber

\* parse_file_segmentation_size: an amount of some unit, in bytes.
ParseSize(digits, unit) ==
  LET amount == ParseUpTo(digits, SizeMax)
  IN IF digits = <<>> \/ Head(digits) = 0 THEN NoNumber
     ELSE IF amount = NoNumber \/ amount > SizeMax \div unit THEN NoNumber
     ELSE amount * unit

-----------------------------------------------------------------------------
(* Lines.  A record line with an invalid file name is one of kind "other". *)
(* A folder line that is not padded spells its number some other way.      *)

VersionLine == [kind |-> "version"]
FoldersLine == [kind |-> "folders"]
OtherLine   == [kind |-> "other"]
MaxLine(n)  == [kind |-> "max", n |-> n]
SizeLine(n) == [kind |-> "size", n |-> n]
FolderLine(n, padded) == [kind |-> "folder", n |-> n, padded |-> padded]
RecordLine(n, suffix) == [kind |-> "record", n |-> n, suffix |-> suffix]

\* The number of lines before those of the folders, 0 if they are not as
\* they have to be.  The first format has no settings.
HeadLength(lines) ==
  IF /\ Len(lines) >= 2
     /\ lines[1].kind = "version" /\ lines[2].kind = "folders"
    THEN 2
  ELSE IF /\ Len(lines) >= 4
          /\ lines[1].kind = "version"
          /\ lines[2].kind = "max" /\ lines[2].n > 0
          /\ lines[3].kind = "size" /\ lines[3].n > 0
          /\ lines[4].kind = "folders"
    THEN 4
  ELSE 0

Settings(lines) ==
  IF HeadLength(lines) = 4
    THEN [headed |-> TRUE, max |-> lines[2].n, size |-> lines[3].n]
    ELSE [headed |-> FALSE, max |-> DefaultMaxFileNum,
          size |-> DefaultSegmentSize]

NoFolder == -1

\* folders_ is split into its keys and what is recorded in any of them, in
\* the order in which both come; current is current_folder.
Unread(lines) ==
  [ok |-> HeadLength(lines) > 0, current |-> NoFolder, folders |-> {},
   records |-> <<>>, next |-> Origin, rewrite |-> HeadLength(lines) = 2]

Rejected(s) == [s EXCEPT !.ok = FALSE]

\* The folder that is open has no records yet.
LastFolderEmpty(s) ==
  /\ s.current # NoFolder
  /\ \A i \in DOMAIN s.records : s.records[i].folder # s.current

ReadFolder(s, line, legacy) ==
  IF /\ line.padded \/ legacy
     /\ ~LastFolderEmpty(s)
     /\ s.records # <<>> => s.next = [folder |-> line.n, file |-> 0]
     /\ line.n \notin s.folders
    THEN [s EXCEPT !.current = line.n, !.folders = @ \cup {line.n},
                   !.rewrite = @ \/ ~line.padded]
    ELSE Rejected(s)

ReadRecord_AnyFirst(s, line, max) ==
  LET r     == [folder |-> s.current, file |-> line.n, suffix |-> line.suffix]
      found == Append(s.records, r)
      count == CountUpTo(found, Len(found))
  IN IF /\ s.current # NoFolder
        /\ count > 1 => PositionOf(r) = s.next
        /\ count <= max
        /\ CanAdvance(PositionOf(r), count, max)
       THEN [s EXCEPT !.records = found,
                      !.next = Advance(PositionOf(r), count, max)]
       ELSE Rejected(s)

ReadRecord(s, line, max) ==
  LET r     == [folder |-> s.current, file |-> line.n, suffix |-> line.suffix]
      found == Append(s.records, r)
      count == CountUpTo(found, Len(found))
  IN IF /\ s.current # NoFolder
        /\ s.records # <<>> => PositionOf(r) = s.next
        /\ count <= max
        /\ CanAdvance(PositionOf(r), count, max)
       THEN [s EXCEPT !.records = found,
                      !.next = Advance(PositionOf(r), count, max)]
       ELSE Rejected(s)

ReadLine(s, line, max, legacy) ==
  CASE ~s.ok -> s
    [] s.ok /\ line.kind = "folder" -> ReadFolder(s, line, legacy)
    [] s.ok /\ line.kind = "record" -> ReadRecord(s, line, max)
    [] OTHER -> Rejected(s)

\* The lines of the folders and records.
BodyOf(lines) == SubSeq(lines, HeadLength(lines) + 1, Len(lines))

\* load_index_file; legacy is allow_unpadded_folders.
ReadIndex(lines, legacy) ==
  LET body == BodyOf(lines)
      max  == Settings(lines).max
      read[k \in 0 .. Len(body)] ==
        IF k = 0 THEN Unread(lines)
        ELSE ReadLine(read[k - 1], body[k], max, legacy)
  IN read[Len(body)]

Accepted(s) == s.ok /\ ~LastFolderEmpty(s)

ReadContent(lines, s) ==
  [headed  |-> Settings(lines).headed, max |-> Settings(lines).max,
   size    |-> Settings(lines).size,
   records |-> s.records]

\* The line of a record, after that of its folder if it is the first there.
RecordLines(records, k) ==
  LET line == RecordLine(records[k].file, records[k].suffix)
  IN IF k > 1 /\ records[k - 1].folder = records[k].folder THEN <<line>>
     ELSE <<FolderLine(records[k].folder, TRUE), line>>

BodyLines(records) ==
  LET body[k \in 0 .. Len(records)] ==
        IF k = 0 THEN <<>> ELSE body[k - 1] \o RecordLines(records, k)
  IN body[Len(records)]

\* What save_atomic writes, and the first format.
WrittenLines(content) ==
  <<VersionLine>>
  \o (IF content.headed
        THEN <<MaxLine(content.max), SizeLine(content.size)>> ELSE <<>>)
  \o <<FoldersLine>>
  \o BodyLines(content.records)
=============================================================================
