----------------------------- MODULE ConfigText -----------------------------
(***************************************************************************)
(* load_config_file (config_loader.cpp): the values in the lines of a      *)
(* configuration file.  A line is a sequence of characters; every white    *)
(* space is " ".                                                           *)
(***************************************************************************)
EXTENDS Integers, Sequences, SequencesExt

\* load_config_file throws: what stands for a value, and for the values.
Unreadable == <<"unreadable">>
NoValues   == [key \in {<<>>} |-> Unreadable]

QuoteMark == {"'", "\""}

Least(S)    == CHOOSE i \in S : \A j \in S : i <= j
Greatest(S) == CHOOSE i \in S : \A j \in S : j <= i

Trim(text) ==
  LET kept == {i \in DOMAIN text : text[i] # " "}
  IN IF kept = {} THEN <<>> ELSE SubSeq(text, Least(kept), Greatest(kept))

\* The quote mark that is open after the first i characters, or " ".
OpenQuote(line) ==
  LET quote[i \in 0 .. Len(line)] ==
        IF i = 0 THEN " "
        ELSE LET before == quote[i - 1]
                 mark   == /\ line[i] \in QuoteMark
                           /\ i = 1 \/ line[i - 1] # "\\"
             IN IF mark /\ before = " " THEN line[i]
                ELSE IF mark /\ before = line[i] THEN " "
                ELSE before
  IN quote

StripComment_AnyQuote(line) ==
  LET hashes == {i \in DOMAIN line : line[i] = "#"}
  IN IF hashes = {} THEN line ELSE SubSeq(line, 1, Least(hashes) - 1)

StripComment(line) ==
  LET hashes == {i \in DOMAIN line :
                   line[i] = "#" /\ OpenQuote(line)[i - 1] = " "}
  IN IF hashes = {} THEN line ELSE SubSeq(line, 1, Least(hashes) - 1)

Unquote(value) ==
  IF value = <<>> \/ {Head(value), Last(value)} \cap QuoteMark = {} THEN value
  ELSE IF Len(value) < 2 \/ Head(value) # Last(value) THEN Unreadable
  ELSE SubSeq(value, 2, Len(value) - 1)

Blank    == [key |-> <<>>, value |-> <<>>]
BadEntry == [key |-> <<>>, value |-> Unreadable]

\* The key and the value of a line.
Entry(line) ==
  LET text   == Trim(StripComment(line))
      colons == {i \in DOMAIN text : text[i] = ":"}
      key    == Trim(SubSeq(text, 1, Least(colons) - 1))
      value  == Unquote(Trim(SubSeq(text, Least(colons) + 1, Len(text))))
  IN IF text = <<>> THEN Blank
     ELSE IF colons = {} \/ key = <<>> \/ value = Unreadable THEN BadEntry
     ELSE [key |-> key, value |-> value]

\* The last value of every key; nothing if any line is in error.
LoadConfigLines(lines) ==
  LET entries == [i \in DOMAIN lines |-> Entry(lines[i])]
      keyed   == {i \in DOMAIN lines : entries[i] # Blank}
  IN IF \E i \in DOMAIN lines : entries[i] = BadEntry THEN NoValues
     ELSE [key \in {entries[i].key : i \in keyed} |->
             entries[Greatest({i \in keyed : entries[i].key = key})].value]
=============================================================================
