--------------------------- MODULE SegmentArchive ---------------------------
(***************************************************************************)
(* What managed storage promises to whoever reads the recordings: an       *)
(* archive of segments, ordered by folder and file number, to which one    *)
(* recorder at a time appends.  Only the last segment grows; a segment,    *)
(* once begun, is never removed, shortened or followed by another of the   *)
(* same number.                                                            *)
(***************************************************************************)
EXTENDS Integers

CONSTANTS
  Owner,      \* who may hold the storage
  Nobody,     \* nobody holds it
  Slot,       \* the positions of segments
  Earlier(_, _)

VARIABLES
  archive,    \* the segments with data: their positions and lengths
  owner

Init ==
  /\ DOMAIN archive \subseteq Slot
  /\ archive \in [DOMAIN archive -> Nat \ {0}]
  /\ owner = Nobody

Acquire ==
  /\ owner = Nobody
  /\ owner' \in Owner
  /\ UNCHANGED archive

\* To nobody, or to what is left of a killed recorder.
Release ==
  /\ owner # Nobody
  /\ owner' # owner
  /\ owner' \notin Owner
  /\ UNCHANGED archive

Last(s) == \A t \in DOMAIN archive : t = s \/ Earlier(t, s)

\* The recorder appends bytes to the last segment or begins a later one.
Extend ==
  /\ owner \in Owner
  /\ UNCHANGED owner
  /\ \E s \in Slot :
       /\ Last(s)
       /\ DOMAIN archive' = DOMAIN archive \cup {s}
       /\ \A t \in DOMAIN archive \ {s} : archive'[t] = archive[t]
       /\ archive'[s] \in Nat \ {0}
       /\ s \in DOMAIN archive => archive'[s] >= archive[s]

Next == Acquire \/ Release \/ Extend

Spec == Init /\ [][Next]_<<archive, owner>>
=============================================================================
