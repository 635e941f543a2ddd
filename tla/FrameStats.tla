----------------------------- MODULE FrameStats -----------------------------
(***************************************************************************)
(* The statistics of the frames (stats.cpp).  A double is an exact number  *)
(* of time units.  A sample's fps is 1 / difference, so its least is read  *)
(* off the greatest difference, and the rounded one off the last.          *)
(***************************************************************************)
EXTENDS Integers, Sequences

CONSTANTS
  Timestamp,   \* what a packet may be stamped with, 0 if it has no stamp
  StatsWindow  \* two seconds

ASSUME FrameStatsAssumption == Timestamp \subseteq Nat /\ StatsWindow \in Nat

VARIABLES
  frame_count, previous_timestamp, difference,
  instant,     \* the difference that instant_fps is taken from, 0 for none
  samples,
  snapshot,    \* what update returned last
  seen         \* the timestamps that have come

statsVars == <<frame_count, previous_timestamp, difference, instant, samples,
               snapshot, seen>>

Sampled_KeepOld(t) ==
  IF previous_timestamp > 0 /\ t > previous_timestamp
    THEN Append(samples, [timestamp |-> t, difference |-> t - previous_timestamp])
    ELSE samples

\* The samples with the one that t adds.  0 is no previous timestamp.
Sampled(t) ==
  IF previous_timestamp = 0 THEN samples
  ELSE IF t > previous_timestamp
    THEN Append(samples, [timestamp |-> t, difference |-> t - previous_timestamp])
    ELSE <<>>

\* From the first sample that is not older than the window.
InWindow(queue, t) ==
  LET recent == {i \in 1 .. Len(queue) : t - queue[i].timestamp <= StatsWindow}
  IN IF recent = {} THEN <<>>
     ELSE SubSeq(queue, CHOOSE i \in recent : \A j \in recent : i <= j,
                 Len(queue))

\* 0 stands for no minimum yet.
NoTotals == [sum |-> 0, min |-> 0, max |-> 0]

Counted(totals, d) ==
  [sum |-> totals.sum + d,
   min |-> IF totals.min = 0 \/ d < totals.min THEN d ELSE totals.min,
   max |-> IF d > totals.max THEN d ELSE totals.max]

\* The loop over the samples.  sum / Len(queue) is avg_diff.
Totals(queue) ==
  LET after[k \in 0 .. Len(queue)] ==
        IF k = 0 THEN NoTotals ELSE Counted(after[k - 1], queue[k].difference)
  IN after[Len(queue)]

StatsInit ==
  /\ frame_count = 0
  /\ previous_timestamp = 0
  /\ difference = 0
  /\ instant = 0
  /\ samples = <<>>
  /\ snapshot = NoTotals
  /\ seen = <<>>

update(t) ==
  /\ frame_count' = frame_count + 1
  /\ previous_timestamp' = t
  /\ difference' = IF previous_timestamp > 0 THEN t - previous_timestamp
                   ELSE difference
  /\ instant' = IF previous_timestamp = 0 THEN instant
                ELSE IF t > previous_timestamp THEN t - previous_timestamp
                ELSE 0
  /\ samples' = InWindow(Sampled(t), t)
  /\ snapshot' = Totals(samples')
  /\ seen' = Append(seen, t)

StatsNext == \E t \in Timestamp : update(t)

StatsSpec == StatsInit /\ [][StatsNext]_statsVars

-----------------------------------------------------------------------------
\* The frames since the time last ran backwards, or a packet came without a
\* timestamp, that are not older than the window: those that have one before
\* them there.
Shown ==
  {i \in 2 .. Len(seen) :
     /\ \A j \in i .. Len(seen) : 0 < seen[j - 1] /\ seen[j - 1] < seen[j]
     /\ seen[Len(seen)] - seen[i] <= StatsWindow}

Gap(i) == seen[i] - seen[i - 1]

\* Whatever timestamps come, a packet without one among them, which counts as
\* 0, the statistics are those of the frames of the last two seconds since the
\* time last ran backwards: their differences add up to the time they span,
\* the running minimum and maximum are the real ones, and the rate shown for
\* the moment is that of the last of them.
StatsOfWindow ==
  LET n     == Len(seen)
      older == n - Len(samples)
  IN /\ frame_count = n
     /\ Shown = older + 1 .. n
     /\ \A i \in Shown :
          samples[i - older] = [timestamp |-> seen[i], difference |-> Gap(i)]
     /\ IF Shown = {} THEN snapshot = NoTotals /\ instant = 0
        ELSE /\ snapshot.sum = seen[n] - seen[older]
             /\ snapshot.min \in {Gap(i) : i \in Shown}
             /\ snapshot.max \in {Gap(i) : i \in Shown}
             /\ \A i \in Shown :
                  snapshot.min <= Gap(i) /\ Gap(i) <= snapshot.max
             /\ instant = Gap(n)
=============================================================================
