----------------------------- MODULE RouteData -----------------------------
(***************************************************************************)
(* RouteDataFetcher.run: how the steps of Google's directions become the   *)
(* combined route, a list of steps of equal length, one between each two   *)
(* elevation samples.                                                      *)
(*                                                                         *)
(* Directions are the sequence of their steps' lengths.  Speeds, slopes    *)
(* and places are left out: a step of the combined route is its length.    *)
(***************************************************************************)
EXTENDS Naturals, Sequences, SequencesExt

CONSTANT StepSize    \* step_size: the length of a step asked for

ASSUME StepSizeAssumption == StepSize \in Nat \ {0}

(* The lengths of all steps together: dist. *)
Dist(directions) == FoldLeft(+, 0, directions)

(* sample_size, when the length of a step is given. *)
SampleSize(directions) == Dist(directions) \div StepSize

(* Faulty variant: the samples a step spans are rounded up. *)
SpanRoundedUp(directions, i) ==
  (directions[i] * SampleSize(directions) + Dist(directions) - 1) \div Dist(directions)

(* What step i adds to the int dist2, which cuts off the fraction. *)
Span(directions, i) == (directions[i] * SampleSize(directions)) \div Dist(directions)

(* The index of speeds[] that step i writes. *)
SpeedIndex(directions, i) ==
  1 + FoldLeft(+, 0, [j \in 1..(i - 1) |-> Span(directions, j)])

(* speeds[0] is written, then an index per step; outside of the array the
   exception ends the loading, and data_combined becomes null. *)
LoadFails(directions) ==
  \/ SampleSize(directions) = 0
  \/ \E i \in DOMAIN directions : SpeedIndex(directions, i) >= SampleSize(directions)

(* One step fewer than there are samples, each of length avg. *)
Combined(directions) ==
  [size |-> SampleSize(directions) - 1,
   len |-> Dist(directions) \div SampleSize(directions)]

(* data_combined = null. *)
Lost == [size |-> 0, len |-> 0]
=============================================================================
