----------------------------- MODULE MCHrtfGrid -----------------------------
(***************************************************************************)
(* Directions for TLC, in quarters of a degree.                            *)
(***************************************************************************)
EXTENDS HrtfGrid

\* Both sides of every change of the choice, beyond both ends of the ranges.
BothSidesAz == {10 * k - b : k \in -75 .. 75, b \in {0, 1}}
BothSidesEl == {20 * k - b : k \in -9 .. 19, b \in {0, 1}}
=============================================================================
