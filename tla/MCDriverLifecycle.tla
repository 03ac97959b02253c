------------------------- MODULE MCDriverLifecycle --------------------------
(***************************************************************************)
(* Inputs of DriverLifecycle for TLC.                                      *)
(***************************************************************************)
EXTENDS DriverLifecycle

Line(kind, long, op) == [kind |-> kind, long |-> long, opcode |-> op]
\* Listings that are empty, that fit with lines of no interest, and too long.
ListingsOfAllSizes ==
  {<<>>,
   <<Line("other", FALSE, 0), Line("P", FALSE, 1), Line("P", TRUE, 2), Line("P", FALSE, 3)>>,
   <<Line("P", FALSE, 4), Line("P", FALSE, 5), Line("other", TRUE, 0), Line("P", FALSE, 6)>>}
=============================================================================
