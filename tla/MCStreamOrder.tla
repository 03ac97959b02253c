--------------------------- MODULE MCStreamOrder ---------------------------
(***************************************************************************)
(* The wave file of the runs has three chunks, one more than there are     *)
(* buffers, so that each buffer holds each chunk in turn.                  *)
(***************************************************************************)
EXTENDS StreamOrder

MCChunks == 3
=============================================================================
