------------------------- MODULE MCPlaybackOffset -------------------------
(***************************************************************************)
(* 8 bit mono, 16 bit stereo and mono ADPCM, buffers that end in a block   *)
(* and at one, offsets at and beyond the ends.                             *)
(***************************************************************************)
EXTENDS PlaybackOffset

ThreeBlocks == {1, 4, 36}
SomeSizes   == {3, 16, 74}
SomeOffsets == {0, 3, 4, 15, 72, 144}
=============================================================================
