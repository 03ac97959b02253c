---------------------------- MODULE MCVoiceList -----------------------------
(***************************************************************************)
(* Instances of VoiceList for TLC.                                         *)
(***************************************************************************)
EXTENDS VoiceList
=============================================================================
