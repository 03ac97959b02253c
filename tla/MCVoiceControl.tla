--------------------------- MODULE MCVoiceControl ---------------------------
\* Small instances of VoiceControl for TLC.
EXTENDS VoiceControl, TLC
CONSTANTS v1, v2, b1, b2
OneVoice   == {v1}
TwoVoices  == {v1, v2}
OneBuffer  == {b1}
TwoBuffers == {b1, b2}
AllCalls   == {"Create", "SetFormat", "Start", "Release", "Stop", "Pause",
               "Destroy"}
ClassCalls == {"Create", "SetFormat", "Start", "Stop", "Destroy"}
SymVoices  == Permutations(TwoVoices)
=============================================================================
