-------------------------- MODULE MCVoiceRegisters --------------------------
(***************************************************************************)
(* The applications of the run.  Each uses a part of the entry points; the *)
(* last two, one that queues its buffers, from its callback too, and one   *)
(* that submits them, make their setters while no voice runs.              *)
(***************************************************************************)
EXTENDS VoiceRegisters

CONSTANTS v1, v2

Slow   == [rate |-> 22, is3d |-> FALSE]
Moving == [rate |-> 48, is3d |-> TRUE]

Setters     == {"Create", "SetFormat", "SetPitch", "SetGain", "SetTarget",
                "Amplitude", "Filter", "Coefficients"}
PlayCalls   == {"Create", "SetFormat", "SetTarget", "SetLooping", "Queue",
                "Submit", "Start", "Release", "Stop", "Destroy"}
SharedCalls == {"Create", "SetFormat", "SetPitch", "SetTarget", "Destroy"}
QueueCalls  == {"Create", "SetPitch", "Queue", "Start", "Release", "Stop",
                "Destroy"}
SubmitCalls == (QueueCalls \ {"Queue"}) \cup {"Submit"}

App(vs, fs, cs, q) ==
  [voices |-> vs, formats |-> fs, calls |-> cs, queues |-> q, quiet |-> q]
FiveApplications ==
  {App({v1}, {Slow, Moving}, Setters, FALSE),
   App({v1}, {Slow, Moving}, PlayCalls, FALSE),
   App({v1, v2}, {Slow, Moving}, SharedCalls, FALSE),
   App({v1, v2}, {Slow}, QueueCalls, TRUE),
   App({v1, v2}, {Slow}, SubmitCalls, TRUE)}
=============================================================================
