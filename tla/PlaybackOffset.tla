--------------------------- MODULE PlaybackOffset ---------------------------
(***************************************************************************)
(* nxAudioVoiceGetPlaybackOffset and nxAudioVoiceSetPlaybackOffset         *)
(* (audio_voice.c) on a voice that is started, paused, released and        *)
(* stopped, and that the voice processor advances while the call waits for *)
(* it.  The processor's position is a number of blocks; a block is one     *)
(* sample of every channel, or 36 bytes a channel of ADPCM.                *)
(*                                                                         *)
(* The call tests the state once, reads NEW_VOICE in a loop without a      *)
(* limit, then the end of the buffer, and writes the position afterwards:  *)
(* the voice may move on, start over or end between any two of these       *)
(* steps.  VOICE_ON sets NEW_VOICE; the driver never clears it.  Only the  *)
(* voice processor does, when it takes the voice up: at the latest in the  *)
(* next frame if the voice is on and not paused.  Whether it takes up a    *)
(* voice that was paused or turned off before is not said anywhere: here   *)
(* it may, or it may never.                                                *)
(***************************************************************************)
EXTENDS Integers

CONSTANTS
  Blocks,     \* sizes of a block in bytes, of the formats in use
  Sizes,      \* sizes of buffers in bytes
  Offsets     \* arguments of nxAudioVoiceSetPlaybackOffset

ASSUME OffsetsAssumption ==
  /\ Blocks \subseteq Nat \ {0} /\ Sizes \subseteq Nat /\ Offsets \subseteq Nat

VARIABLES
  block,      \* bytes per block of voice->format
  streaming, looping, hasBuffer,
  ebo, cbo,   \* par_next.EBO, par_offset.CBO
  state,      \* nxAudioVoice.state
  active, paused,  \* what the VP was told: VOICE_ON and _OFF, VOICE_PAUSE
  fresh,      \* par_state.NEW_VOICE
  step, target  \* the call in progress and its block_offset

setup   == <<block, streaming, looping, hasBuffer, ebo>>
play    == <<state, active, paused, fresh>>
request == <<step, target>>
offsetVars == <<setup, cbo, play, request>>

States == {"STOPPED", "PLAYING", "PAUSED", "STOPPING"}
bytes_to_blocks(bytes) == bytes \div block

OffsetInit ==
  /\ block \in Blocks
  /\ streaming = FALSE /\ looping \in BOOLEAN /\ hasBuffer = FALSE
  /\ ebo = 0 /\ cbo = 0
  /\ state = "STOPPED" /\ active = FALSE /\ paused = FALSE /\ fresh = FALSE
  /\ step = "idle" /\ target = 0

\* The calls are those of one thread: none is made while another is under way.
Idle == step = "idle"

\* nxAudioVoiceSetFormat leaves a buffer already submitted as it is.
VoiceSetFormat(b) ==
  /\ Idle /\ state = "STOPPED" /\ block' = b
  /\ UNCHANGED <<streaming, looping, hasBuffer, ebo, cbo, play, request>>

\* nxAudioBufferSubmit.  A buffer of no block, or one for which there are no
\* entries, changes no register; the slots are emptied if they held a buffer
\* submitted before.
BufferSubmit(bytes) ==
  LET total == bytes_to_blocks(bytes)
  IN /\ Idle /\ state = "STOPPED"
     /\ streaming' = FALSE
     /\ \/ hasBuffer' \in {hasBuffer, FALSE} /\ UNCHANGED <<ebo, cbo>>
        \/ total > 0 /\ hasBuffer' = TRUE /\ ebo' = total - 1 /\ cbo' = 0
     /\ UNCHANGED <<block, looping, play, request>>

\* nxAudioBufferQueue: from here on the voice plays its SSLs, which apu_dpc
\* takes from it as they are played.
BufferQueue ==
  /\ Idle /\ (streaming \/ state \in {"STOPPED", "STOPPING"})
  /\ streaming' = TRUE /\ hasBuffer' = TRUE
  /\ UNCHANGED <<block, looping, ebo, cbo, play, request>>
BuffersPlayed ==
  /\ streaming /\ hasBuffer' = FALSE
  /\ UNCHANGED <<block, streaming, looping, ebo, cbo, play, request>>

\* nxAudioVoiceStart: a paused voice goes on, a stopped one is set up anew.
Unpause ==
  /\ Idle /\ hasBuffer /\ state = "PAUSED"
  /\ state' = "PLAYING" /\ paused' = FALSE
  /\ UNCHANGED <<setup, cbo, active, fresh, request>>
VoiceStart ==
  /\ Idle /\ hasBuffer /\ state = "STOPPED"
  /\ state' = "PLAYING" /\ active' = TRUE /\ paused' = FALSE /\ fresh' = TRUE
  /\ UNCHANGED <<setup, cbo, request>>

VoiceRelease ==
  /\ Idle /\ state = "PLAYING" /\ state' = "STOPPING"
  /\ UNCHANGED <<setup, cbo, active, paused, fresh, request>>
VoiceStop ==
  /\ Idle /\ state # "STOPPED" /\ state' = "STOPPING" /\ active' = FALSE
  /\ UNCHANGED <<setup, cbo, paused, fresh, request>>
VoicePause ==
  /\ Idle /\ state # "STOPPED" /\ state' = "PAUSED" /\ paused' = TRUE
  /\ UNCHANGED <<setup, cbo, active, fresh, request>>

(***************************************************************************)
(* The voice processor: it takes up a new voice, plays a block, starts     *)
(* over or ends; and apu_dpc, which retires a voice that went off.         *)
(***************************************************************************)
TakeUp ==
  /\ fresh /\ fresh' = FALSE
  /\ UNCHANGED <<setup, cbo, state, active, paused, request>>
Runs == active /\ ~paused
PlayBlock ==
  /\ Runs /\ ~fresh /\ ~streaming
  /\ IF cbo < ebo THEN cbo' = cbo + 1 /\ UNCHANGED active
     ELSE IF looping THEN cbo' = 0 /\ UNCHANGED active
     ELSE active' = FALSE /\ UNCHANGED cbo
  /\ UNCHANGED <<setup, state, paused, fresh, request>>
\* A stream without buffers, or the end of an envelope.
VoiceEnds ==
  /\ Runs /\ ~fresh /\ active' = FALSE
  /\ UNCHANGED <<setup, cbo, state, paused, fresh, request>>
Retire ==
  /\ ~active /\ state # "STOPPED" /\ state' = "STOPPED"
  /\ UNCHANGED <<setup, cbo, active, paused, fresh, request>>

(***************************************************************************)
(* nxAudioVoiceSetPlaybackOffset.                                          *)
(***************************************************************************)
SetOffsetCall(bytes) ==
  /\ Idle /\ ~streaming
  /\ target' = bytes_to_blocks(bytes)
  /\ step' = IF state # "STOPPED" THEN "wait" ELSE "check"
  /\ UNCHANGED <<setup, cbo, play>>
\* while (par_state & NEW_VOICE)
MayGoOnEnded == ~fresh /\ ~Runs
MayGoOn == ~fresh
Waited ==
  /\ step = "wait" /\ MayGoOn /\ step' = "check"
  /\ UNCHANGED <<setup, cbo, play, target>>
WithinAlmost == target <= ebo + 1
Within == target <= ebo
Check ==
  /\ step = "check" /\ step' = (IF Within THEN "write" ELSE "idle")
  /\ UNCHANGED <<setup, cbo, play, target>>
WriteCbo ==
  /\ step = "write" /\ cbo' = target /\ step' = "idle"
  /\ UNCHANGED <<setup, play, target>>

OffsetNext ==
  \/ \E b \in Blocks : VoiceSetFormat(b)
  \/ \E n \in Sizes : BufferSubmit(n)
  \/ BufferQueue \/ BuffersPlayed
  \/ Unpause \/ VoiceStart \/ VoiceRelease \/ VoiceStop \/ VoicePause
  \/ TakeUp \/ PlayBlock \/ VoiceEnds \/ Retire
  \/ \E n \in Offsets : SetOffsetCall(n)
  \/ Waited \/ Check \/ WriteCbo

OffsetSpec == OffsetInit /\ [][OffsetNext]_offsetVars

\* The voice processor goes over its lists in every frame and takes up the new
\* voices that are to run; the thread in the call keeps running.
FairSpec ==
  /\ OffsetSpec
  /\ WF_offsetVars(Runs /\ TakeUp)
  /\ WF_offsetVars(Waited) /\ WF_offsetVars(Check \/ WriteCbo)

-----------------------------------------------------------------------------
\* What nxAudioVoiceGetPlaybackOffset returns.
GetPlaybackOffset == cbo

\* The positions are positions, a stopped voice is off and a call waits only
\* after it has begun.
Positions ==
  /\ block \in Blocks /\ ebo \in Nat /\ cbo \in Nat /\ target \in Nat
  /\ step \in {"idle", "wait", "check", "write"}
Flags ==
  /\ streaming \in BOOLEAN /\ looping \in BOOLEAN /\ hasBuffer \in BOOLEAN
  /\ active \in BOOLEAN /\ paused \in BOOLEAN /\ fresh \in BOOLEAN
  /\ state \in States /\ (state = "STOPPED" => active = FALSE)
OffsetTypeOK == Positions /\ Flags

\* However the end of the voice, its restarts and the call interleave, the
\* voice is never placed behind the end of its buffer.
OffsetInBuffer == cbo <= ebo

\* nxAudioVoiceSetPlaybackOffset returns (audio_voice.c:773-778), for a voice in
\* any state, one that loops for ever too.  The only wait without an end is for
\* a voice that was paused, or stopped, before the VP had taken it up, by a VP
\* that never takes up such a voice.
LeftNew == fresh /\ ~Runs
SetOffsetReturns == step = "wait" ~> (step = "idle" \/ []LeftNew)

\* nxaudio.h:418-420: the playback offset is in bytes.
OffsetInBytes ==
  state = "PLAYING" /\ ~streaming => GetPlaybackOffset = cbo * block
=============================================================================
