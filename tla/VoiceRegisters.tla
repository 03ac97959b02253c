--------------------------- MODULE VoiceRegisters ---------------------------
(***************************************************************************)
(* The register image of the voices (audio_voice.c) and the PIO front end  *)
(* every write goes through (audio_core.c, audio_internal.h).              *)
(*                                                                         *)
(* A setter computes its words into the nxAudioVoice, waits for room in    *)
(* the PIO FIFO and then issues a series of writes: SET_CURRENT_VOICE,     *)
(* VOICE_LOCK 1, the registers, VOICE_LOCK 0.  The front end has one       *)
(* current voice for the whole machine.  Setters run at PASSIVE_LEVEL, so  *)
(* apu_dpc, and the callback it makes, may run between any two writes; the *)
(* calls that raise themselves to DISPATCH_LEVEL issue theirs in one go.   *)
(*                                                                         *)
(* A word is the tuple of settings packed in it; VoiceParameters models    *)
(* the packing.  When calls may be made is the matter of VoiceControl;     *)
(* here a voice is stopped, playing or stopping.                           *)
(***************************************************************************)
EXTENDS Integers, Sequences, FiniteSets

CONSTANTS
  Voices,          \* nxAudioVoice objects
  Applications,    \* what applications may do: records, see app
  NumHw, Max3D,    \* MCPX_HW_MAX_VOICES, MCPX_HW_MAX_3D_VOICES
  FifoSize,        \* DWORDs of the PIO FIFO
  Pitches, Gains,  \* values of SetPitch and of the gain setters
  Targets,         \* HRTF entries in use
  Params,          \* envelopes and filter coefficients in use
  Unknown          \* a register nobody has set for its owner

ASSUME SizesAssumption ==
  /\ NumHw \in Nat \ {0} /\ Max3D \in 0 .. NumHw
  /\ FifoSize \in Nat /\ FifoSize >= 18       \* the wait of apu_flush_voice
  /\ 1 \in Pitches /\ 1 \in Gains /\ 0 \notin Pitches
  /\ \A a \in Applications :
       /\ a.voices \subseteq Voices /\ {a.queues, a.quiet} \subseteq BOOLEAN
       /\ \A f \in a.formats : f.is3d \in BOOLEAN

HwVoices == 0 .. NumHw - 1
NoTarget == 65535                \* HRTF_NULL_HANDLE, NX_AUDIO_HRTF_NONE
Zero     == 0                    \* a field that memset has cleared
Knobs    == {"master", "channel", "hrtf"}

\* The words of a voice, in the order apu_flush_voice writes them.
FlushOrder ==
  <<"CFG_FMT", "CFG_MISC", "CFG_ENV0", "CFG_ENVA", "CFG_ENV1", "CFG_ENVF",
    "LFO_ENV", "TAR_FCA", "TAR_FCB", "CFG_VBIN", "TAR_VOLA", "TAR_VOLB",
    "TAR_VOLC", "TAR_PITCH", "TAR_HRTF">>
Words == {FlushOrder[k] : k \in DOMAIN FlushOrder}
\* The fields a word packs: those of the settings, or the zeros of memset.
Formats == UNION {a.formats : a \in Applications}
Rates   == {f.rate : f \in Formats} \cup {Zero}
Levels  == Gains \cup {Zero}
BinSets == {"0", "2D", "HRTF"}
Values(r) ==
  CASE r = "CFG_FMT" -> [rate : Rates, stream : BOOLEAN, bins : BinSets,
                         persist : BOOLEAN, loop : BOOLEAN]
    [] r = "CFG_MISC" -> [release : Params \cup {Zero}, mode : Params \cup {Zero}]
    [] r = "CFG_VBIN" -> BinSets
    [] r \in {"TAR_VOLA", "TAR_VOLB", "TAR_VOLC"} -> BinSets \X Levels \X Levels
    [] r = "TAR_PITCH" -> Rates \X (Pitches \cup {Zero})
    [] r = "TAR_HRTF" -> Targets \cup {NoTarget, Zero}
    [] OTHER -> Params \cup {Zero}
ASSUME UnknownAssumption == \A r \in Words : Unknown \notin Values(r)

\* What the voice reads its samples through: the SSLs or the buffer base.
Registers == Words \cup {"DATA"}

VARIABLES
  app,                  \* the application; no step changes it.  voices: those it
                        \* creates; formats: records [rate, is3d] it uses; calls:
                        \* the entry points it uses (see Next); queues: its
                        \* callback calls nxAudioBufferQueue; quiet: it makes
                        \* calls that do not raise while no voice runs
  live, state, index,   \* created voices, nxAudioVoice.state, voice_index
  holds,                \* voices with an entry in buffers_hardware
  asked,                \* the settings of the application's accepted calls
  word,                 \* the local copies of the hardware words
  free,                 \* g_voice_allocation_mask
  current, locked,      \* SET_CURRENT_VOICE; the voices under VOICE_LOCK
  image,                \* the voice registers of the hardware
  room,                 \* DWORDs of the FIFO the driver may count on
  todo,                 \* what the call in progress still has to write
  raised                \* the call in progress has raised its IRQL

vars == <<app, live, state, index, holds, asked, word, free, current, locked, image,
          room, todo, raised>>

\* The words as the settings in s make them.
Bins(target) == IF target = NoTarget THEN "2D" ELSE "HRTF"
Volumes(s) == <<Bins(s.target), s.gain["master"],
                s.gain[IF s.target = NoTarget THEN "channel" ELSE "hrtf"]>>
Pitch(s) == <<s.format.rate, s.pitch>>

\* Parts of a call: apu_wait_for_pio, writes of the words rs of w, a group of
\* writes between SET_CURRENT_VOICE, VOICE_LOCK 1 and VOICE_LOCK 0.
Wait(n)        == <<"WAIT", n>>
WordsOf(rs, w) == [k \in DOMAIN rs |-> <<rs[k], w[rs[k]]>>]
LockedGroup(i, writes) ==
  <<<<"CURRENT", i>>, <<"LOCK", TRUE>>>> \o writes \o <<<<"LOCK", FALSE>>>>
Bracket(i, writes) == <<Wait(Len(writes) + 3)>> \o LockedGroup(i, writes)

\* apu_flush_voice: every word, and two registers of unknown use, unlocked.
Flush(i, w) ==
  <<Wait(18), <<"CURRENT", i>>, <<"0x350", Zero>>, <<"0x370", Zero>>>>
  \o WordsOf(FlushOrder, w)

Init ==
  /\ app \in Applications
  /\ live = {}
  /\ state = [v \in Voices |-> "STOPPED"]
  /\ index = [v \in Voices |-> 0]
  /\ holds = {}
  /\ asked = [v \in Voices |-> Unknown]
  /\ word = [v \in Voices |-> Unknown]
  /\ free = HwVoices
  /\ current = 0 /\ locked = {}
  /\ image = [i \in HwVoices |-> [r \in Registers |-> Unknown]]
  /\ room = FifoSize
  /\ todo = <<>> /\ raised = FALSE

(***************************************************************************)
(* The calls.  Each computes its settings and words, and leaves its writes *)
(* in todo.                                                                *)
(***************************************************************************)
Allocatable(is3d) ==
  {i \in free : (i < Max3D) = is3d /\ \A j \in free :
                   (j < Max3D) = is3d => i <= j}

\* A freed index no longer has an owner who wants something of its registers.
Forget(im, i) == [im EXCEPT ![i] = [r \in Registers |-> Unknown]]

\* The setters' new words, from the settings s already changed and the words w.
FormatWords(s, w) ==
  [w EXCEPT !["CFG_FMT"].rate = s.format.rate,
            !["CFG_FMT"].stream = s.streaming, !["TAR_PITCH"] = Pitch(s)]
VolumeWords(s, w) ==
  [w EXCEPT !["TAR_VOLA"] = Volumes(s), !["TAR_VOLB"] = Volumes(s),
            !["TAR_VOLC"] = Volumes(s)]
TargetDirtyOneWay(old, t) == old = NoTarget /\ t # NoTarget
TargetDirty(old, t) == (old = NoTarget) # (t = NoTarget)
TargetWords(s, w, dirty) ==
  LET h == [w EXCEPT !["TAR_HRTF"] = s.target]
  IN IF dirty THEN VolumeWords(s, [h EXCEPT !["CFG_VBIN"] = Bins(s.target),
                                            !["CFG_FMT"].bins = Bins(s.target)])
              ELSE h

FormatWrites(i, w) == Bracket(i, WordsOf(<<"CFG_FMT", "TAR_PITCH">>, w))
VolumeWrites(i, w) ==
  Bracket(i, WordsOf(<<"TAR_VOLA", "TAR_VOLB", "TAR_VOLC">>, w))
PitchWrites(i, s) == Bracket(i, <<<<"TAR_PITCH", Pitch(s)>>>>)
TargetWritesOneWait(i, w, dirty) ==
  <<Wait(4), <<"CURRENT", i>>, <<"LOCK", TRUE>>, <<"TAR_HRTF", w["TAR_HRTF"]>>>>
  \o (IF dirty THEN WordsOf(<<"CFG_VBIN", "CFG_FMT",
                      "TAR_VOLA", "TAR_VOLB", "TAR_VOLC">>, w) ELSE <<>>)
  \o <<<<"LOCK", FALSE>>>>
TargetWrites(i, w, dirty) ==
  <<Wait(3), <<"CURRENT", i>>, <<"LOCK", TRUE>>, <<"TAR_HRTF", w["TAR_HRTF"]>>>>
  \o (IF dirty THEN <<Wait(5)>> \o WordsOf(<<"CFG_VBIN", "CFG_FMT",
                      "TAR_VOLA", "TAR_VOLB", "TAR_VOLC">>, w) ELSE <<>>)
  \o <<Wait(1), <<"LOCK", FALSE>>>>

\* A call of v that leaves settings s, words w and the writes ws.
Leaves(v, s, w, ws) ==
  /\ asked' = [asked EXCEPT ![v] = s]
  /\ word' = [word EXCEPT ![v] = w]
  /\ todo' = ws
  /\ UNCHANGED <<current, locked, room>>
Setter(v, s, w, ws) ==
  /\ Leaves(v, s, w, ws)
  /\ UNCHANGED <<live, state, index, holds, free, image, raised>>
Stopped(v) == state[v] = "STOPPED"

\* The cleared structure (target 0 is an entry, not HRTF_NULL_HANDLE), and the
\* settings nxAudioVoiceCreate makes one after the other.
Cleared(f) ==
  [format |-> f, pitch |-> Zero, looping |-> FALSE, streaming |-> FALSE,
   target |-> Zero, gain |-> [k \in Knobs |-> Zero],
   amplitude |-> Zero, filter |-> Zero, coefficients |-> Zero]
ClearedWords ==
  [r \in Words |->
     CASE r = "CFG_FMT" -> [rate |-> Zero, stream |-> FALSE, bins |-> "0",
                            persist |-> FALSE, loop |-> FALSE]
       [] r = "CFG_MISC" -> [release |-> Zero, mode |-> Zero]
       [] r = "CFG_VBIN" -> "0"
       [] r \in {"TAR_VOLA", "TAR_VOLB", "TAR_VOLC"} -> <<"0", Zero, Zero>>
       [] r = "TAR_PITCH" -> <<Zero, Zero>>
       [] OTHER -> Zero]

VoiceCreate(v, f) ==
  /\ v \notin live /\ Allocatable(f.is3d) # {}
  /\ LET i  == CHOOSE k \in Allocatable(f.is3d) : TRUE
         s0 == Cleared(f)
         w1 == FormatWords(s0, ClearedWords)
         s2 == [s0 EXCEPT !.target = NoTarget]
         w2 == TargetWords(s2, w1, TRUE)
         s3 == [s2 EXCEPT !.gain["master"] = 1]
         s4 == [s3 EXCEPT !.gain["channel"] = 1]
         s5 == [s4 EXCEPT !.gain["hrtf"] = 1]
         s6 == [s5 EXCEPT !.pitch = 1]
     IN /\ index' = [index EXCEPT ![v] = i]
        /\ free' = free \ {i}
        /\ Leaves(v, s6, VolumeWords(s5, w2),
             Flush(i, ClearedWords) \o FormatWrites(i, w1)
             \o TargetWrites(i, w2, TRUE)
             \o VolumeWrites(i, VolumeWords(s3, w2))
             \o VolumeWrites(i, VolumeWords(s4, w2))
             \o VolumeWrites(i, VolumeWords(s5, w2))
             \o PitchWrites(i, s6))
  /\ live' = live \cup {v}
  /\ state' = [state EXCEPT ![v] = "STOPPED"]
  /\ holds' = holds \ {v}
  /\ UNCHANGED <<image, raised>>

\* A change of class takes the lowest free index of the other class, gives the
\* old one back and flushes every word to the new one.
VoiceSetFormat(v, f) ==
  LET swap == f.is3d # (index[v] < Max3D)
      s    == [asked[v] EXCEPT !.format = f]
      w    == FormatWords(s, word[v])
  IN /\ Stopped(v)
     /\ \/ /\ ~swap
           /\ Leaves(v, s, w, FormatWrites(index[v], w))
           /\ UNCHANGED <<index, free, image>>
        \/ /\ swap
           /\ \E i \in Allocatable(f.is3d) :
                /\ Leaves(v, s, w, Flush(i, word[v]) \o FormatWrites(i, w))
                /\ index' = [index EXCEPT ![v] = i]
                /\ free' = (free \ {i}) \cup {index[v]}
           /\ image' = Forget(image, index[v])
     /\ UNCHANGED <<live, state, holds, raised>>

\* voice->tar_pitch_link is left alone.
VoiceSetPitch(v, p) ==
  LET s == [asked[v] EXCEPT !.pitch = p]
  IN Setter(v, s, word[v], PitchWrites(index[v], s))

\* SetMasterGain, SetChannelGain and SetHRTFGain.
VoiceSetGain(v, k, g) ==
  LET s == [asked[v] EXCEPT !.gain[k] = g]
      w == VolumeWords(s, word[v])
  IN /\ asked[v].gain[k] # g
     /\ Setter(v, s, w, VolumeWrites(index[v], w))

VoiceSetHRTFTarget(v, t) ==
  LET s == [asked[v] EXCEPT !.target = t]
      d == TargetDirty(asked[v].target, t)
      w == TargetWords(s, word[v], d)
  IN Setter(v, s, w, TargetWrites(index[v], w, d))

VoiceSetLooping(v, b) ==
  LET w == [word[v] EXCEPT !["CFG_FMT"].loop = b]
  IN /\ ~(asked[v].streaming /\ b)
     /\ Setter(v, [asked[v] EXCEPT !.looping = b], w,
               Bracket(index[v], WordsOf(<<"CFG_FMT">>, w)))

\* The envelope calls with an envelope e; with NULL they write no register.
VoiceSetAmplitudeEnvelope(v, e) ==
  LET w == [word[v] EXCEPT !["CFG_ENV0"] = e, !["CFG_ENVA"] = e,
                           !["LFO_ENV"] = e]
  IN /\ Stopped(v)
     /\ Setter(v, [asked[v] EXCEPT !.amplitude = e], w,
          Bracket(index[v], WordsOf(<<"CFG_ENV0", "CFG_ENVA", "LFO_ENV">>, w)))

VoiceSetFilterEnvelope(v, e) ==
  LET w == [word[v] EXCEPT !["CFG_ENV1"] = e, !["CFG_ENVF"] = e,
                           !["CFG_MISC"].release = e]
  IN /\ Stopped(v)
     /\ Setter(v, [asked[v] EXCEPT !.filter = e], w,
          Bracket(index[v], WordsOf(<<"CFG_ENV1", "CFG_ENVF", "CFG_MISC">>, w)))

VoiceSetFilterCoefficients(v, c) ==
  LET w == [word[v] EXCEPT !["TAR_FCA"] = c, !["TAR_FCB"] = c,
                           !["CFG_MISC"].mode = c]
  IN /\ Stopped(v)
     /\ Setter(v, [asked[v] EXCEPT !.coefficients = c], w,
          Bracket(index[v], WordsOf(<<"TAR_FCA", "TAR_FCB", "CFG_MISC">>, w)))

(***************************************************************************)
(* Buffers, start and stop: the calls that raise, and Submit, which does   *)
(* not.  accepted is FALSE when no slot, page or entry is left.            *)
(***************************************************************************)
Raised(v, s, w, ws) ==
  /\ Leaves(v, s, w, ws)
  /\ raised' = TRUE
  /\ UNCHANGED <<live, index, free, image>>
FmtBracket(v, w) == Bracket(index[v], WordsOf(<<"CFG_FMT">>, w))

QueueWords(v) == [word[v] EXCEPT !["CFG_FMT"].stream = TRUE]
BufferQueue(v, accepted) ==
  LET w == QueueWords(v)
  IN /\ asked[v].streaming \/ state[v] # "PLAYING"
     /\ Raised(v, [asked[v] EXCEPT !.streaming = TRUE], w,
          FmtBracket(v, w) \o IF accepted
            THEN <<Wait(3), <<"CURRENT_SSL", Zero>>, <<"SEGMENT_OFFSET", Zero>>,
                   <<"SEGMENT_LENGTH", Zero>>,
                   Wait(2), <<"CURRENT", index[v]>>, <<"DATA", <<v, TRUE>>>>>>
            ELSE <<>>)
     /\ holds' = IF accepted THEN holds \cup {v} ELSE holds
     /\ UNCHANGED state

BufferSubmit(v, accepted) ==
  LET w == [word[v] EXCEPT !["CFG_FMT"].stream = FALSE]
  IN /\ Stopped(v)
     /\ holds' = IF accepted THEN holds \cup {v} ELSE holds \ {v}
     /\ UNCHANGED <<live, state, index, free, image, raised>>
     /\ Leaves(v, [asked[v] EXCEPT !.streaming = FALSE], w,
          FmtBracket(v, w) \o IF accepted
            THEN <<Wait(2), <<"INBUF_SGE", Zero>>, <<"INBUF_SGE_OFFSET", Zero>>>>
                 \o Bracket(index[v],
                      <<<<"DATA", <<v, FALSE>>>>, <<"BUF_LBO", Zero>>,
                        <<"BUF_CBO", Zero>>, <<"BUF_EBO", Zero>>>>)
            ELSE <<>>)

MayStartEmpty(v) == Stopped(v)
MayStart(v) == Stopped(v) /\ v \in holds
VoiceStart(v) ==
  LET s == asked[v]
      w == [word[v] EXCEPT !["CFG_FMT"].persist = s.streaming,
                           !["CFG_FMT"].loop = s.looping]
  IN /\ MayStart(v)
     /\ UNCHANGED holds
     /\ Raised(v, s, w,
          <<Wait(7)>> \o LockedGroup(index[v],
             WordsOf(<<"CFG_FMT">>, w) \o <<<<"ANTECEDENT_VOICE", Zero>>,
               <<"VOICE_ON", index[v]>>, <<"VOICE_PAUSE", index[v]>>>>))
     /\ state' = [state EXCEPT ![v] = "PLAYING"]

VoiceRelease(v) ==
  LET w == [word[v] EXCEPT !["CFG_FMT"].persist = FALSE]
  IN /\ state[v] = "PLAYING"
     /\ UNCHANGED holds
     /\ Raised(v, asked[v], w, <<Wait(5)>> \o Tail(FmtBracket(v, w))
                               \o <<<<"VOICE_RELEASE", index[v]>>>>)
     /\ state' = [state EXCEPT ![v] = "STOPPING"]

VoiceStop(v) ==
  LET w == [word[v] EXCEPT !["CFG_FMT"].persist = FALSE,
                           !["CFG_FMT"].loop = FALSE]
  IN /\ ~Stopped(v)
     /\ UNCHANGED holds
     /\ Raised(v, asked[v], w, <<Wait(5)>> \o Tail(FmtBracket(v, w))
                               \o <<<<"VOICE_OFF", index[v]>>>>)
     /\ state' = [state EXCEPT ![v] = "STOPPING"]

SlotsCleared(v) == holds \ {v}
\* nxAudioVoiceDestroy of a voice that has stopped.
VoiceDestroy(v) ==
  /\ Stopped(v)
  /\ live' = live \ {v}
  /\ holds' = SlotsCleared(v)
  /\ free' = free \cup {index[v]}
  /\ image' = Forget(image, index[v])
  /\ UNCHANGED <<state, index, asked, word, current, locked, room, todo, raised>>

(***************************************************************************)
(* One write, or one wait, of the call in progress; apu_dpc.               *)
(***************************************************************************)
Step ==
  LET name == Head(todo)[1]
      val  == Head(todo)[2]
  IN /\ todo # <<>>
     /\ todo' = Tail(todo)
     /\ room' = IF name = "WAIT" THEN val ELSE room - 1
     /\ current' = IF name = "CURRENT" THEN val ELSE current
     /\ locked' = IF name # "LOCK" THEN locked
                  ELSE IF val THEN locked \cup {current} ELSE locked \ {current}
     /\ image' = IF name \in Registers THEN [image EXCEPT ![current][name] = val]
                 ELSE image
     /\ raised' = (raised /\ Tail(todo) # <<>>)
     /\ UNCHANGED <<live, state, index, holds, asked, word, free>>

\* The callback of a streaming voice queues its next buffer: the writes of
\* BufferQueue, with nothing of the application in between.
DpcCallback(v) ==
  /\ app.queues /\ ~raised
  /\ v \in live /\ ~Stopped(v) /\ asked[v].streaming
  /\ current' = index[v]
  /\ locked' = locked \ {index[v]}
  /\ word' = [word EXCEPT ![v] = QueueWords(v)]
  /\ image' = [image EXCEPT ![index[v]]["CFG_FMT"] = QueueWords(v)["CFG_FMT"],
                            ![index[v]]["DATA"] = <<v, TRUE>>]
  /\ room' = 0                       \* it waits for no more than it writes
  /\ UNCHANGED <<live, state, index, holds, asked, free, todo, raised>>

\* apu_dpc retires a voice that went idle; a streaming voice whose last buffer
\* completed has given it up, a static one keeps its buffer.
DpcRetire(v) ==
  /\ ~raised /\ v \in live /\ ~Stopped(v)
  /\ state' = [state EXCEPT ![v] = "STOPPED"]
  /\ holds' \in {holds} \cup {holds \ {w \in {v} : asked[w].streaming}}
  /\ UNCHANGED <<live, index, asked, word, free, current, locked, image, room,
                 todo, raised>>

Call(name) == name \in app.calls /\ todo = <<>>
Passive(name) == Call(name) /\ (app.quiet => \A v \in live : Stopped(v))
Next ==
  /\ \/ \E v \in app.voices, f \in app.formats : Passive("Create") /\ VoiceCreate(v, f)
     \/ \E v \in live, f \in app.formats : Passive("SetFormat") /\ VoiceSetFormat(v, f)
     \/ \E v \in live, p \in Pitches : Passive("SetPitch") /\ VoiceSetPitch(v, p)
     \/ \E v \in live, k \in Knobs, g \in Gains :
           Passive("SetGain") /\ VoiceSetGain(v, k, g)
     \/ \E v \in live, t \in Targets \cup {NoTarget} :
           Passive("SetTarget") /\ VoiceSetHRTFTarget(v, t)
     \/ \E v \in live, b \in BOOLEAN : Passive("SetLooping") /\ VoiceSetLooping(v, b)
     \/ \E v \in live, e \in Params :
           Passive("Amplitude") /\ VoiceSetAmplitudeEnvelope(v, e)
     \/ \E v \in live, e \in Params : Passive("Filter") /\ VoiceSetFilterEnvelope(v, e)
     \/ \E v \in live, c \in Params :
           Passive("Coefficients") /\ VoiceSetFilterCoefficients(v, c)
     \/ \E v \in live, b \in BOOLEAN : Call("Queue") /\ BufferQueue(v, b)
     \/ \E v \in live, b \in BOOLEAN : Passive("Submit") /\ BufferSubmit(v, b)
     \/ \E v \in live : Call("Start") /\ VoiceStart(v)
     \/ \E v \in live : Call("Release") /\ VoiceRelease(v)
     \/ \E v \in live : Call("Stop") /\ VoiceStop(v)
     \/ \E v \in live : Call("Destroy") /\ VoiceDestroy(v)
     \/ Step
     \/ \E v \in Voices : DpcCallback(v)
     \/ \E v \in Voices : DpcRetire(v)
  /\ UNCHANGED app
Spec == Init /\ [][Next]_vars

-----------------------------------------------------------------------------
TypeOK ==
  /\ app \in Applications /\ live \subseteq app.voices
  /\ holds \subseteq live
  /\ state \in [Voices -> {"STOPPED", "PLAYING", "STOPPING"}]
  /\ index \in [Voices -> HwVoices]
  /\ free \subseteq HwVoices /\ current \in HwVoices
  /\ locked \subseteq HwVoices
  /\ room \in -1 .. FifoSize /\ raised \in BOOLEAN

\* What the settings of v ask of its register r, when its register file is im.
\* Loop and persistence are asked for by Start; an envelope or a filter that
\* was never set asks for nothing.
AskedFor(v, r, im) ==
  LET s == asked[v]
      Of(setting, x) == setting = Zero \/ x = setting
  IN CASE r = "CFG_FMT" ->
            /\ im.rate = s.format.rate /\ im.stream = s.streaming
            /\ im.bins = Bins(s.target)
            /\ state[v] = "PLAYING" => /\ im.loop = s.looping
                                       /\ im.persist = s.streaming
       [] r = "CFG_MISC" -> /\ Of(s.filter, im.release)
                            /\ Of(s.coefficients, im.mode)
       [] r \in {"CFG_ENV0", "CFG_ENVA", "LFO_ENV"} -> Of(s.amplitude, im)
       [] r \in {"CFG_ENV1", "CFG_ENVF"} -> Of(s.filter, im)
       [] r \in {"TAR_FCA", "TAR_FCB"} -> Of(s.coefficients, im)
       [] r = "CFG_VBIN" -> im = Bins(s.target)
       [] r \in {"TAR_VOLA", "TAR_VOLB", "TAR_VOLC"} -> im = Volumes(s)
       [] r = "TAR_PITCH" -> im = Pitch(s)
       [] r = "TAR_HRTF" -> im = s.target

\* Between calls, the registers at the index of a created voice hold what the
\* application's accepted calls asked for, whatever order it made them in and
\* whichever indices its voices have moved through: apu_flush_voice and the
\* setters leave nothing behind, at another index or only in the local copy.
HardwareFollowsCalls ==
  todo = <<>> => \A v \in live : \A r \in Words :
                    image[index[v]][r] # Unknown /\ AskedFor(v, r, image[index[v]][r])

\* Between calls no voice is left under VOICE_LOCK: each call unlocks the
\* voice it locked.
NoneLeftLocked == todo = <<>> => locked = {}

\* No write is issued into a FIFO that may be full: every write comes after an
\* apu_wait_for_pio that has counted it.
RoomForEveryWrite ==
  todo # <<>> /\ Head(todo)[1] # "WAIT" => room > 0

\* A voice that plays reads its samples through its own buffer: the SSLs or
\* the buffer base at its index are those of its last Queue or Submit.  So it is
\* as long as no format changes class, the application keeps to one of the two
\* calls, and setters wait for voices to stop where the callback queues.
OneClass == \A f, g \in app.formats : f.is3d = g.is3d
OneKind  == ~({"Queue", "Submit"} \subseteq app.calls)
QuietWhenQueueing == app.queues => app.quiet
PlaysItsOwnBuffer ==
  QuietWhenQueueing /\ OneClass /\ OneKind =>
    \A v \in live : state[v] = "PLAYING" /\ todo = <<>> =>
       image[index[v]]["DATA"] = <<v, asked[v].streaming>>

\* The register image between calls is that of the calls accepted, and every
\* voice is unlocked.
RegistersSound == TypeOK /\ HardwareFollowsCalls /\ NoneLeftLocked
=============================================================================
