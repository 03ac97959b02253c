-------------------------- MODULE VoiceParameters --------------------------
(***************************************************************************)
(* How the settings of a voice are packed into its hardware words          *)
(* (audio_voice.c): formats, pitch, the volumes of eight slots and the     *)
(* mixbins they feed, two envelopes and a filter, several of them sharing  *)
(* a word.  VoiceRegisters has the order in which words reach the voice    *)
(* processor; here every call completes and "word" is what was last        *)
(* written to each register.  nxAudioVoicePause writes none of them.       *)
(*                                                                         *)
(* A word is the set of its bits that are 1: &= ~mask is \, |= is \cup.    *)
(* Gains are attenuations in 1/64 dB (-20 log10 g), Muted a gain of 0 or   *)
(* less; rates and pitches are 4096 times their base 2 logarithm, rates    *)
(* relative to 48 kHz.                                                     *)
(***************************************************************************)
EXTENDS Integers, FiniteSets, FiniteSetsExt

CONSTANT
  Applications   \* the arguments applications make calls with: records of sets,
                 \*   formats: nxAudioFormat, [rate, channels,
                 \*     bytes_per_sample, adpcm, is3d]
                 \*   pitches, gains, channelGains, hrtfGains
                 \*   targets: HRTF entries
                 \*   envelopes: nxAudioADSR
                 \*   filters: [mode, q, fc], arguments of
                 \*     nxAudioVoiceSetFilterCoefficients

NoTarget == 65535     \* HRTF_NULL_HANDLE, NX_AUDIO_HRTF_NONE
NULL     == [null |-> TRUE]   \* no envelope, no coefficients yet
Muted    == 4095

\* The types of the arguments; nxAudioVoiceSetFormat refuses no channels.
nxAudioFormat == [rate : Int, channels : Nat \ {0}, bytes_per_sample : Nat,
                  adpcm : BOOLEAN, is3d : BOOLEAN]
nxAudioADSR   == [delay : Nat, attack : Nat, hold : Nat, decay : Nat,
                  sustain : Nat, release : Nat]
ChannelGains  == [0 .. 5 -> Int]
HrtfGains     == [front : Int, rear : Int]
int16_t == -(2^15) .. 2^15 - 1
FilterArguments == [mode : 0 .. 3, q : Nat, fc : [1 .. 4 -> int16_t]]

ASSUME ParametersAssumption ==
  \A a \in Applications :
    /\ a.formats # {} /\ a.formats \subseteq nxAudioFormat
    /\ a.gains \cup a.pitches \subseteq Int
    /\ a.channelGains \subseteq ChannelGains /\ a.hrtfGains \subseteq HrtfGains
    /\ a.targets \subseteq 0 .. 127
    /\ a.envelopes \subseteq nxAudioADSR /\ a.filters \subseteq FilterArguments

(***************************************************************************)
(* Fields of the words: lowest bit and width.                              *)
(***************************************************************************)
Fmt == [V6BIN |-> <<0, 5>>, V7BIN |-> <<5, 5>>, HEADROOM |-> <<13, 3>>,
        SAMPLES_PER_BLOCK |-> <<16, 5>>, PERSIST |-> <<23, 1>>,
        DATA_TYPE |-> <<24, 1>>, LOOP |-> <<25, 1>>, STEREO |-> <<27, 1>>,
        SAMPLE_SIZE |-> <<28, 2>>, CONTAINER_SIZE |-> <<30, 2>>]
Vbin == [k \in 0 .. 5 |-> <<5 * k + (IF k < 3 THEN 0 ELSE 1), 5>>]
Env  == [ATTACKRATE |-> <<0, 12>>, DELAYTIME |-> <<12, 12>>,
         DECAYRATE |-> <<0, 12>>, HOLDTIME |-> <<12, 12>>,
         SUSTAINLEVEL |-> <<24, 8>>, RELEASERATE |-> <<0, 12>>]
Misc == [FMODE |-> <<16, 2>>, Q |-> <<18, 3>>, NOTIFY |-> <<23, 1>>]
Low  == <<0, 16>>                 \* FC0, FC2
High == <<16, 16>>                \* FC1, FC3, PITCH
\* Volumes 0..5 lie two to a word; 6 and 7 fill the gaps, four bits a word.
VolWord(k) == <<"TAR_VOLA", "TAR_VOLB", "TAR_VOLC">>[k + 1]
VolEven == <<4, 12>>
VolOdd  == <<20, 12>>
Nibble6 == <<0, 4>>
Nibble7 == <<16, 4>>
On == [ENVF |-> <<24, 4>>, ENVA |-> <<28, 4>>]
EFCUR_DELAY == 1

Mask(f) == f[1] .. f[1] + f[2] - 1
\* APU_MAKE_VALUE: what does not fit the field is cut off.
MAKE_VALUE(f, v) == {b \in Mask(f) : (v \div 2^(b - f[1])) % 2 = 1}
Put(w, f, v) == (w \ Mask(f)) \cup MAKE_VALUE(f, v)
\* What the voice processor reads from a field, of 16 bits at most.
BitAt(w, f, k) == IF k < f[2] /\ f[1] + k \in w THEN 2^k ELSE 0
Get(w, f) ==
  LET at(k) == BitAt(w, f, k)
  IN at(0) + at(1) + at(2) + at(3) + at(4) + at(5) + at(6) + at(7) + at(8) + at(9)
     + at(10) + at(11) + at(12) + at(13) + at(14) + at(15)

WordNames == {"CFG_VBIN", "CFG_FMT", "CFG_ENV0", "CFG_ENVA", "CFG_ENV1",
              "CFG_ENVF", "CFG_MISC", "LFO_ENV", "TAR_VOLA", "TAR_VOLB",
              "TAR_VOLC", "TAR_FCA", "TAR_FCB", "TAR_PITCH", "TAR_HRTF"}

(***************************************************************************)
(* The computations.                                                       *)
(***************************************************************************)
\* 6 dB of headroom, 12 bits.
gain_to_attenuation(gain) ==
  IF gain >= Muted THEN 4095 ELSE Max({0, Min({4095, gain + 6 * 64})})

VolumesUncapped(v) ==
  LET master == gain_to_attenuation(v.master)
  IN [k \in 0 .. 7 |->
        CASE k \in 6 .. 7 -> 4095
          [] v.target = NoTarget /\ k \in 0 .. 5 ->
               master + gain_to_attenuation(v.channel[k])
          [] v.target # NoTarget /\ k \in 0 .. 1 ->
               master + gain_to_attenuation(v.hrtf.front)
          [] v.target # NoTarget /\ k \in 2 .. 3 ->
               master + gain_to_attenuation(v.hrtf.rear)
          [] OTHER -> 4095]
Volumes(v) == [k \in 0 .. 7 |-> Min({VolumesUncapped(v)[k], 4095})]

\* Word k of the volumes: slots 2k and 2k+1, nibble k of slots 6 and 7.
VolumeWord(vol, k) ==
  MAKE_VALUE(VolEven, vol[2 * k]) \cup MAKE_VALUE(VolOdd, vol[2 * k + 1])
  \cup MAKE_VALUE(Nibble6, vol[6] \div 16^k)
  \cup MAKE_VALUE(Nibble7, vol[7] \div 16^k)

voice_update_volumes(v) ==
  [v EXCEPT !.word["TAR_VOLA"] = VolumeWord(Volumes(v), 0),
            !.word["TAR_VOLB"] = VolumeWord(Volumes(v), 1),
            !.word["TAR_VOLC"] = VolumeWord(Volumes(v), 2)]

container_size(f) ==
  IF f.adpcm THEN 2 ELSE CASE f.bytes_per_sample = 1 -> 0
                           [] f.bytes_per_sample = 2 -> 1
                           [] f.bytes_per_sample \in {3, 4} -> 3
                           [] OTHER -> 0
sample_size(f) ==
  IF f.adpcm THEN 2
  ELSE IF f.bytes_per_sample \in 1 .. 4 THEN f.bytes_per_sample - 1 ELSE 0

Bit(b) == IF b THEN 1 ELSE 0
PitchWord(f, pitch) == MAKE_VALUE(High, f.rate + pitch)

\* The fields nxAudioVoiceSetFormat replaces in CFG_FMT.
FormatFields(f, streaming) ==
  {<<Fmt.CONTAINER_SIZE, container_size(f)>>, <<Fmt.SAMPLE_SIZE, sample_size(f)>>,
   <<Fmt.DATA_TYPE, Bit(streaming)>>, <<Fmt.STEREO, Bit(f.channels = 2)>>,
   <<Fmt.SAMPLES_PER_BLOCK, f.channels - 1>>}
\* Clears the fields of fs in w, then puts their values in.
PutAll(w, fs) ==
  (w \ UNION {Mask(p[1]) : p \in fs}) \cup UNION {MAKE_VALUE(p[1], p[2]) : p \in fs}

WithFormat(v, f) ==
  [v EXCEPT !.format = f,
            !.word["CFG_FMT"] = PutAll(@, FormatFields(f, v.streaming)),
            !.word["TAR_PITCH"] = PitchWord(f, v.pitch)]
\* Slots to mixbins: 6..9 and padding for HRTF, one to one otherwise.
SlotBins(hrtf) ==
  [k \in 0 .. 7 |-> IF hrtf THEN <<6, 7, 8, 9, 10, 0, 1, 2>>[k + 1] ELSE k]
WithTargetKeepVolumes(v, t) ==
  LET bins == SlotBins(t # NoTarget)
  IN IF (v.target = NoTarget) = (t = NoTarget)
     THEN [v EXCEPT !.target = t, !.word["TAR_HRTF"] = MAKE_VALUE(Low, t)]
     ELSE [v EXCEPT !.target = t, !.word["TAR_HRTF"] = MAKE_VALUE(Low, t),
                    !.word["CFG_VBIN"] = UNION {MAKE_VALUE(Vbin[k], bins[k]) : k \in 0 .. 5},
                    !.word["CFG_FMT"] = PutAll(@, {<<Fmt.V6BIN, bins[6]>>,
                                                   <<Fmt.V7BIN, bins[7]>>})]
WithTarget(v, t) ==
  LET bins == SlotBins(t # NoTarget)
      set  == [v EXCEPT !.target = t, !.word["TAR_HRTF"] = MAKE_VALUE(Low, t)]
  IN IF (v.target = NoTarget) = (t = NoTarget) THEN set
     ELSE voice_update_volumes(
            [set EXCEPT
              !.word["CFG_VBIN"] = UNION {MAKE_VALUE(Vbin[k], bins[k]) : k \in 0 .. 5},
              !.word["CFG_FMT"] = PutAll(@, {<<Fmt.V6BIN, bins[6]>>,
                                             <<Fmt.V7BIN, bins[7]>>})])
WithMaster(v, g)  == voice_update_volumes([v EXCEPT !.master = g])
WithChannel(v, c) == voice_update_volumes([v EXCEPT !.channel = c])
WithHrtf(v, h)    == voice_update_volumes([v EXCEPT !.hrtf = h])
WithPitch(v, p) ==
  [v EXCEPT !.pitch = p, !.word["TAR_PITCH"] = PitchWord(v.format, p)]

\* nxAudioVoiceCreate: memset makes every gain 0.0 and the target entry 0,
\* so that the first SetHRTFTarget(HRTF_NULL_HANDLE) sets the mixbins.
Cleared(f) ==
  [state |-> "STOPPED", format |-> f, streaming |-> FALSE, looping |-> FALSE,
   target |-> 0, master |-> Muted, channel |-> [k \in 0 .. 5 |-> Muted],
   hrtf |-> [front |-> Muted, rear |-> Muted], pitch |-> 0,
   amp |-> NULL, filt |-> NULL, coef |-> NULL, flags |-> {},
   word |-> [r \in WordNames |->
               CASE r = "CFG_FMT" -> MAKE_VALUE(Fmt.HEADROOM, 7)
                 [] r = "CFG_MISC" -> Mask(Misc.NOTIFY)
                 [] OTHER -> {}]]
StereoGains == [k \in 0 .. 5 |-> IF k < 2 THEN 0 ELSE Muted]
Created(f) ==
  WithPitch(WithHrtf(WithChannel(WithMaster(WithTarget(
    WithFormat(Cleared(f), f), NoTarget), 0), StereoGains), [front |-> 0, rear |-> 0]), 0)

VARIABLES
  app,       \* the application; no step changes it
  voice      \* the nxAudioVoice, its words as last written

vars == <<app, voice>>

Init == app \in Applications /\ voice \in {Created(f) : f \in app.formats}

Becomes(v) == voice' = v
Stopped    == voice.state = "STOPPED"

VoiceCreate(f) == Stopped /\ Becomes(Created(f))

\* A change of class also moves the voice and flushes it (VoiceRegisters).
VoiceSetFormat(f)      == Stopped /\ Becomes(WithFormat(voice, f))
VoiceSetPitch(p)       == Becomes(WithPitch(voice, p))
VoiceSetMasterGain(g)  == g # voice.master /\ Becomes(WithMaster(voice, g))
VoiceSetChannelGain(c) == c # voice.channel /\ Becomes(WithChannel(voice, c))
VoiceSetHRTFGain(h)    == h # voice.hrtf /\ Becomes(WithHrtf(voice, h))
VoiceSetHRTFTarget(t)  == Becomes(WithTarget(voice, t))

VoiceSetLooping(on) ==
  /\ ~(voice.streaming /\ on)
  /\ Becomes([voice EXCEPT !.looping = on,
                           !.word["CFG_FMT"] = Put(@, Fmt.LOOP, Bit(on))])

\* The two envelopes have one layout in words of their own, but the release
\* rate of the filter's lies in CFG_MISC.
EnvelopeWordsWipe(w, rates, curve, release, e) ==
  [w EXCEPT
     ![rates] = PutAll(@, {<<Env.ATTACKRATE, e.attack>>, <<Env.DELAYTIME, e.delay>>}),
     ![curve] = PutAll(@, {<<Env.DECAYRATE, e.decay>>, <<Env.HOLDTIME, e.hold>>,
                           <<Env.SUSTAINLEVEL, e.sustain>>}),
     ![release] = MAKE_VALUE(Env.RELEASERATE, e.release)]
EnvelopeWords(w, rates, curve, release, e) ==
  [w EXCEPT
     ![rates] = PutAll(@, {<<Env.ATTACKRATE, e.attack>>, <<Env.DELAYTIME, e.delay>>}),
     ![curve] = PutAll(@, {<<Env.DECAYRATE, e.decay>>, <<Env.HOLDTIME, e.hold>>,
                           <<Env.SUSTAINLEVEL, e.sustain>>}),
     ![release] = Put(@, Env.RELEASERATE, e.release)]

VoiceSetAmplitudeEnvelope(e) ==
  /\ Stopped
  /\ IF e = NULL
     THEN Becomes([voice EXCEPT !.amp = NULL, !.flags = @ \ Mask(On.ENVA)])
     ELSE Becomes([voice EXCEPT
            !.amp = e, !.flags = @ \cup MAKE_VALUE(On.ENVA, EFCUR_DELAY),
            !.word = EnvelopeWords(@, "CFG_ENV0", "CFG_ENVA", "LFO_ENV", e)])

VoiceSetFilterEnvelope(e) ==
  /\ Stopped
  /\ IF e = NULL
     THEN Becomes([voice EXCEPT !.filt = NULL, !.flags = @ \ Mask(On.ENVF)])
     ELSE Becomes([voice EXCEPT
            !.filt = e, !.flags = @ \cup MAKE_VALUE(On.ENVF, EFCUR_DELAY),
            !.word = EnvelopeWords(@, "CFG_ENV1", "CFG_ENVF", "CFG_MISC", e)])

VoiceSetFilterCoefficients(c) ==
  /\ Stopped
  /\ Becomes([voice EXCEPT
       !.coef = c,
       !.word["TAR_FCA"] = MAKE_VALUE(Low, c.fc[1]) \cup MAKE_VALUE(High, c.fc[2]),
       !.word["TAR_FCB"] = MAKE_VALUE(Low, c.fc[3]) \cup MAKE_VALUE(High, c.fc[4]),
       !.word["CFG_MISC"] = PutAll(@, {<<Misc.FMODE, c.mode>>, <<Misc.Q, c.q>>})])

(***************************************************************************)
(* The calls of VoiceControl that share CFG_FMT.                           *)
(***************************************************************************)
BufferSubmit ==
  /\ Stopped
  /\ Becomes([voice EXCEPT !.streaming = FALSE,
                           !.word["CFG_FMT"] = @ \ Mask(Fmt.DATA_TYPE)])
BufferQueue ==
  /\ voice.streaming \/ voice.state # "PLAYING"
  /\ Becomes([voice EXCEPT !.streaming = TRUE,
                           !.word["CFG_FMT"] = @ \cup Mask(Fmt.DATA_TYPE)])
VoiceStart ==
  /\ Stopped
  /\ Becomes([voice EXCEPT !.state = "PLAYING",
       !.word["CFG_FMT"] = PutAll(@, {<<Fmt.PERSIST, Bit(voice.streaming)>>,
                                      <<Fmt.LOOP, Bit(voice.looping)>>})])
VoiceRelease ==
  /\ voice.state = "PLAYING"
  /\ Becomes([voice EXCEPT !.state = "STOPPING",
                          !.word["CFG_FMT"] = @ \ Mask(Fmt.PERSIST)])
VoiceStop ==
  /\ ~Stopped
  /\ Becomes([voice EXCEPT !.state = "STOPPING",
       !.word["CFG_FMT"] = @ \ (Mask(Fmt.PERSIST) \cup Mask(Fmt.LOOP))])
\* The trap of a voice that has gone idle (VoiceControl).
Idle == ~Stopped /\ Becomes([voice EXCEPT !.state = "STOPPED"])

Next ==
  /\ \/ \E f \in app.formats : VoiceCreate(f) \/ VoiceSetFormat(f)
     \/ \E p \in app.pitches : VoiceSetPitch(p)
     \/ \E g \in app.gains : VoiceSetMasterGain(g)
     \/ \E c \in app.channelGains : VoiceSetChannelGain(c)
     \/ \E h \in app.hrtfGains : VoiceSetHRTFGain(h)
     \/ \E t \in app.targets \cup {NoTarget} : VoiceSetHRTFTarget(t)
     \/ \E on \in BOOLEAN : VoiceSetLooping(on)
     \/ \E e \in app.envelopes \cup {NULL} :
          VoiceSetAmplitudeEnvelope(e) \/ VoiceSetFilterEnvelope(e)
     \/ \E c \in app.filters : VoiceSetFilterCoefficients(c)
     \/ BufferSubmit \/ BufferQueue
     \/ VoiceStart \/ VoiceRelease \/ VoiceStop \/ Idle
  /\ UNCHANGED app

Spec == Init /\ [][Next]_vars

-----------------------------------------------------------------------------
(* What the voice processor makes of the words.                            *)
Word(r) == voice.word[r]
Volume(k) ==
  IF k < 6 THEN Get(Word(VolWord(k \div 2)), IF k % 2 = 0 THEN VolEven ELSE VolOdd)
  ELSE LET f == IF k = 6 THEN Nibble6 ELSE Nibble7
       IN Get(Word(VolWord(0)), f) + 16 * Get(Word(VolWord(1)), f)
          + 256 * Get(Word(VolWord(2)), f)
\* A voice of the 3D class has slots 0..3 in the HRTF submixes, whatever
\* CFG_VBIN says; nxAudioInit sets these to 6, 8, 7 and 9.
HrtfSubmix == [k \in 0 .. 3 |-> <<6, 8, 7, 9>>[k + 1]]
Mixbin(k) ==
  CASE voice.format.is3d /\ k < 4 -> HrtfSubmix[k]
    [] k = 6 -> Get(Word("CFG_FMT"), Fmt.V6BIN)
    [] k = 7 -> Get(Word("CFG_FMT"), Fmt.V7BIN)
    [] OTHER -> Get(Word("CFG_VBIN"), Vbin[k])
Audible == {k \in 0 .. 7 : Volume(k) # 4095}
\* The attenuation at which the voice reaches a mixbin.
Heard(b) == LET ks == {k \in Audible : Mixbin(k) = b}
            IN IF ks = {} THEN 4095 ELSE Min({Volume(k) : k \in ks})
Sum(g, h) == Min({4095, gain_to_attenuation(g) + gain_to_attenuation(h)})
Signed(f, w) == LET n == Get(w, f)
                IN IF n >= 2^(f[2] - 1) THEN n - 2^f[2] ELSE n

\* Every word is a set of 32 bits and the states are those of the driver.
TypeOK ==
  /\ app \in Applications
  /\ voice.state \in {"STOPPED", "PLAYING", "STOPPING"}
  /\ voice.word \in [WordNames -> SUBSET (0 .. 31)]
  /\ voice.flags \subseteq 24 .. 31
  /\ voice.streaming \in BOOLEAN /\ voice.looping \in BOOLEAN

\* The envelope the registers hold and VOICE_ON will start.
EnvelopeOf(rates, curve, release) ==
  [attack |-> Get(Word(rates), Env.ATTACKRATE), delay |-> Get(Word(rates), Env.DELAYTIME),
   decay |-> Get(Word(curve), Env.DECAYRATE), hold |-> Get(Word(curve), Env.HOLDTIME),
   sustain |-> Get(Word(curve), Env.SUSTAINLEVEL),
   release |-> Get(Word(release), Env.RELEASERATE)]
AmplitudeEnvelope == EnvelopeOf("CFG_ENV0", "CFG_ENVA", "LFO_ENV")
FilterEnvelope    == EnvelopeOf("CFG_ENV1", "CFG_ENVF", "CFG_MISC")
CutTo12(e) == [x \in DOMAIN e |-> IF x = "sustain" THEN e[x] % 256 ELSE e[x] % 4096]

\* Whatever was set before and is set beside them, an enabled envelope is in
\* the registers as it was given, to the width of its fields, and VOICE_ON
\* starts it in its delay phase exactly when it is enabled
\* (nxAudioVoiceSetAmplitudeEnvelope, nxAudioVoiceSetFilterEnvelope).
EnvelopesAsAsked ==
  /\ voice.amp # NULL => AmplitudeEnvelope = CutTo12(voice.amp)
  /\ voice.filt # NULL => FilterEnvelope = CutTo12(voice.filt)
  /\ Get(voice.flags, On.ENVA) = Bit(voice.amp # NULL)
  /\ Get(voice.flags, On.ENVF) = Bit(voice.filt # NULL)

\* The filter keeps its mode, Q and coefficients, sign included, when the
\* envelope that shares CFG_MISC is set, and no call turns off the interrupt
\* the release of buffers depends on (nxAudioVoiceSetFilterCoefficients).
FilterAsAsked ==
  /\ voice.coef # NULL =>
       /\ Get(Word("CFG_MISC"), Misc.FMODE) = voice.coef.mode
       /\ Get(Word("CFG_MISC"), Misc.Q) = voice.coef.q % 8
       /\ <<Signed(Low, Word("TAR_FCA")), Signed(High, Word("TAR_FCA")),
            Signed(Low, Word("TAR_FCB")), Signed(High, Word("TAR_FCB"))>> = voice.coef.fc
  /\ Get(Word("CFG_MISC"), Misc.NOTIFY) = 1

\* CFG_FMT, which eight calls share, describes the format and the kind of
\* data of the voice whatever the order of the calls (the channels to the
\* width of their field).
FormatAsAsked ==
  LET w == Word("CFG_FMT")
  IN /\ Get(w, Fmt.CONTAINER_SIZE) = container_size(voice.format)
     /\ Get(w, Fmt.SAMPLE_SIZE) = sample_size(voice.format)
     /\ Get(w, Fmt.SAMPLES_PER_BLOCK) = (voice.format.channels - 1) % 32
     /\ Get(w, Fmt.STEREO) = Bit(voice.format.channels = 2)
     /\ Get(w, Fmt.DATA_TYPE) = Bit(voice.streaming)
     /\ Get(w, Fmt.HEADROOM) = 7

\* The pitch register is the product of sample rate and pitch, whichever was
\* set last, up to eight octaves either way (nxAudioVoiceSetPitch,
\* nxAudioVoiceSetFormat).
PitchAsAsked ==
  LET p == voice.format.rate + voice.pitch
  IN p \in int16_t => Signed(High, Word("TAR_PITCH")) = p

\* A voice stopped or released does not wait for more data.
StoppingDoesNotPersist ==
  voice.state = "STOPPING" => Get(Word("CFG_FMT"), Fmt.PERSIST) = 0

\* Two audible slots never add up in one mixbin ("unique indices",
\* audio_voice.c:829): the voice is not louder than its gains.
OneSlotPerMixbin ==
  \A j, k \in Audible : Mixbin(j) = Mixbin(k) => j = k

\* A voice of the 2D class without a target reaches each of the six speakers
\* at the sum of its master and channel attenuations, cut off at the end of
\* the scale and never wrapped to loud, and nothing else.
ChannelsReachTheirSpeakers ==
  voice.target = NoTarget /\ ~voice.format.is3d =>
    \A b \in 0 .. 10 :
      Heard(b) = IF b < 6 THEN Sum(voice.master, voice.channel[b]) ELSE 4095

\* With a target no channel gain leaks past the HRTF submixes.
OnlySubmixesWithTarget ==
  voice.target # NoTarget => \A b \in (0 .. 5) \cup {10} : Heard(b) = 4095

\* What the words of the voice say of envelopes, filter, format, pitch and
\* persistence is what was asked for last, whatever was set in between and
\* shares a word with it.
WordsAsAsked ==
  /\ TypeOK
  /\ EnvelopesAsAsked /\ FilterAsAsked
  /\ FormatAsAsked /\ PitchAsAsked /\ StoppingDoesNotPersist

\* The eight slots stay apart, and within the submixes of a target, through
\* every change of class and target (nxAudioVoiceSetHRTFTarget).
MixbinsSound == OneSlotPerMixbin /\ OnlySubmixesWithTarget
=============================================================================
