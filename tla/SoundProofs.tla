----------------------------- MODULE SoundProofs -----------------------------
(***************************************************************************)
(* That the words of a voice say what was asked for, for every format,     *)
(* gain, pitch, target, envelope and filter an application passes, and     *)
(* every order of the calls (VoiceParameters).  The invariant              *)
(* (ParametersInv) says of each field of each word that its bits are those *)
(* of the number asked for last ("Holds"); the fields of a word lie apart, *)
(* so that a call that replaces some leaves the others as they are; and a  *)
(* field whose bits are those of a number reads as that number, to its     *)
(* width (Reads).                                                          *)
(*                                                                         *)
(* Then the filters of a direction, for every direction in quarters of a   *)
(* degree (HrtfGrid): the pair read back from an entry is the nearest one  *)
(* measured, whole, each filter at its ear, and mirrored for the mirrored  *)
(* direction.  The argument names the grid point of a direction (Column,   *)
(* Row) and reads every register back from it.                             *)
(***************************************************************************)
EXTENDS VoiceParameters, HrtfGrid, TLAPS

\* The bits of field f of the word w are those of the number x.
Holds(w, f, x) == w \cap Mask(f) = MAKE_VALUE(f, x)
Apart(f, g)    == Mask(f) \cap Mask(g) = {}

LEMMA PutKeeps ==
  ASSUME NEW w, NEW fs, NEW g, \A p \in fs : Apart(p[1], g)
  PROVE  PutAll(w, fs) \cap Mask(g) = w \cap Mask(g)
<1>1. \A p \in fs : MAKE_VALUE(p[1], p[2]) \subseteq Mask(p[1])
  BY DEF MAKE_VALUE
<1> QED BY <1>1 DEF PutAll, Apart

LEMMA PutSets ==
  ASSUME NEW w, NEW fs, NEW p \in fs, \A q \in fs : q # p => Apart(q[1], p[1])
  PROVE  Holds(PutAll(w, fs), p[1], p[2])
<1>1. \A q \in fs : MAKE_VALUE(q[1], q[2]) \subseteq Mask(q[1])
  BY DEF MAKE_VALUE
<1> QED BY <1>1 DEF PutAll, Apart, Holds

LEMMA BitsHeld ==
  ASSUME NEW w, NEW f, f[1] \in Nat, f[2] \in Nat, NEW x \in Int, Holds(w, f, x),
         NEW k \in Nat, k < f[2]
  PROVE  f[1] + k \in w <=> (x \div 2^k) % 2 = 1
<1>1. f[1] + k \in Mask(f)
  BY DEF Mask
<1>2. (f[1] + k) - f[1] = k
  OBVIOUS
<1>3. f[1] + k \in MAKE_VALUE(f, x) <=> (x \div 2^k) % 2 = 1
  BY <1>1, <1>2 DEF MAKE_VALUE
<1> QED BY <1>1, <1>3 DEF Holds

\* The binary digit of x at the power p of 2, times p.
Digit(x, p) == p * ((x \div p) - 2 * (x \div (2 * p)))
IsDigit(x, k, p) ==
  /\ k \in Nat /\ p \in Nat /\ 2^k = p /\ (x \div p) \in Int
  /\ (x \div p) - 2 * (x \div (2 * p)) = (x \div p) % 2

\* Halving twice is dividing by twice the power.
LEMMA Digits ==
  ASSUME NEW x \in Int
  PROVE  /\ IsDigit(x, 0, 1) /\ IsDigit(x, 1, 2) /\ IsDigit(x, 2, 4)
         /\ IsDigit(x, 3, 8) /\ IsDigit(x, 4, 16) /\ IsDigit(x, 5, 32)
         /\ IsDigit(x, 6, 64) /\ IsDigit(x, 7, 128) /\ IsDigit(x, 8, 256)
         /\ IsDigit(x, 9, 512) /\ IsDigit(x, 10, 1024) /\ IsDigit(x, 11, 2048)
         /\ IsDigit(x, 12, 4096) /\ IsDigit(x, 13, 8192) /\ IsDigit(x, 14, 16384)
         /\ IsDigit(x, 15, 32768)
<1>0. IsDigit(x, 0, 1)
  BY DEF IsDigit
<1>1. IsDigit(x, 1, 2)
  BY DEF IsDigit
<1>2. IsDigit(x, 2, 4)
  BY DEF IsDigit
<1>3. IsDigit(x, 3, 8)
  BY DEF IsDigit
<1>4. IsDigit(x, 4, 16)
  BY DEF IsDigit
<1>5. IsDigit(x, 5, 32)
  BY DEF IsDigit
<1>6. IsDigit(x, 6, 64)
  BY DEF IsDigit
<1>7. IsDigit(x, 7, 128)
  BY DEF IsDigit
<1>8. IsDigit(x, 8, 256)
  BY DEF IsDigit
<1>9. IsDigit(x, 9, 512)
  BY DEF IsDigit
<1>10. IsDigit(x, 10, 1024)
  BY DEF IsDigit
<1>11. IsDigit(x, 11, 2048)
  BY DEF IsDigit
<1>12. IsDigit(x, 12, 4096)
  BY DEF IsDigit
<1>13. IsDigit(x, 13, 8192)
  BY DEF IsDigit
<1>14. IsDigit(x, 14, 16384)
  BY DEF IsDigit
<1>15. IsDigit(x, 15, 32768)
  BY DEF IsDigit
<1> QED BY <1>0, <1>1, <1>2, <1>3, <1>4, <1>5, <1>6, <1>7, <1>8, <1>9, <1>10, <1>11, <1>12, <1>13, <1>14, <1>15

LEMMA BitValue ==
  ASSUME NEW w, NEW f, f[1] \in Nat, f[2] \in Nat, NEW x \in Int, Holds(w, f, x),
         NEW k, NEW p, IsDigit(x, k, p)
  PROVE  BitAt(w, f, k) = IF k < f[2] THEN Digit(x, p) ELSE 0
<1> DEFINE d == (x \div p) % 2
<1> USE DEF IsDigit
<1>1. d \in {0, 1}
  OBVIOUS
<1>2. CASE ~(k < f[2])
  BY <1>2 DEF BitAt
<1>3. CASE k < f[2]
  <2>1. f[1] + k \in w <=> d = 1
    BY <1>3, BitsHeld
  <2>2. Digit(x, p) = p * d
    BY DEF Digit
  <2> HIDE DEF d
  <2>3. p * d = IF d = 1 THEN p ELSE 0
    BY <1>1
  <2> QED BY <1>3, <2>1, <2>2, <2>3 DEF BitAt
<1> QED BY <1>2, <1>3

\* A field reads as the number put into it, to the width of the field.
LEMMA Reads ==
  ASSUME NEW w, NEW f, f[1] \in Nat, f[2] \in Nat, NEW x \in Int, Holds(w, f, x)
  PROVE  /\ f[2] = 1 => Get(w, f) = x % 2
         /\ f[2] = 2 => Get(w, f) = x % 4
         /\ f[2] = 3 => Get(w, f) = x % 8
         /\ f[2] = 4 => Get(w, f) = x % 16
         /\ f[2] = 5 => Get(w, f) = x % 32
         /\ f[2] = 8 => Get(w, f) = x % 256
         /\ f[2] = 12 => Get(w, f) = x % 4096
         /\ f[2] = 16 => Get(w, f) = x % 65536
<1> DEFINE at(k) == BitAt(w, f, k)
           low  == at(0) + at(1) + at(2) + at(3) + at(4) + at(5) + at(6) + at(7)
           high == at(8) + at(9) + at(10) + at(11) + at(12) + at(13) + at(14) + at(15)
<1>a. \A k, p : IsDigit(x, k, p) => at(k) = IF k < f[2] THEN Digit(x, p) ELSE 0
  BY BitValue
<1>b. Get(w, f) = at(0) + at(1) + at(2) + at(3) + at(4) + at(5) + at(6) + at(7)
                  + at(8) + at(9) + at(10) + at(11) + at(12) + at(13) + at(14) + at(15)
  BY DEF Get
<1> HIDE DEF at
<1>0. /\ at(0) = IF 0 < f[2] THEN Digit(x, 1) ELSE 0
      /\ at(1) = IF 1 < f[2] THEN Digit(x, 2) ELSE 0
  BY <1>a, Digits
<1>1. /\ at(2) = IF 2 < f[2] THEN Digit(x, 4) ELSE 0
      /\ at(3) = IF 3 < f[2] THEN Digit(x, 8) ELSE 0
  BY <1>a, Digits
<1>2. /\ at(4) = IF 4 < f[2] THEN Digit(x, 16) ELSE 0
      /\ at(5) = IF 5 < f[2] THEN Digit(x, 32) ELSE 0
  BY <1>a, Digits
<1>3. /\ at(6) = IF 6 < f[2] THEN Digit(x, 64) ELSE 0
      /\ at(7) = IF 7 < f[2] THEN Digit(x, 128) ELSE 0
  BY <1>a, Digits
<1>4. /\ at(8) = IF 8 < f[2] THEN Digit(x, 256) ELSE 0
      /\ at(9) = IF 9 < f[2] THEN Digit(x, 512) ELSE 0
  BY <1>a, Digits
<1>5. /\ at(10) = IF 10 < f[2] THEN Digit(x, 1024) ELSE 0
      /\ at(11) = IF 11 < f[2] THEN Digit(x, 2048) ELSE 0
  BY <1>a, Digits
<1>6. /\ at(12) = IF 12 < f[2] THEN Digit(x, 4096) ELSE 0
      /\ at(13) = IF 13 < f[2] THEN Digit(x, 8192) ELSE 0
  BY <1>a, Digits
<1>7. /\ at(14) = IF 14 < f[2] THEN Digit(x, 16384) ELSE 0
      /\ at(15) = IF 15 < f[2] THEN Digit(x, 32768) ELSE 0
  BY <1>a, Digits
<1>8. \A k \in 0 .. 15 : at(k) \in Int
  BY <1>0, <1>1, <1>2, <1>3, <1>4, <1>5, <1>6, <1>7 DEF Digit
<1>9. Get(w, f) = low + high
  BY <1>b, <1>8
<1>10. ASSUME f[2] = 1 PROVE Get(w, f) = x % 2
  <2>1. low = x - 2 * (x \div 2)
    BY <1>0, <1>1, <1>2, <1>3, <1>10 DEF Digit
  <2>2. high = 0
    BY <1>4, <1>5, <1>6, <1>7, <1>10 DEF Digit
  <2> HIDE DEF low, high
  <2> QED BY <1>9, <2>1, <2>2
<1>11. ASSUME f[2] = 2 PROVE Get(w, f) = x % 4
  <2>1. low = x - 4 * (x \div 4)
    BY <1>0, <1>1, <1>2, <1>3, <1>11 DEF Digit
  <2>2. high = 0
    BY <1>4, <1>5, <1>6, <1>7, <1>11 DEF Digit
  <2> HIDE DEF low, high
  <2> QED BY <1>9, <2>1, <2>2
<1>12. ASSUME f[2] = 3 PROVE Get(w, f) = x % 8
  <2>1. low = x - 8 * (x \div 8)
    BY <1>0, <1>1, <1>2, <1>3, <1>12 DEF Digit
  <2>2. high = 0
    BY <1>4, <1>5, <1>6, <1>7, <1>12 DEF Digit
  <2> HIDE DEF low, high
  <2> QED BY <1>9, <2>1, <2>2
<1>13. ASSUME f[2] = 4 PROVE Get(w, f) = x % 16
  <2>1. low = x - 16 * (x \div 16)
    BY <1>0, <1>1, <1>2, <1>3, <1>13 DEF Digit
  <2>2. high = 0
    BY <1>4, <1>5, <1>6, <1>7, <1>13 DEF Digit
  <2> HIDE DEF low, high
  <2> QED BY <1>9, <2>1, <2>2
<1>14. ASSUME f[2] = 5 PROVE Get(w, f) = x % 32
  <2>1. low = x - 32 * (x \div 32)
    BY <1>0, <1>1, <1>2, <1>3, <1>14 DEF Digit
  <2>2. high = 0
    BY <1>4, <1>5, <1>6, <1>7, <1>14 DEF Digit
  <2> HIDE DEF low, high
  <2> QED BY <1>9, <2>1, <2>2
<1>15. ASSUME f[2] = 8 PROVE Get(w, f) = x % 256
  <2>1. low = x - 256 * (x \div 256)
    BY <1>0, <1>1, <1>2, <1>3, <1>15 DEF Digit
  <2>2. high = 0
    BY <1>4, <1>5, <1>6, <1>7, <1>15 DEF Digit
  <2> HIDE DEF low, high
  <2> QED BY <1>9, <2>1, <2>2
<1>16. ASSUME f[2] = 12 PROVE Get(w, f) = x % 4096
  <2>1. low = x - 256 * (x \div 256)
    BY <1>0, <1>1, <1>2, <1>3, <1>16 DEF Digit
  <2>2. high = 256 * (x \div 256) - 4096 * (x \div 4096)
    BY <1>4, <1>5, <1>6, <1>7, <1>16 DEF Digit
  <2> HIDE DEF low, high
  <2> QED BY <1>9, <2>1, <2>2
<1>17. ASSUME f[2] = 16 PROVE Get(w, f) = x % 65536
  <2>1. low = x - 256 * (x \div 256)
    BY <1>0, <1>1, <1>2, <1>3, <1>17 DEF Digit
  <2>2. high = 256 * (x \div 256) - 65536 * (x \div 65536)
    BY <1>4, <1>5, <1>6, <1>7, <1>17 DEF Digit
  <2> HIDE DEF low, high
  <2> QED BY <1>9, <2>1, <2>2
<1> QED BY <1>10, <1>11, <1>12, <1>13, <1>14, <1>15, <1>16, <1>17

-----------------------------------------------------------------------------
(* The fields of a word lie apart from one another and within 32 bits.     *)

LEMMA IntervalsApart ==
  ASSUME NEW f, NEW g, f[1] \in Int, f[2] \in Int, g[1] \in Int, g[2] \in Int,
         f[1] + f[2] <= g[1] \/ g[1] + g[2] <= f[1]
  PROVE  Apart(f, g)
BY DEF Apart, Mask

LEMMA MaskInWord ==
  ASSUME NEW f, f[1] \in Nat, f[2] \in Nat, f[1] + f[2] <= 32
  PROVE  Mask(f) \subseteq 0 .. 31
BY DEF Mask

FmtNames == {"V6BIN", "V7BIN", "HEADROOM", "SAMPLES_PER_BLOCK", "PERSIST",
             "DATA_TYPE", "LOOP", "STEREO", "SAMPLE_SIZE", "CONTAINER_SIZE"}

LEMMA FmtFields ==
  /\ \A x \in FmtNames : /\ Fmt[x][1] \in Nat /\ Fmt[x][2] \in Nat
                         /\ Fmt[x][1] + Fmt[x][2] <= 32
  /\ \A x, y \in FmtNames :
       x # y => \/ Fmt[x][1] + Fmt[x][2] <= Fmt[y][1]
                \/ Fmt[y][1] + Fmt[y][2] <= Fmt[x][1]
  /\ Fmt["V6BIN"][2] = 5 /\ Fmt["V7BIN"][2] = 5 /\ Fmt["HEADROOM"][2] = 3
  /\ Fmt["SAMPLES_PER_BLOCK"][2] = 5 /\ Fmt["PERSIST"][2] = 1
  /\ Fmt["DATA_TYPE"][2] = 1 /\ Fmt["LOOP"][2] = 1 /\ Fmt["STEREO"][2] = 1
  /\ Fmt["SAMPLE_SIZE"][2] = 2 /\ Fmt["CONTAINER_SIZE"][2] = 2
BY DEF FmtNames, Fmt

LEMMA FmtApart ==
  /\ \A x, y \in FmtNames : x # y => Apart(Fmt[x], Fmt[y])
  /\ \A x \in FmtNames : Mask(Fmt[x]) \subseteq 0 .. 31
BY FmtFields, IntervalsApart, MaskInWord

EnvNames == {"ATTACKRATE", "DELAYTIME", "DECAYRATE", "HOLDTIME",
             "SUSTAINLEVEL", "RELEASERATE"}

LEMMA EnvFields ==
  /\ \A x \in EnvNames : /\ Env[x][1] \in Nat /\ Env[x][2] \in Nat
                         /\ Env[x][1] + Env[x][2] <= 32
                         /\ Env[x][2] = IF x = "SUSTAINLEVEL" THEN 8 ELSE 12
  /\ Env["ATTACKRATE"][1] + 12 <= Env["DELAYTIME"][1]
  /\ Env["DECAYRATE"][1] + 12 <= Env["HOLDTIME"][1]
  /\ Env["HOLDTIME"][1] + 12 <= Env["SUSTAINLEVEL"][1]
  /\ Env["RELEASERATE"][1] + 12 <= 16
BY DEF EnvNames, Env

LEMMA EnvApart ==
  /\ \A x \in EnvNames : Mask(Env[x]) \subseteq 0 .. 31
  /\ Apart(Env["ATTACKRATE"], Env["DELAYTIME"])
  /\ Apart(Env["DECAYRATE"], Env["HOLDTIME"])
  /\ Apart(Env["DECAYRATE"], Env["SUSTAINLEVEL"])
  /\ Apart(Env["HOLDTIME"], Env["SUSTAINLEVEL"])
BY EnvFields, IntervalsApart, MaskInWord DEF EnvNames

MiscNames == {"FMODE", "Q", "NOTIFY"}

LEMMA MiscFields ==
  /\ \A x \in MiscNames : /\ Misc[x][1] \in Nat /\ Misc[x][2] \in Nat
                          /\ 16 <= Misc[x][1] /\ Misc[x][1] + Misc[x][2] <= 32
  /\ Misc["FMODE"][2] = 2 /\ Misc["Q"][2] = 3 /\ Misc["NOTIFY"][2] = 1
  /\ Misc["FMODE"][1] + 2 <= Misc["Q"][1] /\ Misc["Q"][1] + 3 <= Misc["NOTIFY"][1]
BY DEF MiscNames, Misc

\* Of CFG_MISC, where the filter's release rate lies too.
LEMMA MiscApart ==
  /\ \A x \in MiscNames : Mask(Misc[x]) \subseteq 0 .. 31
  /\ \A x \in MiscNames : Apart(Env["RELEASERATE"], Misc[x])
  /\ Apart(Misc["FMODE"], Misc["Q"]) /\ Apart(Misc["FMODE"], Misc["NOTIFY"])
  /\ Apart(Misc["Q"], Misc["NOTIFY"])
BY MiscFields, EnvFields, IntervalsApart, MaskInWord DEF MiscNames, EnvNames

LEMMA VbinFields ==
  /\ \A k \in 0 .. 5 : Vbin[k][1] \in Nat /\ Vbin[k][2] = 5 /\ Vbin[k][1] + 5 <= 32
  /\ \A j, k \in 0 .. 5 : j < k => Vbin[j][1] + 5 <= Vbin[k][1]
BY DEF Vbin

LEMMA VbinApart ==
  /\ \A j, k \in 0 .. 5 : j # k => Apart(Vbin[j], Vbin[k])
  /\ \A k \in 0 .. 5 : Mask(Vbin[k]) \subseteq 0 .. 31
BY VbinFields, IntervalsApart, MaskInWord

-----------------------------------------------------------------------------
(* What holds of the nxAudioVoice after every call: each field of its words *)
(* has the bits of what was asked for last.                                *)

Targets == (0 .. 127) \cup {NoTarget}
Voice ==
  [state : {"STOPPED", "PLAYING", "STOPPING"}, format : nxAudioFormat,
   streaming : BOOLEAN, looping : BOOLEAN, target : Targets, master : Int,
   channel : ChannelGains, hrtf : HrtfGains, pitch : Int,
   amp : nxAudioADSR \cup {NULL}, filt : nxAudioADSR \cup {NULL},
   coef : FilterArguments \cup {NULL}, flags : SUBSET (24 .. 31),
   word : [WordNames -> SUBSET (0 .. 31)]]

FormatHeld(w, f, streaming) ==
  /\ Holds(w, Fmt["CONTAINER_SIZE"], container_size(f))
  /\ Holds(w, Fmt["SAMPLE_SIZE"], sample_size(f))
  /\ Holds(w, Fmt["SAMPLES_PER_BLOCK"], f.channels - 1)
  /\ Holds(w, Fmt["STEREO"], Bit(f.channels = 2))
  /\ Holds(w, Fmt["DATA_TYPE"], Bit(streaming))
  /\ Holds(w, Fmt["HEADROOM"], 7)

PersistHeld(v) == v.state = "STOPPING" => Holds(v.word["CFG_FMT"], Fmt["PERSIST"], 0)

PitchHeld(v) == v.word["TAR_PITCH"] = PitchWord(v.format, v.pitch)

SlotsHeld(v) ==
  LET bins == SlotBins(v.target # NoTarget)
  IN /\ \A k \in 0 .. 5 : Holds(v.word["CFG_VBIN"], Vbin[k], bins[k])
     /\ Holds(v.word["CFG_FMT"], Fmt["V6BIN"], bins[6])
     /\ Holds(v.word["CFG_FMT"], Fmt["V7BIN"], bins[7])

VolumesHeld(v) ==
  /\ v.word["TAR_VOLA"] = VolumeWord(Volumes(v), 0)
  /\ v.word["TAR_VOLB"] = VolumeWord(Volumes(v), 1)
  /\ v.word["TAR_VOLC"] = VolumeWord(Volumes(v), 2)

EnvelopeHeld(rates, curve, release, e) ==
  /\ Holds(rates, Env["ATTACKRATE"], e.attack) /\ Holds(rates, Env["DELAYTIME"], e.delay)
  /\ Holds(curve, Env["DECAYRATE"], e.decay) /\ Holds(curve, Env["HOLDTIME"], e.hold)
  /\ Holds(curve, Env["SUSTAINLEVEL"], e.sustain)
  /\ Holds(release, Env["RELEASERATE"], e.release)

AmplitudeHeld(v) ==
  /\ v.amp # NULL => EnvelopeHeld(v.word["CFG_ENV0"], v.word["CFG_ENVA"],
                                  v.word["LFO_ENV"], v.amp)
  /\ Holds(v.flags, On.ENVA, Bit(v.amp # NULL))

FilterHeld(v) ==
  /\ v.filt # NULL => EnvelopeHeld(v.word["CFG_ENV1"], v.word["CFG_ENVF"],
                                   v.word["CFG_MISC"], v.filt)
  /\ Holds(v.flags, On.ENVF, Bit(v.filt # NULL))

CoefficientsHeld(v) ==
  /\ v.coef # NULL =>
       /\ Holds(v.word["CFG_MISC"], Misc["FMODE"], v.coef.mode)
       /\ Holds(v.word["CFG_MISC"], Misc["Q"], v.coef.q)
       /\ Holds(v.word["TAR_FCA"], Low, v.coef.fc[1])
       /\ Holds(v.word["TAR_FCA"], High, v.coef.fc[2])
       /\ Holds(v.word["TAR_FCB"], Low, v.coef.fc[3])
       /\ Holds(v.word["TAR_FCB"], High, v.coef.fc[4])
  /\ Holds(v.word["CFG_MISC"], Misc["NOTIFY"], 1)

VoiceInv(v) ==
  /\ v \in Voice
  /\ FormatHeld(v.word["CFG_FMT"], v.format, v.streaming)
  /\ PersistHeld(v) /\ PitchHeld(v) /\ SlotsHeld(v) /\ VolumesHeld(v)
  /\ AmplitudeHeld(v) /\ FilterHeld(v) /\ CoefficientsHeld(v)

ParametersInv == app \in Applications /\ VoiceInv(voice)

-----------------------------------------------------------------------------
(* CFG_FMT, which eight calls share.                                       *)

\* w and u agree but for the fields of ns.
AgreeBut(w, u, ns) ==
  \A b : (\A x \in ns : b \notin Mask(Fmt[x])) => (b \in w <=> b \in u)

LEMMA FmtKept ==
  ASSUME NEW w, NEW u, NEW ns \in SUBSET FmtNames, AgreeBut(w, u, ns),
         NEW x \in FmtNames, x \notin ns, NEW n, Holds(w, Fmt[x], n)
  PROVE  Holds(u, Fmt[x], n)
<1>1. \A b \in Mask(Fmt[x]) : \A y \in ns : b \notin Mask(Fmt[y])
  BY FmtApart DEF Apart
<1> QED BY <1>1 DEF AgreeBut, Holds

\* PutAll on named fields of CFG_FMT.
LEMMA FmtPut ==
  ASSUME NEW w, NEW fs, NEW ns \in SUBSET FmtNames,
         \A x \in ns : \E p \in fs : p[1] = Fmt[x],
         \A p \in fs : \E x \in ns : p[1] = Fmt[x],
         \A p, q \in fs : p[1] = q[1] => p = q
  PROVE  /\ AgreeBut(w, PutAll(w, fs), ns)
         /\ \A p \in fs : Holds(PutAll(w, fs), p[1], p[2])
<1>1. AgreeBut(w, PutAll(w, fs), ns)
  BY DEF AgreeBut, PutAll, MAKE_VALUE
<1>2. ASSUME NEW p \in fs PROVE Holds(PutAll(w, fs), p[1], p[2])
  <2>1. \A q \in fs : q # p => Apart(q[1], p[1])
    BY FmtApart
  <2> QED BY <2>1, PutSets
<1> QED BY <1>1, <1>2

LEMMA MakeZero ==
  ASSUME NEW f, f[1] \in Nat, f[2] \in 1 .. 4 PROVE MAKE_VALUE(f, 0) = {}
<1>1. \A b \in Mask(f) : b - f[1] \in {0, 1, 2, 3}
  BY DEF Mask
<1>2. /\ (0 \div 2^0) % 2 # 1 /\ (0 \div 2^1) % 2 # 1
      /\ (0 \div 2^2) % 2 # 1 /\ (0 \div 2^3) % 2 # 1
  OBVIOUS
<1> QED BY <1>1, <1>2 DEF MAKE_VALUE

LEMMA MakeOne ==
  ASSUME NEW f, f[1] \in Nat, f[2] = 1 PROVE MAKE_VALUE(f, 1) = Mask(f)
<1>1. \A b \in Mask(f) : b - f[1] = 0
  BY DEF Mask
<1>2. 2^0 = 1 /\ (1 \div 1) % 2 = 1
  OBVIOUS
<1> QED BY <1>1, <1>2 DEF MAKE_VALUE

-----------------------------------------------------------------------------
(* What each setter does to a voice.                                       *)

FieldNames == {"state", "format", "streaming", "looping", "target", "master",
               "channel", "hrtf", "pitch", "amp", "filt", "coef", "flags"}

\* Fields xs and words rs of the voice may differ, nothing else.
SameBut(v, u, xs, rs) ==
  /\ \A x \in FieldNames \ xs : u[x] = v[x]
  /\ \A r \in WordNames \ rs : u.word[r] = v.word[r]

FormatNames == {"CONTAINER_SIZE", "SAMPLE_SIZE", "DATA_TYPE", "STEREO", "SAMPLES_PER_BLOCK"}

LEMMA PutAllInWord ==
  ASSUME NEW w \in SUBSET (0 .. 31), NEW fs, \A p \in fs : Mask(p[1]) \subseteq 0 .. 31
  PROVE  PutAll(w, fs) \in SUBSET (0 .. 31)
BY DEF PutAll, MAKE_VALUE

LEMMA MakeInWord ==
  ASSUME NEW f, Mask(f) \subseteq 0 .. 31, NEW n
  PROVE  MAKE_VALUE(f, n) \in SUBSET (0 .. 31)
BY DEF MAKE_VALUE

LEMMA FormatWord ==
  ASSUME NEW w \in SUBSET (0 .. 31), Holds(w, Fmt["HEADROOM"], 7), NEW f, NEW s,
         NEW u, u = PutAll(w, FormatFields(f, s))
  PROVE  /\ u \in SUBSET (0 .. 31) /\ FormatHeld(u, f, s)
         /\ AgreeBut(w, u, FormatNames)
<1> DEFINE fs == FormatFields(f, s)
<1>1. fs = {<<Fmt["CONTAINER_SIZE"], container_size(f)>>,
            <<Fmt["SAMPLE_SIZE"], sample_size(f)>>,
            <<Fmt["DATA_TYPE"], Bit(s)>>, <<Fmt["STEREO"], Bit(f.channels = 2)>>,
            <<Fmt["SAMPLES_PER_BLOCK"], f.channels - 1>>}
  BY DEF FormatFields
<1>0. u = PutAll(w, fs)
  OBVIOUS
<1> HIDE DEF fs
<1>2. /\ \A x \in FormatNames : \E p \in fs : p[1] = Fmt[x]
      /\ \A p \in fs : \E x \in FormatNames : p[1] = Fmt[x]
  BY <1>1 DEF FormatNames
<1>3. \A x, y \in FormatNames : x # y => Fmt[x] # Fmt[y]
  BY DEF FormatNames, Fmt
<1>4. \A p, q \in fs : p[1] = q[1] => p = q
  BY <1>1, <1>3 DEF FormatNames
<1>5. FormatNames \in SUBSET FmtNames /\ "HEADROOM" \in FmtNames \ FormatNames
  BY DEF FormatNames, FmtNames
<1>6. AgreeBut(w, u, FormatNames) /\ \A p \in fs : Holds(u, p[1], p[2])
  <2>1. FormatNames \in SUBSET FmtNames
    BY <1>5
  <2>2. \A x \in FormatNames : \E p \in fs : p[1] = Fmt[x]
    BY <1>2
  <2>3. \A p \in fs : \E x \in FormatNames : p[1] = Fmt[x]
    BY <1>2
  <2>4. /\ AgreeBut(w, PutAll(w, fs), FormatNames)
        /\ \A p \in fs : Holds(PutAll(w, fs), p[1], p[2])
    BY <2>1, <2>2, <2>3, <1>4, FmtPut, Zenon
  <2> QED BY <1>0, <2>4
<1>7. Holds(u, Fmt["HEADROOM"], 7)
  BY <1>5, <1>6, FmtKept
<1>8. u \in SUBSET (0 .. 31)
  BY <1>0, <1>2, <1>5, PutAllInWord, FmtApart
<1>9. FormatHeld(u, f, s)
  BY <1>1, <1>6, <1>7 DEF FormatHeld
<1> QED BY <1>6, <1>8, <1>9

LEMMA PitchInWord ==
  ASSUME NEW f, NEW p PROVE PitchWord(f, p) \in SUBSET (0 .. 31)
BY MakeInWord, MaskInWord DEF PitchWord, High

LEMMA SettingFormat ==
  ASSUME NEW v \in Voice, Holds(v.word["CFG_FMT"], Fmt["HEADROOM"], 7),
         NEW f \in nxAudioFormat, NEW u, u = WithFormat(v, f)
  PROVE  /\ u \in Voice /\ SameBut(v, u, {"format"}, {"CFG_FMT", "TAR_PITCH"})
         /\ u.format = f /\ FormatHeld(u.word["CFG_FMT"], u.format, u.streaming)
         /\ AgreeBut(v.word["CFG_FMT"], u.word["CFG_FMT"], FormatNames) /\ PitchHeld(u)
<1> DEFINE w == PutAll(v.word["CFG_FMT"], FormatFields(f, v.streaming))
           p == PitchWord(f, v.pitch)
<1>1. v.word["CFG_FMT"] \in SUBSET (0 .. 31)
  BY DEF Voice, WordNames
<1>2. /\ w \in SUBSET (0 .. 31) /\ FormatHeld(w, f, v.streaming)
      /\ AgreeBut(v.word["CFG_FMT"], w, FormatNames)
  BY <1>1, FormatWord
<1>3. p \in SUBSET (0 .. 31)
  BY PitchInWord
<1>4. u = [v EXCEPT !.format = f, !.word = [v.word EXCEPT !["CFG_FMT"] = w, !["TAR_PITCH"] = p]]
  BY DEF WithFormat, Voice
<1> HIDE DEF w
<1>5. p = PitchWord(f, v.pitch)
  OBVIOUS
<1> HIDE DEF p
<1> DEFINE ws == [v.word EXCEPT !["CFG_FMT"] = w, !["TAR_PITCH"] = p]
<1>6. /\ ws \in [WordNames -> SUBSET (0 .. 31)]
      /\ ws["CFG_FMT"] = w /\ ws["TAR_PITCH"] = p
      /\ \A r \in WordNames \ {"CFG_FMT", "TAR_PITCH"} : ws[r] = v.word[r]
  BY <1>2, <1>3 DEF Voice, WordNames
<1> HIDE DEF ws
<1>7. u \in Voice
  BY <1>4, <1>6 DEF Voice, ws
<1>8. SameBut(v, u, {"format"}, {"CFG_FMT", "TAR_PITCH"})
  BY <1>4, <1>6 DEF Voice, SameBut, FieldNames, ws
<1>9. u.format = f /\ u.word = ws /\ u.streaming = v.streaming /\ u.pitch = v.pitch
  BY <1>4 DEF Voice, ws
<1> QED BY <1>2, <1>5, <1>6, <1>7, <1>8, <1>9 DEF PitchHeld

\* Components that a change of the fields xs and the words rs leaves alone.
LEMMA Untouched ==
  ASSUME NEW v, NEW u, NEW xs, NEW rs, SameBut(v, u, xs, rs)
  PROVE  /\ "state" \notin xs /\ "CFG_FMT" \notin rs /\ PersistHeld(v) => PersistHeld(u)
         /\ {"format", "pitch"} \cap xs = {} /\ "TAR_PITCH" \notin rs /\ PitchHeld(v)
              => PitchHeld(u)
         /\ "target" \notin xs /\ {"CFG_VBIN", "CFG_FMT"} \cap rs = {} /\ SlotsHeld(v)
              => SlotsHeld(u)
         /\ {"amp", "flags"} \cap xs = {} /\ {"CFG_ENV0", "CFG_ENVA", "LFO_ENV"} \cap rs = {}
            /\ AmplitudeHeld(v) => AmplitudeHeld(u)
         /\ {"filt", "flags"} \cap xs = {} /\ {"CFG_ENV1", "CFG_ENVF", "CFG_MISC"} \cap rs = {}
            /\ FilterHeld(v) => FilterHeld(u)
         /\ "coef" \notin xs /\ {"CFG_MISC", "TAR_FCA", "TAR_FCB"} \cap rs = {}
            /\ CoefficientsHeld(v) => CoefficientsHeld(u)
<1> USE DEF SameBut, FieldNames, WordNames
<1>1. "state" \notin xs /\ "CFG_FMT" \notin rs /\ PersistHeld(v) => PersistHeld(u)
  BY DEF PersistHeld
<1>2. {"format", "pitch"} \cap xs = {} /\ "TAR_PITCH" \notin rs /\ PitchHeld(v)
        => PitchHeld(u)
  BY DEF PitchHeld
<1>3. "target" \notin xs /\ {"CFG_VBIN", "CFG_FMT"} \cap rs = {} /\ SlotsHeld(v)
        => SlotsHeld(u)
  BY DEF SlotsHeld
<1>4. {"amp", "flags"} \cap xs = {} /\ {"CFG_ENV0", "CFG_ENVA", "LFO_ENV"} \cap rs = {}
      /\ AmplitudeHeld(v) => AmplitudeHeld(u)
  BY DEF AmplitudeHeld
<1>5. {"filt", "flags"} \cap xs = {} /\ {"CFG_ENV1", "CFG_ENVF", "CFG_MISC"} \cap rs = {}
      /\ FilterHeld(v) => FilterHeld(u)
  BY DEF FilterHeld
<1>6. "coef" \notin xs /\ {"CFG_MISC", "TAR_FCA", "TAR_FCB"} \cap rs = {}
      /\ CoefficientsHeld(v) => CoefficientsHeld(u)
  BY DEF CoefficientsHeld
<1> QED BY <1>1, <1>2, <1>3, <1>4, <1>5, <1>6

VolNames == {"TAR_VOLA", "TAR_VOLB", "TAR_VOLC"}

LEMMA SameVolumes ==
  ASSUME NEW v, NEW u, u.target = v.target, u.master = v.master,
         u.channel = v.channel, u.hrtf = v.hrtf
  PROVE  Volumes(u) = Volumes(v)
BY DEF Volumes, VolumesUncapped

LEMMA VolumesUntouched ==
  ASSUME NEW v, NEW u, NEW xs, NEW rs, SameBut(v, u, xs, rs), VolumesHeld(v),
         {"target", "master", "channel", "hrtf"} \cap xs = {}, VolNames \cap rs = {}
  PROVE  VolumesHeld(u)
<1>1. Volumes(u) = Volumes(v)
  BY SameVolumes DEF SameBut, FieldNames
<1> QED BY <1>1 DEF VolumesHeld, SameBut, VolNames, WordNames

LEMMA VolumeInWord ==
  ASSUME NEW vol, NEW k PROVE VolumeWord(vol, k) \in SUBSET (0 .. 31)
<1>1. /\ Mask(VolEven) \subseteq 0 .. 31 /\ Mask(VolOdd) \subseteq 0 .. 31
      /\ Mask(Nibble6) \subseteq 0 .. 31 /\ Mask(Nibble7) \subseteq 0 .. 31
  BY MaskInWord DEF VolEven, VolOdd, Nibble6, Nibble7
<1> QED BY <1>1, MakeInWord DEF VolumeWord

LEMMA UpdatingVolumes ==
  ASSUME NEW v \in Voice, NEW u, u = voice_update_volumes(v)
  PROVE  u \in Voice /\ SameBut(v, u, {}, VolNames) /\ VolumesHeld(u)
<1> DEFINE a == VolumeWord(Volumes(v), 0)
           b == VolumeWord(Volumes(v), 1)
           c == VolumeWord(Volumes(v), 2)
           ws == [v.word EXCEPT !["TAR_VOLA"] = a, !["TAR_VOLB"] = b, !["TAR_VOLC"] = c]
<1>1. u = [v EXCEPT !.word = ws]
  BY DEF voice_update_volumes, Voice
<1>2. {a, b, c} \subseteq SUBSET (0 .. 31)
  BY VolumeInWord
<1>3. a = VolumeWord(Volumes(v), 0) /\ b = VolumeWord(Volumes(v), 1)
      /\ c = VolumeWord(Volumes(v), 2)
  OBVIOUS
<1> HIDE DEF a, b, c
<1>4. /\ ws \in [WordNames -> SUBSET (0 .. 31)]
      /\ ws["TAR_VOLA"] = a /\ ws["TAR_VOLB"] = b /\ ws["TAR_VOLC"] = c
      /\ \A r \in WordNames \ VolNames : ws[r] = v.word[r]
  BY <1>2 DEF Voice, WordNames, VolNames
<1> HIDE DEF ws
<1>5. u \in Voice
  BY <1>1, <1>4 DEF Voice
<1>6. u.word = ws /\ \A x \in FieldNames : u[x] = v[x]
  BY <1>1 DEF Voice, FieldNames
<1>7. SameBut(v, u, {}, VolNames)
  BY <1>4, <1>6 DEF SameBut
<1>8. Volumes(u) = Volumes(v)
  BY <1>6, SameVolumes DEF FieldNames
<1> QED BY <1>3, <1>4, <1>5, <1>6, <1>7, <1>8 DEF VolumesHeld

\* And of CFG_FMT, when only its fields ns change.
LEMMA FmtUntouched ==
  ASSUME NEW v, NEW u, NEW xs, NEW rs, SameBut(v, u, xs, rs), NEW ns \in SUBSET FmtNames,
         AgreeBut(v.word["CFG_FMT"], u.word["CFG_FMT"], ns)
  PROVE  /\ "state" \notin xs /\ "PERSIST" \notin ns /\ PersistHeld(v) => PersistHeld(u)
         /\ "target" \notin xs /\ "CFG_VBIN" \notin rs /\ {"V6BIN", "V7BIN"} \cap ns = {}
            /\ SlotsHeld(v) => SlotsHeld(u)
         /\ {"format", "streaming"} \cap xs = {} /\ FormatNames \cap ns = {}
            /\ "HEADROOM" \notin ns
            /\ FormatHeld(v.word["CFG_FMT"], v.format, v.streaming)
              => FormatHeld(u.word["CFG_FMT"], u.format, u.streaming)
<1>1. \A x \in FmtNames \ ns : \A n :
        Holds(v.word["CFG_FMT"], Fmt[x], n) => Holds(u.word["CFG_FMT"], Fmt[x], n)
  BY FmtKept
<1> USE DEF SameBut, FieldNames, WordNames, FmtNames, FormatNames
<1>2. "state" \notin xs /\ "PERSIST" \notin ns /\ PersistHeld(v) => PersistHeld(u)
  BY <1>1 DEF PersistHeld
<1>3. "target" \notin xs /\ "CFG_VBIN" \notin rs /\ {"V6BIN", "V7BIN"} \cap ns = {}
      /\ SlotsHeld(v) => SlotsHeld(u)
  BY <1>1 DEF SlotsHeld
<1>4. {"format", "streaming"} \cap xs = {} /\ FormatNames \cap ns = {}
      /\ "HEADROOM" \notin ns
      /\ FormatHeld(v.word["CFG_FMT"], v.format, v.streaming)
        => FormatHeld(u.word["CFG_FMT"], u.format, u.streaming)
  BY <1>1 DEF FormatHeld
<1> QED BY <1>2, <1>3, <1>4

\* The three gains.
LEMMA SettingGain ==
  ASSUME NEW v \in Voice, NEW u,
         \/ \E g \in Int : u = WithMaster(v, g)
         \/ \E c \in ChannelGains : u = WithChannel(v, c)
         \/ \E h \in HrtfGains : u = WithHrtf(v, h)
  PROVE  /\ u \in Voice /\ SameBut(v, u, {"master", "channel", "hrtf"}, VolNames)
         /\ VolumesHeld(u)
<1>1. PICK w : /\ w \in Voice /\ SameBut(v, w, {"master", "channel", "hrtf"}, {})
               /\ u = voice_update_volumes(w)
  <2>1. ASSUME NEW g \in Int, u = WithMaster(v, g)
        PROVE  LET w == [v EXCEPT !.master = g]
               IN /\ w \in Voice /\ SameBut(v, w, {"master", "channel", "hrtf"}, {})
                  /\ u = voice_update_volumes(w)
    BY <2>1 DEF WithMaster, Voice, SameBut, FieldNames
  <2>2. ASSUME NEW c \in ChannelGains, u = WithChannel(v, c)
        PROVE  LET w == [v EXCEPT !.channel = c]
               IN /\ w \in Voice /\ SameBut(v, w, {"master", "channel", "hrtf"}, {})
                  /\ u = voice_update_volumes(w)
    BY <2>2 DEF WithChannel, Voice, SameBut, FieldNames
  <2>3. ASSUME NEW h \in HrtfGains, u = WithHrtf(v, h)
        PROVE  LET w == [v EXCEPT !.hrtf = h]
               IN /\ w \in Voice /\ SameBut(v, w, {"master", "channel", "hrtf"}, {})
                  /\ u = voice_update_volumes(w)
    BY <2>3 DEF WithHrtf, Voice, SameBut, FieldNames
  <2> QED BY <2>1, <2>2, <2>3
<1>2. u \in Voice /\ SameBut(w, u, {}, VolNames) /\ VolumesHeld(u)
  BY <1>1, UpdatingVolumes
<1> QED BY <1>1, <1>2 DEF SameBut

LEMMA SettingPitch ==
  ASSUME NEW v \in Voice, NEW p \in Int, NEW u, u = WithPitch(v, p)
  PROVE  u \in Voice /\ SameBut(v, u, {"pitch"}, {"TAR_PITCH"}) /\ PitchHeld(u)
<1> DEFINE w == PitchWord(v.format, p)
           ws == [v.word EXCEPT !["TAR_PITCH"] = w]
<1>1. u = [v EXCEPT !.pitch = p, !.word = ws]
  BY DEF WithPitch, Voice
<1>2. w \in SUBSET (0 .. 31)
  BY PitchInWord
<1>3. w = PitchWord(v.format, p)
  OBVIOUS
<1> HIDE DEF w
<1>4. /\ ws \in [WordNames -> SUBSET (0 .. 31)] /\ ws["TAR_PITCH"] = w
      /\ \A r \in WordNames \ {"TAR_PITCH"} : ws[r] = v.word[r]
  BY <1>2 DEF Voice, WordNames
<1> HIDE DEF ws
<1>5. u \in Voice
  BY <1>1, <1>4 DEF Voice
<1>6. u.word = ws /\ u.pitch = p /\ \A x \in FieldNames \ {"pitch"} : u[x] = v[x]
  BY <1>1 DEF Voice, FieldNames
<1> QED BY <1>3, <1>4, <1>5, <1>6 DEF SameBut, PitchHeld, FieldNames

LEMMA BinsWord ==
  ASSUME NEW bins, NEW w, w = UNION {MAKE_VALUE(Vbin[k], bins[k]) : k \in 0 .. 5}
  PROVE  w \in SUBSET (0 .. 31) /\ \A k \in 0 .. 5 : Holds(w, Vbin[k], bins[k])
<1>1. \A k \in 0 .. 5 : MAKE_VALUE(Vbin[k], bins[k]) \subseteq Mask(Vbin[k])
  BY DEF MAKE_VALUE
<1> QED BY <1>1, VbinApart DEF Holds, Apart

LEMMA SlotsWord ==
  ASSUME NEW w \in SUBSET (0 .. 31), NEW bins, NEW u,
         u = PutAll(w, {<<Fmt["V6BIN"], bins[6]>>, <<Fmt["V7BIN"], bins[7]>>})
  PROVE  /\ u \in SUBSET (0 .. 31) /\ AgreeBut(w, u, {"V6BIN", "V7BIN"})
         /\ Holds(u, Fmt["V6BIN"], bins[6]) /\ Holds(u, Fmt["V7BIN"], bins[7])
<1> DEFINE fs == {<<Fmt["V6BIN"], bins[6]>>, <<Fmt["V7BIN"], bins[7]>>}
           ns == {"V6BIN", "V7BIN"}
<1>1. ns \in SUBSET FmtNames
  BY DEF FmtNames
<1>2. Fmt["V6BIN"] # Fmt["V7BIN"]
  BY DEF Fmt
<1>3. /\ \A x \in ns : \E p \in fs : p[1] = Fmt[x]
      /\ \A p \in fs : \E x \in ns : p[1] = Fmt[x]
      /\ \A p, q \in fs : p[1] = q[1] => p = q
  BY <1>2
<1>4. AgreeBut(w, PutAll(w, fs), ns) /\ \A p \in fs : Holds(PutAll(w, fs), p[1], p[2])
  <2> HIDE DEF fs, ns
  <2> QED BY <1>1, <1>3, FmtPut, Zenon
<1>5. PutAll(w, fs) \in SUBSET (0 .. 31)
  BY <1>1, <1>3, PutAllInWord, FmtApart
<1> QED BY <1>4, <1>5

SlotWords == {"TAR_HRTF", "CFG_VBIN", "CFG_FMT"} \cup VolNames

LEMMA SettingTarget ==
  ASSUME NEW v \in Voice, NEW t \in Targets, NEW u, u = WithTarget(v, t)
  PROVE  /\ u \in Voice /\ SameBut(v, u, {"target"}, SlotWords) /\ u.target = t
         /\ AgreeBut(v.word["CFG_FMT"], u.word["CFG_FMT"], {"V6BIN", "V7BIN"})
         /\ (v.target = NoTarget) # (t = NoTarget) => SlotsHeld(u) /\ VolumesHeld(u)
         /\ SlotsHeld(v) /\ VolumesHeld(v) => SlotsHeld(u) /\ VolumesHeld(u)
<1> DEFINE bins == SlotBins(t # NoTarget)
           h == MAKE_VALUE(Low, t)
           b == UNION {MAKE_VALUE(Vbin[k], bins[k]) : k \in 0 .. 5}
           w == PutAll(v.word["CFG_FMT"],
                       {<<Fmt["V6BIN"], bins[6]>>, <<Fmt["V7BIN"], bins[7]>>})
<1>1. h \in SUBSET (0 .. 31)
  BY MakeInWord, MaskInWord DEF Low
<1>2. v.word["CFG_FMT"] \in SUBSET (0 .. 31)
  BY DEF Voice, WordNames
<1>3. b \in SUBSET (0 .. 31) /\ \A k \in 0 .. 5 : Holds(b, Vbin[k], bins[k])
  BY BinsWord
<1>4. /\ w \in SUBSET (0 .. 31) /\ AgreeBut(v.word["CFG_FMT"], w, {"V6BIN", "V7BIN"})
      /\ Holds(w, Fmt["V6BIN"], bins[6]) /\ Holds(w, Fmt["V7BIN"], bins[7])
  BY <1>2, SlotsWord
<1>5. CASE (v.target = NoTarget) = (t = NoTarget)
  <2> DEFINE ws == [v.word EXCEPT !["TAR_HRTF"] = h]
  <2>1. u = [v EXCEPT !.target = t, !.word = ws]
    BY <1>5 DEF WithTarget, Voice
  <2> HIDE DEF h
  <2>2. /\ ws \in [WordNames -> SUBSET (0 .. 31)]
        /\ \A r \in WordNames \ {"TAR_HRTF"} : ws[r] = v.word[r]
    BY <1>1 DEF Voice, WordNames
  <2> HIDE DEF ws
  <2>3. u \in Voice
    BY <2>1, <2>2 DEF Voice
  <2>4. u.word = ws /\ u.target = t /\ \A x \in FieldNames \ {"target"} : u[x] = v[x]
    BY <2>1 DEF Voice, FieldNames
  <2>5. SameBut(v, u, {"target"}, {"TAR_HRTF"})
    BY <2>2, <2>4 DEF SameBut
  <2>6. \A x : x \in u.word["CFG_FMT"] <=> x \in v.word["CFG_FMT"]
    BY <2>5 DEF SameBut, WordNames
  <2>7. SlotsHeld(v) => SlotsHeld(u)
    BY <1>5, <2>4, <2>5 DEF SlotsHeld, SameBut, WordNames
  <2>8. Volumes(u) = Volumes(v)
    BY <1>5, <2>4 DEF Volumes, VolumesUncapped, FieldNames
  <2>9. VolumesHeld(v) => VolumesHeld(u)
    BY <2>8, <2>5 DEF VolumesHeld, SameBut, WordNames
  <2> QED BY <1>5, <2>3, <2>4, <2>5, <2>6, <2>7, <2>9 DEF SameBut, AgreeBut, SlotWords
<1>6. CASE (v.target = NoTarget) # (t = NoTarget)
  <2> DEFINE ws == [v.word EXCEPT !["TAR_HRTF"] = h, !["CFG_VBIN"] = b, !["CFG_FMT"] = w]
             s  == [v EXCEPT !.target = t, !.word = ws]
  <2>1. u = voice_update_volumes(s)
    <3> DEFINE set == [v EXCEPT !.target = t, !.word["TAR_HRTF"] = h]
               vb  == [v.word EXCEPT !["TAR_HRTF"] = h]
    <3>1. set = [v EXCEPT !.target = t, !.word = vb]
      BY DEF Voice
    <3>2. set.word = vb /\ vb["CFG_FMT"] = v.word["CFG_FMT"]
      BY <3>1 DEF Voice, WordNames
    <3>3. u = voice_update_volumes(
                [set EXCEPT !.word["CFG_VBIN"] = b,
                            !.word["CFG_FMT"] = PutAll(@, {<<Fmt["V6BIN"], bins[6]>>,
                                                           <<Fmt["V7BIN"], bins[7]>>})])
      BY <1>6 DEF WithTarget
    <3> HIDE DEF set
    <3>4. [set EXCEPT !.word["CFG_VBIN"] = b,
                      !.word["CFG_FMT"] = PutAll(@, {<<Fmt["V6BIN"], bins[6]>>,
                                                     <<Fmt["V7BIN"], bins[7]>>})]
          = [set EXCEPT !.word = [[vb EXCEPT !["CFG_VBIN"] = b] EXCEPT !["CFG_FMT"] = w]]
      <4> HIDE DEF b, bins
      <4> QED BY <3>1, <3>2 DEF Voice, WordNames
    <3>5. [[vb EXCEPT !["CFG_VBIN"] = b] EXCEPT !["CFG_FMT"] = w] = ws
      <4> HIDE DEF b, w, h
      <4> QED BY DEF Voice, WordNames
    <3>6. [set EXCEPT !.word = ws] = s
      <4> HIDE DEF ws
      <4> QED BY <3>1 DEF Voice
    <3> QED BY <3>3, <3>4, <3>5, <3>6
  <2> HIDE DEF h, b, w, bins
  <2>2. /\ ws \in [WordNames -> SUBSET (0 .. 31)]
        /\ ws["CFG_VBIN"] = b /\ ws["CFG_FMT"] = w
        /\ \A r \in WordNames \ {"TAR_HRTF", "CFG_VBIN", "CFG_FMT"} : ws[r] = v.word[r]
    BY <1>1, <1>3, <1>4 DEF Voice, WordNames
  <2> HIDE DEF ws
  <2>3. s \in Voice
    BY <2>2 DEF Voice
  <2>4. s.word = ws /\ s.target = t /\ \A x \in FieldNames \ {"target"} : s[x] = v[x]
    BY DEF Voice, FieldNames
  <2> HIDE DEF s
  <2>5. u \in Voice /\ SameBut(s, u, {}, VolNames) /\ VolumesHeld(u)
    BY <2>1, <2>3, UpdatingVolumes
  <2>6. SameBut(v, u, {"target"}, SlotWords)
    BY <2>2, <2>4, <2>5 DEF SameBut, SlotWords
  <2>7. u.target = t /\ u.word["CFG_FMT"] = w /\ u.word["CFG_VBIN"] = b
    BY <2>2, <2>4, <2>5 DEF SameBut, FieldNames, WordNames, VolNames
  <2>8. SlotsHeld(u)
    BY <1>3, <1>4, <2>7 DEF SlotsHeld, bins
  <2> QED BY <1>4, <2>5, <2>6, <2>7, <2>8
<1> QED BY <1>5, <1>6

-----------------------------------------------------------------------------
(* The invariant through the setters.                                      *)

\* The part of the invariant that does not depend on the mixbins.
Based(v) ==
  /\ v \in Voice
  /\ FormatHeld(v.word["CFG_FMT"], v.format, v.streaming)
  /\ PersistHeld(v) /\ PitchHeld(v)
  /\ AmplitudeHeld(v) /\ FilterHeld(v) /\ CoefficientsHeld(v)

LEMMA AfterGain ==
  ASSUME NEW v, VoiceInv(v), NEW u,
         \/ \E g \in Int : u = WithMaster(v, g)
         \/ \E c \in ChannelGains : u = WithChannel(v, c)
         \/ \E h \in HrtfGains : u = WithHrtf(v, h)
  PROVE  VoiceInv(u)
<1> DEFINE xs == {"master", "channel", "hrtf"}
<1>1. v \in Voice
  BY DEF VoiceInv
<1>2. u \in Voice /\ SameBut(v, u, xs, VolNames) /\ VolumesHeld(u)
  BY <1>1, SettingGain
<1>3. AgreeBut(v.word["CFG_FMT"], u.word["CFG_FMT"], {})
  BY <1>2 DEF SameBut, AgreeBut, VolNames, WordNames
<1>4. /\ FormatHeld(u.word["CFG_FMT"], u.format, u.streaming) /\ PersistHeld(u)
      /\ SlotsHeld(u)
  BY <1>2, <1>3, FmtUntouched DEF VoiceInv, VolNames
<1>5. PitchHeld(u) /\ AmplitudeHeld(u) /\ FilterHeld(u) /\ CoefficientsHeld(u)
  BY <1>2, Untouched DEF VoiceInv, VolNames
<1> QED BY <1>2, <1>4, <1>5 DEF VoiceInv

LEMMA AfterPitch ==
  ASSUME NEW v, VoiceInv(v), NEW p \in Int PROVE VoiceInv(WithPitch(v, p))
<1> DEFINE u == WithPitch(v, p)
<1>1. v \in Voice
  BY DEF VoiceInv
<1>2. u \in Voice /\ SameBut(v, u, {"pitch"}, {"TAR_PITCH"}) /\ PitchHeld(u)
  BY <1>1, SettingPitch
<1> HIDE DEF u
<1>3. AgreeBut(v.word["CFG_FMT"], u.word["CFG_FMT"], {})
  BY <1>2 DEF SameBut, AgreeBut, WordNames
<1>4. /\ FormatHeld(u.word["CFG_FMT"], u.format, u.streaming) /\ PersistHeld(u)
      /\ SlotsHeld(u)
  BY <1>2, <1>3, FmtUntouched DEF VoiceInv
<1>5. AmplitudeHeld(u) /\ FilterHeld(u) /\ CoefficientsHeld(u)
  BY <1>2, Untouched DEF VoiceInv
<1>6. VolumesHeld(u)
  BY <1>2, VolumesUntouched DEF VoiceInv, VolNames
<1> QED BY <1>2, <1>4, <1>5, <1>6 DEF VoiceInv, u

LEMMA AfterFormat ==
  ASSUME NEW v, VoiceInv(v), NEW f \in nxAudioFormat PROVE VoiceInv(WithFormat(v, f))
<1> DEFINE u == WithFormat(v, f)
<1>1. v \in Voice /\ Holds(v.word["CFG_FMT"], Fmt["HEADROOM"], 7)
  BY DEF VoiceInv, FormatHeld
<1>2. /\ u \in Voice /\ SameBut(v, u, {"format"}, {"CFG_FMT", "TAR_PITCH"})
      /\ FormatHeld(u.word["CFG_FMT"], u.format, u.streaming)
      /\ AgreeBut(v.word["CFG_FMT"], u.word["CFG_FMT"], FormatNames) /\ PitchHeld(u)
  BY <1>1, SettingFormat
<1> HIDE DEF u
<1>3. FormatNames \in SUBSET FmtNames
  BY DEF FormatNames, FmtNames
<1>4. PersistHeld(u) /\ SlotsHeld(u)
  BY <1>2, <1>3, FmtUntouched DEF VoiceInv, FormatNames
<1>5. AmplitudeHeld(u) /\ FilterHeld(u) /\ CoefficientsHeld(u)
  BY <1>2, Untouched DEF VoiceInv
<1>6. VolumesHeld(u)
  BY <1>2, VolumesUntouched DEF VoiceInv, VolNames
<1> QED BY <1>2, <1>4, <1>5, <1>6 DEF VoiceInv, u

\* A change of target, on a voice whose mixbins are set and on a new one,
\* whose target is entry 0 until then.
LEMMA AfterTarget ==
  ASSUME NEW v, Based(v), NEW t \in Targets,
         \/ SlotsHeld(v) /\ VolumesHeld(v)
         \/ (v.target = NoTarget) # (t = NoTarget)
  PROVE  VoiceInv(WithTarget(v, t))
<1> DEFINE u == WithTarget(v, t)
           ns == {"V6BIN", "V7BIN"}
<1>1. v \in Voice
  BY DEF Based
<1>2. /\ u \in Voice /\ SameBut(v, u, {"target"}, SlotWords)
      /\ AgreeBut(v.word["CFG_FMT"], u.word["CFG_FMT"], ns)
      /\ SlotsHeld(u) /\ VolumesHeld(u)
  BY <1>1, SettingTarget
<1> HIDE DEF u
<1>3. ns \in SUBSET FmtNames /\ ns \cap FormatNames = {} /\ "HEADROOM" \notin ns
      /\ "PERSIST" \notin ns
  BY DEF FormatNames, FmtNames
<1> HIDE DEF ns
<1>4. FormatHeld(u.word["CFG_FMT"], u.format, u.streaming) /\ PersistHeld(u)
  BY <1>2, <1>3, FmtUntouched DEF Based
<1>5. PitchHeld(u) /\ AmplitudeHeld(u) /\ FilterHeld(u) /\ CoefficientsHeld(u)
  BY <1>2, Untouched DEF Based, SlotWords, VolNames
<1> QED BY <1>2, <1>4, <1>5 DEF VoiceInv, u

LEMMA FlagFields ==
  /\ On.ENVF[1] = 24 /\ On.ENVF[2] = 4 /\ On.ENVA[1] = 28 /\ On.ENVA[2] = 4
  /\ Mask(On.ENVF) \subseteq 24 .. 31 /\ Mask(On.ENVA) \subseteq 24 .. 31
  /\ Apart(On.ENVA, On.ENVF)
BY DEF On, Mask, Apart

LEMMA NoFlags ==
  Holds({}, On.ENVA, 0) /\ Holds({}, On.ENVF, 0)
BY FlagFields, MakeZero DEF Holds

LEMMA Fresh ==
  ASSUME NEW f \in nxAudioFormat, NEW v, v = Cleared(f)
  PROVE  /\ v \in Voice /\ v.target = 0 /\ Holds(v.word["CFG_FMT"], Fmt["HEADROOM"], 7)
         /\ v.state = "STOPPED" /\ AmplitudeHeld(v) /\ FilterHeld(v)
         /\ CoefficientsHeld(v)
<1> DEFINE h == MAKE_VALUE(Fmt["HEADROOM"], 7)
           n == Mask(Misc["NOTIFY"])
           ws == [r \in WordNames |-> CASE r = "CFG_FMT" -> h
                                        [] r = "CFG_MISC" -> n
                                        [] OTHER -> {}]
<1>1. h \in SUBSET (0 .. 31) /\ Holds(h, Fmt["HEADROOM"], 7)
  BY MakeInWord, FmtApart DEF FmtNames, Holds, MAKE_VALUE
<1>2. n \in SUBSET (0 .. 31) /\ Holds(n, Misc["NOTIFY"], 1)
  <2>1. Misc["NOTIFY"][1] \in Nat /\ Misc["NOTIFY"][2] = 1
    BY MiscFields DEF MiscNames
  <2>2. MAKE_VALUE(Misc["NOTIFY"], 1) = n
    BY <2>1, MakeOne
  <2> QED BY <2>2, MiscApart DEF Holds, MiscNames
<1>3. v = [state |-> "STOPPED", format |-> f, streaming |-> FALSE, looping |-> FALSE,
           target |-> 0, master |-> Muted, channel |-> [k \in 0 .. 5 |-> Muted],
           hrtf |-> [front |-> Muted, rear |-> Muted], pitch |-> 0,
           amp |-> NULL, filt |-> NULL, coef |-> NULL, flags |-> {}, word |-> ws]
  BY DEF Cleared
<1> HIDE DEF h, n
<1>4. ws \in [WordNames -> SUBSET (0 .. 31)] /\ ws["CFG_FMT"] = h /\ ws["CFG_MISC"] = n
  BY <1>1, <1>2 DEF WordNames
<1> HIDE DEF ws
<1>5. v \in Voice
  BY <1>3, <1>4 DEF Voice, Targets, ChannelGains, HrtfGains, Muted
<1>6. /\ v.target = 0 /\ v.state = "STOPPED" /\ v.flags = {} /\ v.word = ws
      /\ v.amp = NULL /\ v.filt = NULL /\ v.coef = NULL
  BY <1>3
<1>7. Bit(FALSE) = 0
  BY DEF Bit
<1>8. AmplitudeHeld(v) /\ FilterHeld(v)
  BY <1>6, <1>7, NoFlags DEF AmplitudeHeld, FilterHeld
<1>9. CoefficientsHeld(v)
  BY <1>2, <1>4, <1>6 DEF CoefficientsHeld
<1> QED BY <1>1, <1>4, <1>5, <1>6, <1>8, <1>9

LEMMA AfterCreate ==
  ASSUME NEW f \in nxAudioFormat PROVE VoiceInv(Created(f))
<1> DEFINE c0 == Cleared(f)
           c1 == WithFormat(c0, f)
           c2 == WithTarget(c1, NoTarget)
           c3 == WithMaster(c2, 0)
           c4 == WithChannel(c3, StereoGains)
           c5 == WithHrtf(c4, [front |-> 0, rear |-> 0])
<1>1. /\ c0 \in Voice /\ c0.target = 0 /\ Holds(c0.word["CFG_FMT"], Fmt["HEADROOM"], 7)
      /\ c0.state = "STOPPED" /\ AmplitudeHeld(c0) /\ FilterHeld(c0)
      /\ CoefficientsHeld(c0)
  BY Fresh
<1> HIDE DEF c0
<1>2. Based(c1) /\ c1.target = 0
  <2>1. /\ c1 \in Voice /\ SameBut(c0, c1, {"format"}, {"CFG_FMT", "TAR_PITCH"})
        /\ FormatHeld(c1.word["CFG_FMT"], c1.format, c1.streaming) /\ PitchHeld(c1)
    BY <1>1, SettingFormat
  <2> HIDE DEF c1
  <2>2. c1.target = 0 /\ c1.state = "STOPPED"
    BY <1>1, <2>1 DEF SameBut, FieldNames
  <2>3. AmplitudeHeld(c1) /\ FilterHeld(c1) /\ CoefficientsHeld(c1)
    BY <1>1, <2>1, Untouched
  <2> QED BY <2>1, <2>2, <2>3 DEF Based, PersistHeld
<1> HIDE DEF c1
<1>3. VoiceInv(c2)
  BY <1>2, AfterTarget DEF Targets, NoTarget
<1> HIDE DEF c2
<1>4. VoiceInv(c3)
  BY <1>3, AfterGain
<1> HIDE DEF c3
<1>5. StereoGains \in ChannelGains /\ [front |-> 0, rear |-> 0] \in HrtfGains
  BY DEF StereoGains, ChannelGains, HrtfGains, Muted
<1>6. VoiceInv(c4)
  BY <1>4, <1>5, AfterGain
<1> HIDE DEF c4
<1>7. VoiceInv(c5)
  BY <1>5, <1>6, AfterGain
<1> QED BY <1>7, AfterPitch DEF Created, c4, c3, c2, c1, c0

-----------------------------------------------------------------------------
(* The calls that change CFG_FMT but for the format.                       *)

PlayNames == {"DATA_TYPE", "PERSIST", "LOOP"}

LEMMA AfterFmtWord ==
  ASSUME NEW v, VoiceInv(v), NEW u,
         u.word["CFG_FMT"] \in SUBSET (0 .. 31),
         u = [v EXCEPT !.state = u.state, !.streaming = u.streaming,
                       !.looping = u.looping, !.word["CFG_FMT"] = u.word["CFG_FMT"]],
         u.state \in {"STOPPED", "PLAYING", "STOPPING"},
         u.streaming \in BOOLEAN, u.looping \in BOOLEAN,
         AgreeBut(v.word["CFG_FMT"], u.word["CFG_FMT"], PlayNames),
         Holds(u.word["CFG_FMT"], Fmt["DATA_TYPE"], Bit(u.streaming)), PersistHeld(u)
  PROVE  VoiceInv(u)
<1> DEFINE w == u.word["CFG_FMT"]
           xs == {"state", "streaming", "looping"}
           ws == [v.word EXCEPT !["CFG_FMT"] = w]
           st == u.state
           sm == u.streaming
           lp == u.looping
<1>1. v \in Voice
  BY DEF VoiceInv
<1>2. u = [v EXCEPT !.state = st, !.streaming = sm, !.looping = lp, !.word = ws]
  BY <1>1 DEF Voice
<1>3. w \in SUBSET (0 .. 31) /\ st \in {"STOPPED", "PLAYING", "STOPPING"}
      /\ sm \in BOOLEAN /\ lp \in BOOLEAN
  OBVIOUS
<1> HIDE DEF w, st, sm, lp
<1>4. /\ ws \in [WordNames -> SUBSET (0 .. 31)]
      /\ \A r \in WordNames \ {"CFG_FMT"} : ws[r] = v.word[r]
  BY <1>1, <1>3 DEF Voice, WordNames
<1> HIDE DEF ws
<1>5. u \in Voice
  BY <1>1, <1>2, <1>3, <1>4 DEF Voice
<1>6. SameBut(v, u, xs, {"CFG_FMT"})
  BY <1>1, <1>2, <1>4 DEF Voice, SameBut, FieldNames
<1>7. PlayNames \in SUBSET FmtNames
  BY DEF PlayNames, FmtNames
<1>8. \A x \in FmtNames \ PlayNames : \A n :
        Holds(v.word["CFG_FMT"], Fmt[x], n) => Holds(u.word["CFG_FMT"], Fmt[x], n)
  BY <1>7, FmtKept
<1>9. u.format = v.format
  BY <1>6 DEF SameBut, FieldNames
<1>10. FormatHeld(u.word["CFG_FMT"], u.format, u.streaming)
  BY <1>8, <1>9 DEF VoiceInv, FormatHeld, PlayNames, FmtNames
<1>11. SlotsHeld(u)
  BY <1>6, <1>7, FmtUntouched DEF VoiceInv, PlayNames
<1>12. PitchHeld(u) /\ AmplitudeHeld(u) /\ FilterHeld(u) /\ CoefficientsHeld(u)
  BY <1>6, Untouched DEF VoiceInv
<1>13. VolumesHeld(u)
  BY <1>6, VolumesUntouched DEF VoiceInv, VolNames
<1> QED BY <1>5, <1>10, <1>11, <1>12, <1>13 DEF VoiceInv

LEMMA PlayFields ==
  \A x \in PlayNames : /\ Fmt[x][1] \in Nat /\ Fmt[x][2] = 1 /\ x \in FmtNames
                       /\ MAKE_VALUE(Fmt[x], 0) = {}
                       /\ MAKE_VALUE(Fmt[x], 1) = Mask(Fmt[x])
<1>1. \A x \in PlayNames : Fmt[x][1] \in Nat /\ Fmt[x][2] = 1 /\ x \in FmtNames
  BY FmtFields DEF PlayNames, FmtNames
<1> QED BY <1>1, MakeZero, MakeOne

LEMMA PlayApart ==
  ASSUME NEW x \in PlayNames, NEW y \in PlayNames, x # y
  PROVE  Mask(Fmt[x]) \cap Mask(Fmt[y]) = {}
BY FmtApart, PlayFields DEF Apart

\* What Submit, Queue, SetLooping, Start, Release and Stop make of CFG_FMT.
LEMMA PlayWords ==
  ASSUME NEW w \in SUBSET (0 .. 31), NEW b, NEW c, NEW u,
         \/ u = w \ Mask(Fmt["DATA_TYPE"])
         \/ u = w \cup Mask(Fmt["DATA_TYPE"])
         \/ u = Put(w, Fmt["LOOP"], b)
         \/ u = PutAll(w, {<<Fmt["PERSIST"], b>>, <<Fmt["LOOP"], c>>})
         \/ u = w \ Mask(Fmt["PERSIST"])
         \/ u = w \ (Mask(Fmt["PERSIST"]) \cup Mask(Fmt["LOOP"]))
  PROVE  /\ u \in SUBSET (0 .. 31) /\ AgreeBut(w, u, PlayNames)
<1> DEFINE D == Mask(Fmt["DATA_TYPE"])
           P == Mask(Fmt["PERSIST"])
           L == Mask(Fmt["LOOP"])
<1>1. D \subseteq 0 .. 31 /\ P \subseteq 0 .. 31 /\ L \subseteq 0 .. 31
  BY FmtApart DEF FmtNames
<1>2. u \subseteq w \cup D \cup P \cup L /\ w \subseteq u \cup D \cup P \cup L
  <2>1. CASE u = Put(w, Fmt["LOOP"], b)
    BY <2>1 DEF Put, MAKE_VALUE
  <2>2. CASE u = PutAll(w, {<<Fmt["PERSIST"], b>>, <<Fmt["LOOP"], c>>})
    <3> DEFINE fs == {<<Fmt["PERSIST"], b>>, <<Fmt["LOOP"], c>>}
    <3>1. \A p \in fs : Mask(p[1]) \subseteq P \cup L /\ MAKE_VALUE(p[1], p[2]) \subseteq Mask(p[1])
      BY DEF MAKE_VALUE
    <3> HIDE DEF fs, P, L, D
    <3>2. u \subseteq w \cup P \cup L /\ w \subseteq u \cup P \cup L
      BY <2>2, <3>1 DEF PutAll, fs
    <3> QED BY <3>2
  <2> HIDE DEF D, P, L
  <2> QED BY <2>1, <2>2 DEF D, P, L
<1>3. AgreeBut(w, u, PlayNames)
  BY <1>2 DEF AgreeBut, PlayNames
<1> QED BY <1>1, <1>2, <1>3

LEMMA PlayHeld ==
  ASSUME NEW w, NEW d, Holds(w, Fmt["DATA_TYPE"], d), NEW b, NEW c
  PROVE  /\ Holds(w \ Mask(Fmt["DATA_TYPE"]), Fmt["DATA_TYPE"], 0)
         /\ Holds(w \cup Mask(Fmt["DATA_TYPE"]), Fmt["DATA_TYPE"], 1)
         /\ \A u : \/ u = Put(w, Fmt["LOOP"], b)
                   \/ u = PutAll(w, {<<Fmt["PERSIST"], b>>, <<Fmt["LOOP"], c>>})
                   \/ u = w \ Mask(Fmt["PERSIST"])
                   \/ u = w \ (Mask(Fmt["PERSIST"]) \cup Mask(Fmt["LOOP"]))
              => Holds(u, Fmt["DATA_TYPE"], d)
         /\ \A u : \/ u = w \ Mask(Fmt["PERSIST"])
                   \/ u = w \ (Mask(Fmt["PERSIST"]) \cup Mask(Fmt["LOOP"]))
              => Holds(u, Fmt["PERSIST"], 0)
<1> DEFINE D == Mask(Fmt["DATA_TYPE"])
           P == Mask(Fmt["PERSIST"])
           L == Mask(Fmt["LOOP"])
<1>1. D \cap P = {} /\ D \cap L = {} /\ P \cap L = {}
  BY PlayApart DEF PlayNames
<1>2. /\ MAKE_VALUE(Fmt["DATA_TYPE"], 0) = {} /\ MAKE_VALUE(Fmt["DATA_TYPE"], 1) = D
      /\ MAKE_VALUE(Fmt["PERSIST"], 0) = {}
  BY PlayFields DEF PlayNames
<1>3. PutAll(w, {<<Fmt["PERSIST"], b>>, <<Fmt["LOOP"], c>>}) \cap D = w \cap D
  BY <1>1, PutKeeps DEF Apart
<1>4. Put(w, Fmt["LOOP"], b) \cap D = w \cap D
  BY <1>1 DEF Put, MAKE_VALUE
<1>5. /\ (w \ D) \cap D = {} /\ (w \cup D) \cap D = D
      /\ (w \ P) \cap D = w \cap D /\ (w \ (P \cup L)) \cap D = w \cap D
      /\ (w \ P) \cap P = {} /\ (w \ (P \cup L)) \cap P = {}
  BY <1>1
<1> HIDE DEF D, P, L
<1> QED BY <1>2, <1>3, <1>4, <1>5 DEF Holds, D, P, L

LEMMA PersistKept ==
  ASSUME NEW w, NEW b, NEW u,
         u = w \cup Mask(Fmt["DATA_TYPE"]) \/ u = Put(w, Fmt["LOOP"], b),
         Holds(w, Fmt["PERSIST"], 0)
  PROVE  Holds(u, Fmt["PERSIST"], 0)
<1> DEFINE D == Mask(Fmt["DATA_TYPE"])
           P == Mask(Fmt["PERSIST"])
           L == Mask(Fmt["LOOP"])
<1>1. D \cap P = {} /\ P \cap L = {}
  BY PlayApart DEF PlayNames
<1>2. Put(w, Fmt["LOOP"], b) \cap P = w \cap P
  BY <1>1 DEF Put, MAKE_VALUE
<1>3. (w \cup D) \cap P = w \cap P
  BY <1>1
<1> HIDE DEF D, P, L
<1> QED BY <1>2, <1>3 DEF Holds, D, P

LEMMA PlayStep ==
  ASSUME VoiceInv(voice),
         \/ \E on \in BOOLEAN : VoiceSetLooping(on)
         \/ BufferSubmit \/ BufferQueue \/ VoiceStart \/ VoiceRelease \/ VoiceStop \/ Idle
  PROVE  VoiceInv(voice')
<1> DEFINE w == voice.word["CFG_FMT"]
           u == voice'.word["CFG_FMT"]
<1>1. voice \in Voice /\ w \in SUBSET (0 .. 31)
  BY DEF VoiceInv, Voice, WordNames
<1>2. Holds(w, Fmt["DATA_TYPE"], Bit(voice.streaming)) /\ PersistHeld(voice)
  BY DEF VoiceInv, FormatHeld
<1>3. Bit(TRUE) = 1 /\ Bit(FALSE) = 0
  BY DEF Bit
<1> DEFINE Like ==
      /\ voice' = [voice EXCEPT !.state = voice'.state, !.streaming = voice'.streaming,
                                !.looping = voice'.looping, !.word["CFG_FMT"] = u]
      /\ voice'.state \in {"STOPPED", "PLAYING", "STOPPING"}
      /\ voice'.streaming \in BOOLEAN /\ voice'.looping \in BOOLEAN
<1>4. ASSUME Like, u \in SUBSET (0 .. 31), AgreeBut(w, u, PlayNames),
             Holds(u, Fmt["DATA_TYPE"], Bit(voice'.streaming)), PersistHeld(voice')
      PROVE  VoiceInv(voice')
  BY <1>4, AfterFmtWord
<1>5. ASSUME NEW on \in BOOLEAN, VoiceSetLooping(on) PROVE VoiceInv(voice')
  <2>1. /\ u = Put(w, Fmt["LOOP"], Bit(on)) /\ voice'.streaming = voice.streaming
        /\ voice'.state = voice.state /\ Like
    BY <1>1, <1>5 DEF VoiceSetLooping, Becomes, Voice, WordNames
  <2> HIDE DEF w, u
  <2>2. u \in SUBSET (0 .. 31) /\ AgreeBut(w, u, PlayNames)
    BY <1>1, <2>1, PlayWords
  <2>3. Holds(u, Fmt["DATA_TYPE"], Bit(voice.streaming))
    BY <1>2, <2>1, PlayHeld
  <2>4. Holds(w, Fmt["PERSIST"], 0) => Holds(u, Fmt["PERSIST"], 0)
    BY <2>1, PersistKept
  <2> QED BY <1>2, <1>4, <2>1, <2>2, <2>3, <2>4 DEF PersistHeld, w, u
<1>6. CASE BufferSubmit
  <2>1. /\ u = w \ Mask(Fmt["DATA_TYPE"]) /\ voice'.streaming = FALSE
        /\ voice'.state = "STOPPED" /\ Like
    BY <1>1, <1>6 DEF BufferSubmit, Stopped, Becomes, Voice, WordNames
  <2> HIDE DEF w, u
  <2>2. u \in SUBSET (0 .. 31) /\ AgreeBut(w, u, PlayNames)
    BY <1>1, <2>1, PlayWords
  <2>3. Holds(u, Fmt["DATA_TYPE"], 0)
    BY <1>2, <2>1, PlayHeld
  <2> QED BY <1>3, <1>4, <2>1, <2>2, <2>3 DEF PersistHeld
<1>7. CASE BufferQueue
  <2>1. /\ u = w \cup Mask(Fmt["DATA_TYPE"]) /\ voice'.streaming = TRUE
        /\ voice'.state = voice.state /\ Like
    BY <1>1, <1>7 DEF BufferQueue, Becomes, Voice, WordNames
  <2> HIDE DEF w, u
  <2>2. u \in SUBSET (0 .. 31) /\ AgreeBut(w, u, PlayNames)
    BY <1>1, <2>1, PlayWords
  <2>3. Holds(u, Fmt["DATA_TYPE"], 1)
    BY <1>2, <2>1, PlayHeld
  <2>4. Holds(w, Fmt["PERSIST"], 0) => Holds(u, Fmt["PERSIST"], 0)
    BY <2>1, PersistKept
  <2> QED BY <1>2, <1>3, <1>4, <2>1, <2>2, <2>3, <2>4 DEF PersistHeld, w, u
<1>8. CASE VoiceStart
  <2>1. /\ u = PutAll(w, {<<Fmt["PERSIST"], Bit(voice.streaming)>>,
                          <<Fmt["LOOP"], Bit(voice.looping)>>})
        /\ voice'.streaming = voice.streaming /\ voice'.state = "PLAYING" /\ Like
    BY <1>1, <1>8 DEF VoiceStart, Becomes, Voice, WordNames
  <2> HIDE DEF w, u
  <2>2. u \in SUBSET (0 .. 31) /\ AgreeBut(w, u, PlayNames)
    BY <1>1, <2>1, PlayWords
  <2>3. Holds(u, Fmt["DATA_TYPE"], Bit(voice.streaming))
    BY <1>2, <2>1, PlayHeld
  <2> QED BY <1>4, <2>1, <2>2, <2>3 DEF PersistHeld
<1>9. CASE VoiceRelease \/ VoiceStop
  <2>1. /\ \/ u = w \ Mask(Fmt["PERSIST"])
           \/ u = w \ (Mask(Fmt["PERSIST"]) \cup Mask(Fmt["LOOP"]))
        /\ voice'.streaming = voice.streaming /\ Like
    <3>1. CASE VoiceRelease
      BY <1>1, <3>1 DEF VoiceRelease, Becomes, Voice, WordNames
    <3>2. CASE VoiceStop
      BY <1>1, <3>2 DEF VoiceStop, Becomes, Voice, WordNames
    <3> QED BY <1>9, <3>1, <3>2
  <2> HIDE DEF w, u
  <2>2. u \in SUBSET (0 .. 31) /\ AgreeBut(w, u, PlayNames)
    BY <1>1, <2>1, PlayWords
  <2>3. Holds(u, Fmt["DATA_TYPE"], Bit(voice.streaming)) /\ Holds(u, Fmt["PERSIST"], 0)
    BY <1>2, <2>1, PlayHeld
  <2> QED BY <1>4, <2>1, <2>2, <2>3 DEF PersistHeld, u
<1>10. CASE Idle
  <2>1. /\ u = w /\ voice'.streaming = voice.streaming /\ voice'.state = "STOPPED" /\ Like
    <3>1. voice' = [voice EXCEPT !.state = "STOPPED"]
      BY <1>10 DEF Idle, Becomes
    <3>2. [voice.word EXCEPT !["CFG_FMT"] = w] = voice.word
      BY <1>1 DEF Voice, WordNames
    <3>3. u = w /\ voice'.streaming = voice.streaming /\ voice'.state = "STOPPED"
          /\ voice'.looping = voice.looping
      BY <1>1, <3>1 DEF Voice
    <3> HIDE DEF w, u
    <3>4. voice' = [voice EXCEPT !.state = voice'.state, !.streaming = voice'.streaming,
                                 !.looping = voice'.looping, !.word["CFG_FMT"] = u]
      BY <1>1, <3>1, <3>2, <3>3 DEF Voice
    <3> QED BY <1>1, <3>3, <3>4 DEF Voice, u
  <2>2. AgreeBut(w, u, PlayNames)
    BY <2>1 DEF AgreeBut
  <2> QED BY <1>1, <1>2, <1>4, <2>1, <2>2 DEF PersistHeld
<1> QED BY <1>5, <1>6, <1>7, <1>8, <1>9, <1>10

-----------------------------------------------------------------------------
(* The envelopes and the filter.                                           *)

LEMMA PutOneSets ==
  ASSUME NEW w, NEW f, NEW n PROVE Holds(Put(w, f, n), f, n)
BY DEF Holds, Put, MAKE_VALUE

LEMMA PutOneKeeps ==
  ASSUME NEW w, NEW f, NEW n, NEW g, Apart(f, g), NEW m, Holds(w, g, m)
  PROVE  Holds(Put(w, f, n), g, m)
BY DEF Holds, Put, MAKE_VALUE, Apart

LEMMA PutTwoKeeps ==
  ASSUME NEW w, NEW f, NEW g, NEW m, NEW n, NEW h, NEW x,
         Apart(f, h), Apart(g, h), Holds(w, h, x)
  PROVE  Holds(PutAll(w, {<<f, m>>, <<g, n>>}), h, x)
<1> DEFINE fs == {<<f, m>>, <<g, n>>}
<1>1. \A p \in fs : Apart(p[1], h)
  OBVIOUS
<1>2. PutAll(w, fs) \cap Mask(h) = w \cap Mask(h)
  BY <1>1, PutKeeps
<1> QED BY <1>2 DEF Holds

LEMMA PutTwo ==
  ASSUME NEW w \in SUBSET (0 .. 31), NEW f, NEW g, Apart(f, g), f # g, NEW m, NEW n,
         Mask(f) \subseteq 0 .. 31, Mask(g) \subseteq 0 .. 31,
         NEW u, u = PutAll(w, {<<f, m>>, <<g, n>>})
  PROVE  u \in SUBSET (0 .. 31) /\ Holds(u, f, m) /\ Holds(u, g, n)
<1> DEFINE fs == {<<f, m>>, <<g, n>>}
<1>1. Apart(g, f)
  BY DEF Apart
<1>2. \A p \in fs : Mask(p[1]) \subseteq 0 .. 31
  OBVIOUS
<1>3. \A q \in fs : q # <<f, m>> => Apart(q[1], f)
  BY <1>1
<1>4. \A q \in fs : q # <<g, n>> => Apart(q[1], g)
  OBVIOUS
<1>5. <<f, m>> \in fs /\ <<g, n>> \in fs
  OBVIOUS
<1> HIDE DEF fs
<1>6. PutAll(w, fs) \in SUBSET (0 .. 31)
  BY <1>2, PutAllInWord
<1>7. Holds(PutAll(w, fs), <<f, m>>[1], <<f, m>>[2])
  BY <1>3, <1>5, PutSets
<1>8. Holds(PutAll(w, fs), <<g, n>>[1], <<g, n>>[2])
  BY <1>4, <1>5, PutSets
<1> QED BY <1>6, <1>7, <1>8 DEF fs

LEMMA PutThree ==
  ASSUME NEW w \in SUBSET (0 .. 31), NEW f, NEW g, NEW h, NEW k, NEW m, NEW n,
         Apart(f, g), Apart(f, h), Apart(g, h), f # g, f # h, g # h,
         Mask(f) \subseteq 0 .. 31, Mask(g) \subseteq 0 .. 31, Mask(h) \subseteq 0 .. 31,
         NEW u, u = PutAll(w, {<<f, k>>, <<g, m>>, <<h, n>>})
  PROVE  u \in SUBSET (0 .. 31) /\ Holds(u, f, k) /\ Holds(u, g, m) /\ Holds(u, h, n)
<1> DEFINE fs == {<<f, k>>, <<g, m>>, <<h, n>>}
<1>1. u \in SUBSET (0 .. 31)
  BY PutAllInWord
<1>2. Apart(g, f) /\ Apart(h, f) /\ Apart(h, g)
  BY DEF Apart
<1>3. \A q \in fs : q # <<f, k>> => Apart(q[1], f)
  BY <1>2
<1>4. \A q \in fs : q # <<g, m>> => Apart(q[1], g)
  BY <1>2
<1>5. \A q \in fs : q # <<h, n>> => Apart(q[1], h)
  OBVIOUS
<1>6. <<f, k>> \in fs /\ <<g, m>> \in fs /\ <<h, n>> \in fs
  OBVIOUS
<1> HIDE DEF fs
<1>7. Holds(PutAll(w, fs), <<f, k>>[1], <<f, k>>[2])
  BY <1>3, <1>6, PutSets
<1>8. Holds(PutAll(w, fs), <<g, m>>[1], <<g, m>>[2])
  BY <1>4, <1>6, PutSets
<1>9. Holds(PutAll(w, fs), <<h, n>>[1], <<h, n>>[2])
  BY <1>5, <1>6, PutSets
<1> QED BY <1>1, <1>7, <1>8, <1>9 DEF fs

\* The words u are the words w with the envelope e in three of them.
EnvelopeIn(w, u, rates, curve, release, e) ==
  /\ u \in [WordNames -> SUBSET (0 .. 31)]
  /\ EnvelopeHeld(u[rates], u[curve], u[release], e)
  /\ u[release] = Put(w[release], Env["RELEASERATE"], e.release)
  /\ \A r \in WordNames \ {rates, curve, release} : u[r] = w[r]

LEMMA EnvelopeSet ==
  ASSUME NEW w \in [WordNames -> SUBSET (0 .. 31)], NEW e, NEW u,
         NEW rates \in WordNames, NEW curve \in WordNames, NEW release \in WordNames,
         rates # curve, rates # release, curve # release,
         u = EnvelopeWords(w, rates, curve, release, e)
  PROVE  EnvelopeIn(w, u, rates, curve, release, e)
<1> DEFINE a == PutAll(w[rates], {<<Env["ATTACKRATE"], e.attack>>,
                                  <<Env["DELAYTIME"], e.delay>>})
           b == PutAll(w[curve], {<<Env["DECAYRATE"], e.decay>>, <<Env["HOLDTIME"], e.hold>>,
                                  <<Env["SUSTAINLEVEL"], e.sustain>>})
           c == Put(w[release], Env["RELEASERATE"], e.release)
<1>1. /\ Env["ATTACKRATE"] # Env["DELAYTIME"] /\ Env["DECAYRATE"] # Env["HOLDTIME"]
      /\ Env["DECAYRATE"] # Env["SUSTAINLEVEL"] /\ Env["HOLDTIME"] # Env["SUSTAINLEVEL"]
  BY DEF Env
<1>2. /\ Mask(Env["ATTACKRATE"]) \subseteq 0 .. 31 /\ Mask(Env["DELAYTIME"]) \subseteq 0 .. 31
      /\ Mask(Env["DECAYRATE"]) \subseteq 0 .. 31 /\ Mask(Env["HOLDTIME"]) \subseteq 0 .. 31
      /\ Mask(Env["SUSTAINLEVEL"]) \subseteq 0 .. 31
      /\ Mask(Env["RELEASERATE"]) \subseteq 0 .. 31
  BY EnvApart DEF EnvNames
<1>3. w[rates] \in SUBSET (0 .. 31) /\ w[curve] \in SUBSET (0 .. 31)
      /\ w[release] \in SUBSET (0 .. 31)
  OBVIOUS
<1>4. /\ a \in SUBSET (0 .. 31) /\ Holds(a, Env["ATTACKRATE"], e.attack)
      /\ Holds(a, Env["DELAYTIME"], e.delay)
  <2> DEFINE f == Env["ATTACKRATE"]
             g == Env["DELAYTIME"]
             x == w[rates]
             m == e.attack
             n == e.delay
  <2>1. /\ x \in SUBSET (0 .. 31) /\ Apart(f, g) /\ f # g
        /\ Mask(f) \subseteq 0 .. 31 /\ Mask(g) \subseteq 0 .. 31
    BY <1>1, <1>2, <1>3, EnvApart
  <2>2. a = PutAll(x, {<<f, m>>, <<g, n>>})
    OBVIOUS
  <2> HIDE DEF f, g, x, m, n, a
  <2>3. a \in SUBSET (0 .. 31) /\ Holds(a, f, m) /\ Holds(a, g, n)
    BY <2>1, <2>2, PutTwo
  <2> QED BY <2>3 DEF f, g, m, n
<1>5. /\ b \in SUBSET (0 .. 31) /\ Holds(b, Env["DECAYRATE"], e.decay)
      /\ Holds(b, Env["HOLDTIME"], e.hold) /\ Holds(b, Env["SUSTAINLEVEL"], e.sustain)
  <2> DEFINE f == Env["DECAYRATE"]
             g == Env["HOLDTIME"]
             h == Env["SUSTAINLEVEL"]
             x == w[curve]
             k == e.decay
             m == e.hold
             n == e.sustain
  <2>1. /\ x \in SUBSET (0 .. 31) /\ Apart(f, g) /\ Apart(f, h) /\ Apart(g, h)
        /\ f # g /\ f # h /\ g # h
        /\ Mask(f) \subseteq 0 .. 31 /\ Mask(g) \subseteq 0 .. 31 /\ Mask(h) \subseteq 0 .. 31
    BY <1>1, <1>2, <1>3, EnvApart
  <2>2. b = PutAll(x, {<<f, k>>, <<g, m>>, <<h, n>>})
    OBVIOUS
  <2> HIDE DEF f, g, h, x, k, m, n, b
  <2>3. b \in SUBSET (0 .. 31) /\ Holds(b, f, k) /\ Holds(b, g, m) /\ Holds(b, h, n)
    BY <2>1, <2>2, PutThree
  <2> QED BY <2>3 DEF f, g, h, k, m, n
<1>6. c \in SUBSET (0 .. 31) /\ Holds(c, Env["RELEASERATE"], e.release)
  BY <1>2, <1>3, PutOneSets DEF Put, MAKE_VALUE
<1>7. u = [w EXCEPT ![rates] = a, ![curve] = b, ![release] = c]
  BY DEF EnvelopeWords
<1>8. c = Put(w[release], Env["RELEASERATE"], e.release)
  OBVIOUS
<1> HIDE DEF a, b, c
<1>9. /\ u \in [WordNames -> SUBSET (0 .. 31)]
      /\ u[rates] = a /\ u[curve] = b /\ u[release] = c
      /\ \A r \in WordNames \ {rates, curve, release} : u[r] = w[r]
  BY <1>4, <1>5, <1>6, <1>7
<1> QED BY <1>4, <1>5, <1>6, <1>8, <1>9 DEF EnvelopeHeld, EnvelopeIn

EnvelopeFields == {"amp", "filt", "coef", "flags"}
EnvelopeRegisters == {"CFG_ENV0", "CFG_ENVA", "LFO_ENV", "CFG_ENV1", "CFG_ENVF",
                      "CFG_MISC", "TAR_FCA", "TAR_FCB"}

LEMMA BesideEnvelopes ==
  ASSUME NEW v, VoiceInv(v), NEW u \in Voice, NEW xs \in SUBSET EnvelopeFields,
         NEW rs \in SUBSET EnvelopeRegisters, SameBut(v, u, xs, rs),
         AmplitudeHeld(u), FilterHeld(u), CoefficientsHeld(u)
  PROVE  VoiceInv(u)
<1>1. AgreeBut(v.word["CFG_FMT"], u.word["CFG_FMT"], {})
  BY DEF SameBut, AgreeBut, WordNames, EnvelopeRegisters
<1>2. /\ FormatHeld(u.word["CFG_FMT"], u.format, u.streaming) /\ PersistHeld(u)
      /\ SlotsHeld(u)
  BY <1>1, FmtUntouched DEF VoiceInv, EnvelopeFields, EnvelopeRegisters
<1>3. PitchHeld(u)
  BY Untouched DEF VoiceInv, EnvelopeFields, EnvelopeRegisters
<1>4. {"target", "master", "channel", "hrtf"} \cap xs = {} /\ VolNames \cap rs = {}
  BY DEF VolNames, EnvelopeFields, EnvelopeRegisters
<1>5. VolumesHeld(u)
  BY <1>4, VolumesUntouched DEF VoiceInv
<1> QED BY <1>2, <1>3, <1>5 DEF VoiceInv

\* VOICE_ON's argument when an envelope is taken away and when it is set.
LEMMA FlagsSet ==
  ASSUME NEW w \in SUBSET (24 .. 31), NEW f, NEW g, NEW m \in {0, 1}, NEW n,
         f[1] \in Nat, f[2] = 4, Mask(f) \subseteq 24 .. 31, Apart(f, g),
         Holds(w, f, m), Holds(w, g, n)
  PROVE  /\ w \ Mask(f) \in SUBSET (24 .. 31) /\ Holds(w \ Mask(f), f, 0)
         /\ Holds(w \ Mask(f), g, n)
         /\ w \cup MAKE_VALUE(f, 1) \in SUBSET (24 .. 31)
         /\ Holds(w \cup MAKE_VALUE(f, 1), f, 1) /\ Holds(w \cup MAKE_VALUE(f, 1), g, n)
<1> DEFINE F == Mask(f)
           G == Mask(g)
           one == MAKE_VALUE(f, 1)
           is  == MAKE_VALUE(f, m)
<1>1. MAKE_VALUE(f, 0) = {} /\ one \subseteq F
  BY MakeZero DEF MAKE_VALUE
<1>2. is = {} \/ is = one
  BY <1>1
<1>3. w \cap F = is /\ w \cap G = MAKE_VALUE(g, n) /\ F \cap G = {} /\ F \subseteq 24 .. 31
  BY DEF Holds, Apart
<1> HIDE DEF F, G, one, is
<1>4. (w \ F) \cap F = {} /\ (w \ F) \cap G = w \cap G
      /\ (w \cup one) \cap F = one /\ (w \cup one) \cap G = w \cap G
      /\ w \ F \in SUBSET (24 .. 31) /\ w \cup one \in SUBSET (24 .. 31)
  BY <1>1, <1>2, <1>3
<1> QED BY <1>1, <1>3, <1>4 DEF Holds, F, G, one

LEMMA AfterAmplitude ==
  ASSUME NEW v, VoiceInv(v), NEW e \in nxAudioADSR \cup {NULL}, NEW u,
         u = IF e = NULL
             THEN [v EXCEPT !.amp = NULL, !.flags = @ \ Mask(On.ENVA)]
             ELSE [v EXCEPT !.amp = e, !.flags = @ \cup MAKE_VALUE(On.ENVA, EFCUR_DELAY),
                            !.word = EnvelopeWords(@, "CFG_ENV0", "CFG_ENVA", "LFO_ENV", e)]
  PROVE  VoiceInv(u)
<1> DEFINE rs == {"CFG_ENV0", "CFG_ENVA", "LFO_ENV"}
           off == v.flags \ Mask(On.ENVA)
           on  == v.flags \cup MAKE_VALUE(On.ENVA, EFCUR_DELAY)
           ws  == EnvelopeWords(v.word, "CFG_ENV0", "CFG_ENVA", "LFO_ENV", e)
<1>1. /\ v \in Voice /\ v.flags \in SUBSET (24 .. 31)
      /\ v.word \in [WordNames -> SUBSET (0 .. 31)]
      /\ FilterHeld(v) /\ CoefficientsHeld(v)
      /\ Holds(v.flags, On.ENVA, Bit(v.amp # NULL))
      /\ Holds(v.flags, On.ENVF, Bit(v.filt # NULL))
  BY DEF VoiceInv, Voice, AmplitudeHeld, FilterHeld
<1>2. Bit(v.amp # NULL) \in {0, 1} /\ Bit(TRUE) = 1 /\ Bit(FALSE) = 0
  BY DEF Bit
<1>3. /\ off \in SUBSET (24 .. 31) /\ Holds(off, On.ENVA, 0)
      /\ Holds(off, On.ENVF, Bit(v.filt # NULL))
      /\ on \in SUBSET (24 .. 31) /\ Holds(on, On.ENVA, 1)
      /\ Holds(on, On.ENVF, Bit(v.filt # NULL))
  <2> DEFINE m == Bit(v.amp # NULL)
             n == Bit(v.filt # NULL)
  <2>1. m \in {0, 1} /\ Holds(v.flags, On.ENVA, m) /\ Holds(v.flags, On.ENVF, n)
    BY <1>1, <1>2
  <2> DEFINE f == On.ENVA
             g == On.ENVF
  <2>2. f[1] \in Nat /\ f[2] = 4 /\ Mask(f) \subseteq 24 .. 31 /\ Apart(f, g)
    BY FlagFields DEF Apart
  <2>3. EFCUR_DELAY = 1
    BY DEF EFCUR_DELAY
  <2> HIDE DEF m, n, f, g
  <2>4. /\ v.flags \ Mask(f) \in SUBSET (24 .. 31) /\ Holds(v.flags \ Mask(f), f, 0)
        /\ Holds(v.flags \ Mask(f), g, n)
        /\ v.flags \cup MAKE_VALUE(f, 1) \in SUBSET (24 .. 31)
        /\ Holds(v.flags \cup MAKE_VALUE(f, 1), f, 1)
        /\ Holds(v.flags \cup MAKE_VALUE(f, 1), g, n)
    <3>1. Holds(v.flags, f, m) /\ Holds(v.flags, g, n)
      BY <2>1 DEF f, g
    <3> QED BY <1>1, <2>1, <2>2, <3>1, FlagsSet
  <2> QED BY <2>3, <2>4 DEF n, f, g
<1>4. /\ ws \in [WordNames -> SUBSET (0 .. 31)]
      /\ EnvelopeHeld(ws["CFG_ENV0"], ws["CFG_ENVA"], ws["LFO_ENV"], e)
      /\ \A r \in WordNames \ rs : ws[r] = v.word[r]
  <2>1. /\ "CFG_ENV0" \in WordNames /\ "CFG_ENVA" \in WordNames /\ "LFO_ENV" \in WordNames
        /\ "CFG_ENV0" # "CFG_ENVA" /\ "CFG_ENV0" # "LFO_ENV" /\ "CFG_ENVA" # "LFO_ENV"
    BY DEF WordNames
  <2>2. EnvelopeIn(v.word, ws, "CFG_ENV0", "CFG_ENVA", "LFO_ENV", e)
    BY <1>1, <2>1, EnvelopeSet
  <2> QED BY <2>2 DEF EnvelopeIn
<1>5. u = IF e = NULL THEN [v EXCEPT !.amp = NULL, !.flags = off]
          ELSE [v EXCEPT !.amp = e, !.flags = on, !.word = ws]
  BY <1>1 DEF Voice
<1> HIDE DEF off, on, ws
<1>6. CASE e = NULL
  <2>0. u = [v EXCEPT !.amp = NULL, !.flags = off]
    BY <1>5, <1>6
  <2>1. u \in Voice /\ SameBut(v, u, {"amp", "flags"}, {}) /\ u.amp = NULL /\ u.flags = off
    BY <1>1, <1>3, <2>0 DEF Voice, SameBut, FieldNames
  <2>2. AmplitudeHeld(u)
    BY <1>2, <1>3, <2>1 DEF AmplitudeHeld
  <2>3. FilterHeld(u)
    BY <1>1, <1>3, <2>1 DEF FilterHeld, SameBut, FieldNames, WordNames
  <2>4. CoefficientsHeld(u)
    BY <1>1, <2>1, Untouched
  <2> QED BY <2>1, <2>2, <2>3, <2>4, BesideEnvelopes DEF EnvelopeFields
<1>7. CASE e # NULL
  <2>0. u = [v EXCEPT !.amp = e, !.flags = on, !.word = ws] /\ e \in nxAudioADSR
    BY <1>5, <1>7
  <2>1. /\ u \in Voice /\ SameBut(v, u, {"amp", "flags"}, rs) /\ u.amp = e
        /\ u.flags = on /\ u.word = ws
    <3>0. /\ v \in Voice /\ e \in nxAudioADSR /\ on \in SUBSET (24 .. 31)
          /\ ws \in [WordNames -> SUBSET (0 .. 31)]
          /\ \A r \in WordNames \ rs : ws[r] = v.word[r]
      BY <1>1, <1>3, <1>4, <2>0
    <3>1. u \in Voice
      BY <2>0, <3>0, ZenonT(60) DEF Voice
    <3>2. /\ u.amp = e /\ u.flags = on /\ u.word = ws
          /\ \A x \in FieldNames \ {"amp", "flags"} : u[x] = v[x]
      BY <1>1, <2>0 DEF Voice, FieldNames
    <3> QED BY <3>0, <3>1, <3>2 DEF SameBut
  <2>2. AmplitudeHeld(u)
    BY <1>2, <1>3, <1>4, <1>7, <2>1 DEF AmplitudeHeld
  <2>3. FilterHeld(u)
    BY <1>1, <1>3, <2>1 DEF FilterHeld, SameBut, FieldNames, WordNames
  <2>4. CoefficientsHeld(u)
    BY <1>1, <2>1, Untouched
  <2> QED BY <2>1, <2>2, <2>3, <2>4, BesideEnvelopes DEF EnvelopeFields, EnvelopeRegisters
<1> QED BY <1>6, <1>7

\* The release rate of the filter's envelope lies in CFG_MISC.
LEMMA AfterFilterEnvelope ==
  ASSUME NEW v, VoiceInv(v), NEW e \in nxAudioADSR \cup {NULL}, NEW u,
         u = IF e = NULL
             THEN [v EXCEPT !.filt = NULL, !.flags = @ \ Mask(On.ENVF)]
             ELSE [v EXCEPT !.filt = e, !.flags = @ \cup MAKE_VALUE(On.ENVF, EFCUR_DELAY),
                            !.word = EnvelopeWords(@, "CFG_ENV1", "CFG_ENVF", "CFG_MISC", e)]
  PROVE  VoiceInv(u)
<1> DEFINE rs == {"CFG_ENV1", "CFG_ENVF", "CFG_MISC"}
           off == v.flags \ Mask(On.ENVF)
           on  == v.flags \cup MAKE_VALUE(On.ENVF, EFCUR_DELAY)
           ws  == EnvelopeWords(v.word, "CFG_ENV1", "CFG_ENVF", "CFG_MISC", e)
<1>1. /\ v \in Voice /\ v.flags \in SUBSET (24 .. 31)
      /\ v.word \in [WordNames -> SUBSET (0 .. 31)]
      /\ AmplitudeHeld(v) /\ CoefficientsHeld(v)
      /\ Holds(v.flags, On.ENVA, Bit(v.amp # NULL))
      /\ Holds(v.flags, On.ENVF, Bit(v.filt # NULL))
  BY DEF VoiceInv, Voice, AmplitudeHeld, FilterHeld
<1>2. Bit(v.filt # NULL) \in {0, 1} /\ Bit(TRUE) = 1 /\ Bit(FALSE) = 0
  BY DEF Bit
<1>3. /\ off \in SUBSET (24 .. 31) /\ Holds(off, On.ENVF, 0)
      /\ Holds(off, On.ENVA, Bit(v.amp # NULL))
      /\ on \in SUBSET (24 .. 31) /\ Holds(on, On.ENVF, 1)
      /\ Holds(on, On.ENVA, Bit(v.amp # NULL))
  <2> DEFINE m == Bit(v.filt # NULL)
             n == Bit(v.amp # NULL)
  <2>1. m \in {0, 1} /\ Holds(v.flags, On.ENVF, m) /\ Holds(v.flags, On.ENVA, n)
    BY <1>1, <1>2
  <2> DEFINE f == On.ENVF
             g == On.ENVA
  <2>2. f[1] \in Nat /\ f[2] = 4 /\ Mask(f) \subseteq 24 .. 31 /\ Apart(f, g)
    BY FlagFields DEF Apart
  <2>3. EFCUR_DELAY = 1
    BY DEF EFCUR_DELAY
  <2> HIDE DEF m, n, f, g
  <2>4. /\ v.flags \ Mask(f) \in SUBSET (24 .. 31) /\ Holds(v.flags \ Mask(f), f, 0)
        /\ Holds(v.flags \ Mask(f), g, n)
        /\ v.flags \cup MAKE_VALUE(f, 1) \in SUBSET (24 .. 31)
        /\ Holds(v.flags \cup MAKE_VALUE(f, 1), f, 1)
        /\ Holds(v.flags \cup MAKE_VALUE(f, 1), g, n)
    <3>1. Holds(v.flags, f, m) /\ Holds(v.flags, g, n)
      BY <2>1 DEF f, g
    <3> QED BY <1>1, <2>1, <2>2, <3>1, FlagsSet
  <2> QED BY <2>3, <2>4 DEF n, f, g
<1>4. /\ ws \in [WordNames -> SUBSET (0 .. 31)]
      /\ EnvelopeHeld(ws["CFG_ENV1"], ws["CFG_ENVF"], ws["CFG_MISC"], e)
      /\ ws["CFG_MISC"] = Put(v.word["CFG_MISC"], Env["RELEASERATE"], e.release)
      /\ \A r \in WordNames \ rs : ws[r] = v.word[r]
  <2>1. /\ "CFG_ENV1" \in WordNames /\ "CFG_ENVF" \in WordNames /\ "CFG_MISC" \in WordNames
        /\ "CFG_ENV1" # "CFG_ENVF" /\ "CFG_ENV1" # "CFG_MISC" /\ "CFG_ENVF" # "CFG_MISC"
    BY DEF WordNames
  <2>2. EnvelopeIn(v.word, ws, "CFG_ENV1", "CFG_ENVF", "CFG_MISC", e)
    BY <1>1, <2>1, EnvelopeSet
  <2> QED BY <2>2 DEF EnvelopeIn
<1>5. \A x \in MiscNames : \A n : Holds(v.word["CFG_MISC"], Misc[x], n)
                               => Holds(ws["CFG_MISC"], Misc[x], n)
  BY <1>4, MiscApart, PutOneKeeps
<1>6. u = IF e = NULL THEN [v EXCEPT !.filt = NULL, !.flags = off]
          ELSE [v EXCEPT !.filt = e, !.flags = on, !.word = ws]
  BY <1>1 DEF Voice
<1> HIDE DEF off, on, ws
<1>7. CASE e = NULL
  <2>0. u = [v EXCEPT !.filt = NULL, !.flags = off]
    BY <1>6, <1>7
  <2>1. u \in Voice /\ SameBut(v, u, {"filt", "flags"}, {}) /\ u.filt = NULL /\ u.flags = off
    BY <1>1, <1>3, <2>0 DEF Voice, SameBut, FieldNames
  <2>2. FilterHeld(u)
    BY <1>2, <1>3, <2>1 DEF FilterHeld
  <2>3. AmplitudeHeld(u)
    BY <1>1, <1>3, <2>1 DEF AmplitudeHeld, SameBut, FieldNames, WordNames
  <2>4. CoefficientsHeld(u)
    BY <1>1, <2>1, Untouched
  <2> QED BY <2>1, <2>2, <2>3, <2>4, BesideEnvelopes DEF EnvelopeFields
<1>8. CASE e # NULL
  <2>0. u = [v EXCEPT !.filt = e, !.flags = on, !.word = ws] /\ e \in nxAudioADSR
    BY <1>6, <1>8
  <2>1. /\ u \in Voice /\ SameBut(v, u, {"filt", "flags"}, rs) /\ u.filt = e
        /\ u.flags = on /\ u.word = ws
    <3>0. /\ v \in Voice /\ e \in nxAudioADSR /\ on \in SUBSET (24 .. 31)
          /\ ws \in [WordNames -> SUBSET (0 .. 31)]
          /\ \A r \in WordNames \ rs : ws[r] = v.word[r]
      BY <1>1, <1>3, <1>4, <2>0
    <3>1. u \in Voice
      BY <2>0, <3>0, ZenonT(60) DEF Voice
    <3>2. /\ u.filt = e /\ u.flags = on /\ u.word = ws
          /\ \A x \in FieldNames \ {"filt", "flags"} : u[x] = v[x]
      BY <1>1, <2>0 DEF Voice, FieldNames
    <3> QED BY <3>0, <3>1, <3>2 DEF SameBut
  <2>2. FilterHeld(u)
    BY <1>2, <1>3, <1>4, <1>8, <2>1 DEF FilterHeld
  <2>3. AmplitudeHeld(u)
    BY <1>1, <1>3, <2>1 DEF AmplitudeHeld, SameBut, FieldNames, WordNames
  <2>4. CoefficientsHeld(u)
    BY <1>1, <1>5, <2>1 DEF CoefficientsHeld, SameBut, FieldNames, WordNames, MiscNames
  <2> QED BY <2>1, <2>2, <2>3, <2>4, BesideEnvelopes DEF EnvelopeFields, EnvelopeRegisters
<1> QED BY <1>7, <1>8

LEMMA Halves ==
  /\ Low[1] \in Nat /\ Low[2] = 16 /\ High[1] \in Nat /\ High[2] = 16
  /\ Mask(Low) \subseteq 0 .. 31 /\ Mask(High) \subseteq 0 .. 31 /\ Apart(Low, High)
BY DEF Low, High, Mask, Apart

LEMMA TwoHalves ==
  ASSUME NEW m, NEW n, NEW u, u = MAKE_VALUE(Low, m) \cup MAKE_VALUE(High, n)
  PROVE  u \in SUBSET (0 .. 31) /\ Holds(u, Low, m) /\ Holds(u, High, n)
<1>1. MAKE_VALUE(Low, m) \subseteq Mask(Low) /\ MAKE_VALUE(High, n) \subseteq Mask(High)
  BY DEF MAKE_VALUE
<1> QED BY <1>1, Halves DEF Holds, Apart

LEMMA AfterCoefficients ==
  ASSUME NEW v, VoiceInv(v), NEW c \in FilterArguments, NEW u,
         u = [v EXCEPT
               !.coef = c,
               !.word["TAR_FCA"] = MAKE_VALUE(Low, c.fc[1]) \cup MAKE_VALUE(High, c.fc[2]),
               !.word["TAR_FCB"] = MAKE_VALUE(Low, c.fc[3]) \cup MAKE_VALUE(High, c.fc[4]),
               !.word["CFG_MISC"] = PutAll(@, {<<Misc.FMODE, c.mode>>, <<Misc.Q, c.q>>})]
  PROVE  VoiceInv(u)
<1> DEFINE a == MAKE_VALUE(Low, c.fc[1]) \cup MAKE_VALUE(High, c.fc[2])
           b == MAKE_VALUE(Low, c.fc[3]) \cup MAKE_VALUE(High, c.fc[4])
           w == v.word["CFG_MISC"]
           m == PutAll(w, {<<Misc["FMODE"], c.mode>>, <<Misc["Q"], c.q>>})
           rs == {"TAR_FCA", "TAR_FCB", "CFG_MISC"}
           ws == [v.word EXCEPT !["TAR_FCA"] = a, !["TAR_FCB"] = b, !["CFG_MISC"] = m]
<1>1. /\ v \in Voice /\ w \in SUBSET (0 .. 31) /\ v.word \in [WordNames -> SUBSET (0 .. 31)]
      /\ Holds(w, Misc["NOTIFY"], 1) /\ FilterHeld(v) /\ AmplitudeHeld(v)
  BY DEF VoiceInv, Voice, WordNames, CoefficientsHeld
<1>2. u = [v EXCEPT !.coef = c, !.word = ws]
  BY <1>1 DEF Voice, WordNames
<1>3. /\ a \in SUBSET (0 .. 31) /\ Holds(a, Low, c.fc[1]) /\ Holds(a, High, c.fc[2])
      /\ b \in SUBSET (0 .. 31) /\ Holds(b, Low, c.fc[3]) /\ Holds(b, High, c.fc[4])
  BY TwoHalves
<1>4. Misc["FMODE"] # Misc["Q"]
  BY DEF Misc
<1>5. Mask(Misc["FMODE"]) \subseteq 0 .. 31 /\ Mask(Misc["Q"]) \subseteq 0 .. 31
  BY MiscApart DEF MiscNames
<1>6. /\ m \in SUBSET (0 .. 31) /\ Holds(m, Misc["FMODE"], c.mode)
      /\ Holds(m, Misc["Q"], c.q)
  BY <1>1, <1>4, <1>5, MiscApart, PutTwo
<1>7. Holds(m, Misc["NOTIFY"], 1)
  BY <1>1, MiscApart, PutTwoKeeps
<1>8. \A n : Holds(w, Env["RELEASERATE"], n) => Holds(m, Env["RELEASERATE"], n)
  <2>1. Apart(Misc["FMODE"], Env["RELEASERATE"]) /\ Apart(Misc["Q"], Env["RELEASERATE"])
    BY MiscApart DEF MiscNames, Apart
  <2> QED BY <2>1, PutTwoKeeps
<1> HIDE DEF a, b, m
<1>9. /\ ws \in [WordNames -> SUBSET (0 .. 31)]
      /\ ws["TAR_FCA"] = a /\ ws["TAR_FCB"] = b /\ ws["CFG_MISC"] = m
      /\ \A r \in WordNames \ rs : ws[r] = v.word[r]
  BY <1>1, <1>3, <1>6 DEF WordNames
<1> HIDE DEF ws
<1>10. u \in Voice /\ SameBut(v, u, {"coef"}, rs) /\ u.coef = c /\ u.word = ws
  <2>0. v \in Voice /\ ws \in [WordNames -> SUBSET (0 .. 31)]
    BY <1>1, <1>9
  <2>1. u \in Voice
    BY <1>2, <2>0, ZenonT(60) DEF Voice
  <2>2. u.coef = c /\ u.word = ws /\ \A x \in FieldNames \ {"coef"} : u[x] = v[x]
    BY <1>1, <1>2 DEF Voice, FieldNames
  <2> QED BY <1>9, <2>1, <2>2 DEF SameBut
<1>11. AmplitudeHeld(u)
  BY <1>1, <1>10, Untouched
<1>12. FilterHeld(u)
  BY <1>1, <1>8, <1>9, <1>10 DEF FilterHeld, SameBut, FieldNames, WordNames, EnvelopeHeld
<1>13. CoefficientsHeld(u)
  BY <1>3, <1>6, <1>7, <1>9, <1>10 DEF CoefficientsHeld
<1> QED BY <1>10, <1>11, <1>12, <1>13, BesideEnvelopes DEF EnvelopeFields, EnvelopeRegisters

-----------------------------------------------------------------------------
(* The invariant.                                                          *)

LEMMA Arguments ==
  ASSUME app \in Applications
  PROVE  /\ app.formats \subseteq nxAudioFormat /\ app.pitches \subseteq Int
         /\ app.gains \subseteq Int /\ app.channelGains \subseteq ChannelGains
         /\ app.hrtfGains \subseteq HrtfGains /\ app.targets \cup {NoTarget} \subseteq Targets
         /\ app.envelopes \subseteq nxAudioADSR /\ app.filters \subseteq FilterArguments
BY ParametersAssumption DEF Targets

LEMMA StartsHeld == Init => ParametersInv
BY Arguments, AfterCreate DEF Init, ParametersInv

LEMMA StepsHeld == ParametersInv /\ [Next]_vars => ParametersInv'
<1> SUFFICES ASSUME ParametersInv, [Next]_vars PROVE ParametersInv'
  OBVIOUS
<1>1. VoiceInv(voice) /\ app \in Applications
  BY DEF ParametersInv
<1>2. CASE UNCHANGED vars
  BY <1>2 DEF vars, ParametersInv
<1>3. CASE Next
  <2>1. app' = app
    BY <1>3 DEF Next
  <2>2. ASSUME NEW f \in app.formats, VoiceCreate(f) \/ VoiceSetFormat(f)
        PROVE  VoiceInv(voice')
    <3>1. f \in nxAudioFormat
      BY <1>1, Arguments
    <3>2. CASE VoiceCreate(f)
      BY <3>1, <3>2, AfterCreate DEF VoiceCreate, Becomes
    <3>3. CASE VoiceSetFormat(f)
      BY <1>1, <3>1, <3>3, AfterFormat DEF VoiceSetFormat, Becomes
    <3> QED BY <2>2, <3>2, <3>3
  <2>3. ASSUME NEW p \in app.pitches, VoiceSetPitch(p) PROVE VoiceInv(voice')
    BY <1>1, <2>3, Arguments, AfterPitch DEF VoiceSetPitch, Becomes
  <2>4. ASSUME NEW g \in app.gains, VoiceSetMasterGain(g) PROVE VoiceInv(voice')
    BY <1>1, <2>4, Arguments, AfterGain DEF VoiceSetMasterGain, Becomes
  <2>5. ASSUME NEW c \in app.channelGains, VoiceSetChannelGain(c) PROVE VoiceInv(voice')
    BY <1>1, <2>5, Arguments, AfterGain DEF VoiceSetChannelGain, Becomes
  <2>6. ASSUME NEW h \in app.hrtfGains, VoiceSetHRTFGain(h) PROVE VoiceInv(voice')
    BY <1>1, <2>6, Arguments, AfterGain DEF VoiceSetHRTFGain, Becomes
  <2>7. ASSUME NEW t \in app.targets \cup {NoTarget}, VoiceSetHRTFTarget(t)
        PROVE  VoiceInv(voice')
    <3>1. t \in Targets
      BY <1>1, Arguments
    <3>2. Based(voice) /\ SlotsHeld(voice) /\ VolumesHeld(voice)
      BY <1>1 DEF VoiceInv, Based
    <3> QED BY <2>7, <3>1, <3>2, AfterTarget DEF VoiceSetHRTFTarget, Becomes
  <2>8. ASSUME NEW e \in app.envelopes \cup {NULL},
               VoiceSetAmplitudeEnvelope(e) \/ VoiceSetFilterEnvelope(e)
        PROVE  VoiceInv(voice')
    <3>1. e \in nxAudioADSR \cup {NULL}
      BY <1>1, Arguments
    <3>2. CASE VoiceSetAmplitudeEnvelope(e)
      BY <1>1, <3>1, <3>2, AfterAmplitude DEF VoiceSetAmplitudeEnvelope, Becomes
    <3>3. CASE VoiceSetFilterEnvelope(e)
      BY <1>1, <3>1, <3>3, AfterFilterEnvelope DEF VoiceSetFilterEnvelope, Becomes
    <3> QED BY <2>8, <3>2, <3>3
  <2>9. ASSUME NEW c \in app.filters, VoiceSetFilterCoefficients(c) PROVE VoiceInv(voice')
    BY <1>1, <2>9, Arguments, AfterCoefficients DEF VoiceSetFilterCoefficients, Becomes
  <2>10. ASSUME \/ \E on \in BOOLEAN : VoiceSetLooping(on)
                \/ BufferSubmit \/ BufferQueue
                \/ VoiceStart \/ VoiceRelease \/ VoiceStop \/ Idle
         PROVE  VoiceInv(voice')
    BY <1>1, <2>10, PlayStep
  <2>11. VoiceInv(voice')
    BY <1>3, <2>2, <2>3, <2>4, <2>5, <2>6, <2>7, <2>8, <2>9, <2>10 DEF Next
  <2> QED BY <1>1, <2>1, <2>11 DEF ParametersInv
<1> QED BY <1>2, <1>3

\* After every call each field of each word has the bits of what was asked
\* for last, in whatever order the calls of audio_voice.c are made and
\* whatever else lies in the same word.
THEOREM ParametersInvariance == Spec => []ParametersInv
<1>1. Init => ParametersInv
  BY StartsHeld
<1>2. ParametersInv /\ [Next]_vars => ParametersInv'
  BY StepsHeld
<1> QED BY <1>1, <1>2, PTL DEF Spec

-----------------------------------------------------------------------------
(* What the voice processor reads from such words.                         *)

LEMMA Int16 == \A x \in int16_t : x \in Int /\ -32768 <= x /\ x <= 32767
BY DEF int16_t

LEMMA SignedReads ==
  ASSUME NEW w, NEW f \in {Low, High}, NEW x \in int16_t, Holds(w, f, x)
  PROVE  Signed(f, w) = x
<1>1. f[1] \in Nat /\ f[2] = 16
  BY Halves
<1>0. x \in Int /\ -32768 <= x /\ x <= 32767
  BY Int16
<1>2. Get(w, f) = x % 65536
  BY <1>0, <1>1, Reads
<1>3. 2^(f[2] - 1) = 32768 /\ 2^(f[2]) = 65536
  <2>1. f[2] - 1 = 15
    BY <1>1
  <2>2. 2^15 = 32768 /\ 2^16 = 65536
    OBVIOUS
  <2> QED BY <1>1, <2>1, <2>2
<1>4. IF x % 65536 >= 32768 THEN (x % 65536) - 65536 = x ELSE x % 65536 = x
  BY <1>0
<1> QED BY <1>2, <1>3, <1>4 DEF Signed

LEMMA EnvelopeReads ==
  ASSUME NEW e \in nxAudioADSR, NEW rates, NEW curve, NEW release,
         EnvelopeHeld(rates, curve, release, e)
  PROVE  [attack |-> Get(rates, Env["ATTACKRATE"]), delay |-> Get(rates, Env["DELAYTIME"]),
          decay |-> Get(curve, Env["DECAYRATE"]), hold |-> Get(curve, Env["HOLDTIME"]),
          sustain |-> Get(curve, Env["SUSTAINLEVEL"]),
          release |-> Get(release, Env["RELEASERATE"])] = CutTo12(e)
<1>1. \A x \in EnvNames : /\ Env[x][1] \in Nat
                         /\ Env[x][2] = IF x = "SUSTAINLEVEL" THEN 8 ELSE 12
  BY EnvFields
<1>2. \A x \in EnvNames \ {"SUSTAINLEVEL"} : \A w : \A n \in Int :
        Holds(w, Env[x], n) => Get(w, Env[x]) = n % 4096
  BY <1>1, Reads
<1>3. \A w : \A n \in Int :
        Holds(w, Env["SUSTAINLEVEL"], n) => Get(w, Env["SUSTAINLEVEL"]) = n % 256
  BY <1>1, Reads DEF EnvNames
<1>4. /\ e.attack \in Int /\ e.delay \in Int /\ e.decay \in Int /\ e.hold \in Int
      /\ e.sustain \in Int /\ e.release \in Int
  BY DEF nxAudioADSR
<1>5. /\ Get(rates, Env["ATTACKRATE"]) = e.attack % 4096
      /\ Get(rates, Env["DELAYTIME"]) = e.delay % 4096
      /\ Get(curve, Env["DECAYRATE"]) = e.decay % 4096
      /\ Get(curve, Env["HOLDTIME"]) = e.hold % 4096
      /\ Get(release, Env["RELEASERATE"]) = e.release % 4096
  <2> DEFINE a == e.attack
             t == e.delay
             d == e.decay
             h == e.hold
             r == e.release
  <2>1. /\ Holds(rates, Env["ATTACKRATE"], a) /\ Holds(rates, Env["DELAYTIME"], t)
        /\ Holds(curve, Env["DECAYRATE"], d) /\ Holds(curve, Env["HOLDTIME"], h)
        /\ Holds(release, Env["RELEASERATE"], r)
    BY DEF EnvelopeHeld
  <2>2. a \in Int /\ t \in Int /\ d \in Int /\ h \in Int /\ r \in Int
    BY <1>4
  <2> HIDE DEF a, t, d, h, r
  <2>3. Get(rates, Env["ATTACKRATE"]) = a % 4096
    BY <1>2, <2>1, <2>2 DEF EnvNames
  <2>4. Get(rates, Env["DELAYTIME"]) = t % 4096
    BY <1>2, <2>1, <2>2 DEF EnvNames
  <2>5. Get(curve, Env["DECAYRATE"]) = d % 4096
    BY <1>2, <2>1, <2>2 DEF EnvNames
  <2>6. Get(curve, Env["HOLDTIME"]) = h % 4096
    BY <1>2, <2>1, <2>2 DEF EnvNames
  <2>7. Get(release, Env["RELEASERATE"]) = r % 4096
    BY <1>2, <2>1, <2>2 DEF EnvNames
  <2> QED BY <2>3, <2>4, <2>5, <2>6, <2>7 DEF a, t, d, h, r
<1>6. Get(curve, Env["SUSTAINLEVEL"]) = e.sustain % 256
  BY <1>3, <1>4 DEF EnvelopeHeld
<1>7. DOMAIN e = {"delay", "attack", "hold", "decay", "sustain", "release"}
  BY DEF nxAudioADSR
<1> QED BY <1>5, <1>6, <1>7 DEF CutTo12

LEMMA FlagReads ==
  ASSUME NEW w, NEW f \in {On.ENVA, On.ENVF}, NEW b \in BOOLEAN, Holds(w, f, Bit(b))
  PROVE  Get(w, f) = Bit(b)
<1>1. f[1] \in Nat /\ f[2] = 4
  BY FlagFields
<1>2. Bit(b) \in {0, 1}
  BY DEF Bit
<1>3. Get(w, f) = Bit(b) % 16
  BY <1>1, <1>2, Reads
<1> QED BY <1>2, <1>3

LEMMA EnvelopesRead == VoiceInv(voice) => EnvelopesAsAsked
<1> SUFFICES ASSUME VoiceInv(voice) PROVE EnvelopesAsAsked
  OBVIOUS
<1>1. voice.amp \in nxAudioADSR \cup {NULL} /\ voice.filt \in nxAudioADSR \cup {NULL}
  BY DEF VoiceInv, Voice
<1>2. AmplitudeHeld(voice) /\ FilterHeld(voice)
  BY DEF VoiceInv
<1>3. voice.amp # NULL => AmplitudeEnvelope = CutTo12(voice.amp)
  BY <1>1, <1>2, EnvelopeReads DEF AmplitudeHeld, AmplitudeEnvelope, EnvelopeOf, Word
<1>4. voice.filt # NULL => FilterEnvelope = CutTo12(voice.filt)
  BY <1>1, <1>2, EnvelopeReads DEF FilterHeld, FilterEnvelope, EnvelopeOf, Word
<1>5. /\ Get(voice.flags, On.ENVA) = Bit(voice.amp # NULL)
      /\ Get(voice.flags, On.ENVF) = Bit(voice.filt # NULL)
  BY <1>2, FlagReads DEF AmplitudeHeld, FilterHeld
<1> QED BY <1>3, <1>4, <1>5 DEF EnvelopesAsAsked

LEMMA FilterReads == VoiceInv(voice) => FilterAsAsked
<1> SUFFICES ASSUME VoiceInv(voice) PROVE FilterAsAsked
  OBVIOUS
<1>1. voice.coef \in FilterArguments \cup {NULL} /\ CoefficientsHeld(voice)
  BY DEF VoiceInv, Voice
<1> DEFINE w == voice.word["CFG_MISC"]
<1>2. Get(w, Misc["NOTIFY"]) = 1
  BY <1>1, MiscFields, Reads DEF CoefficientsHeld, MiscNames
<1>3. ASSUME voice.coef # NULL
      PROVE  /\ Get(w, Misc["FMODE"]) = voice.coef.mode
             /\ Get(w, Misc["Q"]) = voice.coef.q % 8
             /\ <<Signed(Low, voice.word["TAR_FCA"]), Signed(High, voice.word["TAR_FCA"]),
                  Signed(Low, voice.word["TAR_FCB"]), Signed(High, voice.word["TAR_FCB"])>>
                = voice.coef.fc
  <2>1. voice.coef \in FilterArguments
    BY <1>1, <1>3
  <2>2. /\ voice.coef.mode \in 0 .. 3 /\ voice.coef.q \in Int
        /\ voice.coef.fc \in [1 .. 4 -> int16_t]
    BY <2>1 DEF FilterArguments
  <2> DEFINE mode == voice.coef.mode
             q  == voice.coef.q
             fc == voice.coef.fc
  <2>3. Get(w, Misc["FMODE"]) = mode % 4 /\ Get(w, Misc["Q"]) = q % 8
    BY <1>1, <1>3, <2>2, MiscFields, Reads DEF CoefficientsHeld, MiscNames
  <2>4. mode % 4 = mode
    BY <2>2
  <2>5. /\ Signed(Low, voice.word["TAR_FCA"]) = fc[1]
        /\ Signed(High, voice.word["TAR_FCA"]) = fc[2]
        /\ Signed(Low, voice.word["TAR_FCB"]) = fc[3]
        /\ Signed(High, voice.word["TAR_FCB"]) = fc[4]
    BY <1>1, <1>3, <2>2, SignedReads DEF CoefficientsHeld
  <2>6. fc = <<fc[1], fc[2], fc[3], fc[4]>>
    BY <2>2
  <2> QED BY <2>3, <2>4, <2>5, <2>6
<1> QED BY <1>2, <1>3 DEF FilterAsAsked, Word

LEMMA FormatReads == VoiceInv(voice) => FormatAsAsked
<1> SUFFICES ASSUME VoiceInv(voice) PROVE FormatAsAsked
  OBVIOUS
<1> DEFINE w == voice.word["CFG_FMT"]
           f == voice.format
           st == Bit(f.channels = 2)
           dt == Bit(voice.streaming)
           cs == container_size(f)
           ss == sample_size(f)
           ch == f.channels - 1
<1>1. f \in nxAudioFormat
  BY DEF VoiceInv, Voice
<1>2. cs \in 0 .. 3 /\ ss \in 0 .. 3
  BY <1>1 DEF nxAudioFormat, container_size, sample_size
<1>3. ch \in Int /\ st \in {0, 1} /\ dt \in {0, 1}
  BY <1>1 DEF nxAudioFormat, Bit
<1>4. /\ Holds(w, Fmt["CONTAINER_SIZE"], cs) /\ Holds(w, Fmt["SAMPLE_SIZE"], ss)
      /\ Holds(w, Fmt["SAMPLES_PER_BLOCK"], ch) /\ Holds(w, Fmt["STEREO"], st)
      /\ Holds(w, Fmt["DATA_TYPE"], dt) /\ Holds(w, Fmt["HEADROOM"], 7)
  BY DEF VoiceInv, FormatHeld
<1> HIDE DEF st, dt, cs, ss, ch
<1>5. \A x \in FmtNames : Fmt[x][1] \in Nat /\ Fmt[x][2] \in Nat
  BY FmtFields
<1>6. Get(w, Fmt["CONTAINER_SIZE"]) = cs % 4 /\ Get(w, Fmt["SAMPLE_SIZE"]) = ss % 4
  <2>1. Get(w, Fmt["CONTAINER_SIZE"]) = cs % 4
    <3> DEFINE g == Fmt["CONTAINER_SIZE"]
    <3>1. g[1] \in Nat /\ g[2] = 2 /\ Holds(w, g, cs)
      BY <1>4, FmtFields DEF FmtNames
    <3> HIDE DEF g
    <3>2. Get(w, g) = cs % 4
      BY <1>2, <3>1, Reads
    <3> QED BY <3>2 DEF g
  <2>2. Get(w, Fmt["SAMPLE_SIZE"]) = ss % 4
    <3> DEFINE g == Fmt["SAMPLE_SIZE"]
    <3>1. g[1] \in Nat /\ g[2] = 2 /\ Holds(w, g, ss)
      BY <1>4, FmtFields DEF FmtNames
    <3> HIDE DEF g
    <3>2. Get(w, g) = ss % 4
      BY <1>2, <3>1, Reads
    <3> QED BY <3>2 DEF g
  <2> QED BY <2>1, <2>2
<1>7. Get(w, Fmt["SAMPLES_PER_BLOCK"]) = ch % 32
  BY <1>3, <1>4, <1>5, FmtFields, Reads DEF FmtNames
<1>8. Get(w, Fmt["STEREO"]) = st % 2 /\ Get(w, Fmt["DATA_TYPE"]) = dt % 2
  <2>1. Get(w, Fmt["STEREO"]) = st % 2
    BY <1>3, <1>4, <1>5, FmtFields, Reads DEF FmtNames
  <2>2. Get(w, Fmt["DATA_TYPE"]) = dt % 2
    BY <1>3, <1>4, <1>5, FmtFields, Reads DEF FmtNames
  <2> QED BY <2>1, <2>2
<1>9. Get(w, Fmt["HEADROOM"]) = 7
  BY <1>4, <1>5, FmtFields, Reads DEF FmtNames
<1>10. cs % 4 = cs /\ ss % 4 = ss /\ st % 2 = st /\ dt % 2 = dt
  BY <1>2, <1>3
<1> QED BY <1>6, <1>7, <1>8, <1>9, <1>10 DEF FormatAsAsked, Word, cs, ss, ch, st, dt

LEMMA PitchReads == VoiceInv(voice) => PitchAsAsked
<1> SUFFICES ASSUME VoiceInv(voice), voice.format.rate + voice.pitch \in int16_t
             PROVE  Signed(High, Word("TAR_PITCH")) = voice.format.rate + voice.pitch
  BY DEF PitchAsAsked
<1> DEFINE p == voice.format.rate + voice.pitch
<1>1. voice.word["TAR_PITCH"] = MAKE_VALUE(High, p)
  BY DEF VoiceInv, PitchHeld, PitchWord
<1>2. Holds(MAKE_VALUE(High, p), High, p)
  BY DEF Holds, MAKE_VALUE
<1>3. p \in int16_t
  OBVIOUS
<1> HIDE DEF p
<1>4. Signed(High, voice.word["TAR_PITCH"]) = p
  BY <1>1, <1>2, <1>3, SignedReads
<1> QED BY <1>4 DEF Word, p

LEMMA PersistReads == VoiceInv(voice) => StoppingDoesNotPersist
<1>1. Fmt["PERSIST"][1] \in Nat /\ Fmt["PERSIST"][2] = 1
  BY FmtFields DEF FmtNames
<1> QED BY <1>1, Reads DEF VoiceInv, PersistHeld, StoppingDoesNotPersist, Word

LEMMA TypesHeld == ParametersInv => TypeOK
BY DEF ParametersInv, VoiceInv, Voice, TypeOK

\* However many calls share a word, and in whatever order they come, what
\* the voice processor reads of envelopes, filter, format, pitch and
\* persistence is what the application asked for last
\* (nxAudioVoiceSetFormat, -SetPitch, -SetAmplitudeEnvelope,
\* -SetFilterEnvelope, -SetFilterCoefficients, -Start, -Release, -Stop).
THEOREM WordsSayWhatWasAsked == Spec => []WordsAsAsked
<1>1. ParametersInv => WordsAsAsked
  BY TypesHeld, EnvelopesRead, FilterReads, FormatReads, PitchReads, PersistReads
     DEF ParametersInv, WordsAsAsked
<1> QED BY <1>1, ParametersInvariance, PTL

-----------------------------------------------------------------------------
(* The slots: what is heard in which mixbin.                               *)

LEMMA MinOfTwo ==
  ASSUME NEW a \in Int, NEW b \in Int
  PROVE  Min({a, b}) = IF a <= b THEN a ELSE b
<1> DEFINE m == IF a <= b THEN a ELSE b
<1>1. m \in {a, b} /\ \A y \in {a, b} : m <= y
  OBVIOUS
<1>2. \A x \in {a, b} : (\A y \in {a, b} : x <= y) => x = m
  OBVIOUS
<1> HIDE DEF m
<1>3. Min({a, b}) = m
  BY <1>1, <1>2 DEF Min
<1> QED BY <1>3 DEF m

LEMMA MaxOfTwo ==
  ASSUME NEW a \in Int, NEW b \in Int
  PROVE  Max({a, b}) = IF a <= b THEN b ELSE a
<1> DEFINE m == IF a <= b THEN b ELSE a
<1>1. m \in {a, b} /\ \A y \in {a, b} : m >= y
  OBVIOUS
<1>2. \A x \in {a, b} : (\A y \in {a, b} : x >= y) => x = m
  OBVIOUS
<1> HIDE DEF m
<1>3. Max({a, b}) = m
  BY <1>1, <1>2 DEF Max
<1> QED BY <1>3 DEF m

LEMMA MinOfOne == ASSUME NEW a \in Int PROVE Min({a}) = a
BY DEF Min

Attenuates(n) == n \in Int /\ 0 <= n /\ n <= 4095

LEMMA Attenuation ==
  ASSUME NEW g \in Int PROVE Attenuates(gain_to_attenuation(g))
<1>1. Min({4095, g + 6 * 64}) = IF 4095 <= g + 6 * 64 THEN 4095 ELSE g + 6 * 64
  BY MinOfTwo
<1> DEFINE n == Min({4095, g + 6 * 64})
<1>2. n \in Int /\ n <= 4095
  BY <1>1
<1> HIDE DEF n
<1>3. Max({0, n}) = IF 0 <= n THEN n ELSE 0
  BY <1>2, MaxOfTwo
<1> QED BY <1>2, <1>3 DEF gain_to_attenuation, Attenuates, n

\* The sum of two attenuations, cut off at the end of the scale.
LEMMA Capped ==
  ASSUME NEW a, NEW b, Attenuates(a), Attenuates(b)
  PROVE  Attenuates(Min({a + b, 4095})) /\ Min({a + b, 4095}) = Min({4095, a + b})
<1>1. Min({a + b, 4095}) = IF a + b <= 4095 THEN a + b ELSE 4095
  BY MinOfTwo DEF Attenuates
<1>2. Min({4095, a + b}) = IF 4095 <= a + b THEN 4095 ELSE a + b
  BY MinOfTwo DEF Attenuates
<1> QED BY <1>1, <1>2 DEF Attenuates

LEMMA VolumesAre ==
  ASSUME NEW v \in Voice
  PROVE  /\ \A k \in 0 .. 7 : Attenuates(Volumes(v)[k])
         /\ Volumes(v)[6] = 4095 /\ Volumes(v)[7] = 4095
         /\ v.target # NoTarget => Volumes(v)[4] = 4095 /\ Volumes(v)[5] = 4095
         /\ v.target = NoTarget =>
              \A k \in 0 .. 5 : Volumes(v)[k] = Sum(v.master, v.channel[k])
<1> DEFINE m == gain_to_attenuation(v.master)
           c(k) == gain_to_attenuation(v.channel[k])
           f == gain_to_attenuation(v.hrtf.front)
           r == gain_to_attenuation(v.hrtf.rear)
           U(k) == VolumesUncapped(v)[k]
<1>1. Attenuates(m) /\ Attenuates(f) /\ Attenuates(r)
  BY Attenuation DEF Voice, HrtfGains
<1>2. \A k \in 0 .. 5 : Attenuates(c(k))
  BY Attenuation DEF Voice, ChannelGains
<1>3. \A k \in 0 .. 7 : Volumes(v)[k] = Min({U(k), 4095})
  BY DEF Volumes
<1>4. /\ U(6) = 4095 /\ U(7) = 4095
      /\ v.target = NoTarget => \A k \in 0 .. 5 : U(k) = m + c(k)
      /\ v.target # NoTarget => /\ U(0) = m + f /\ U(1) = m + f
                                /\ U(2) = m + r /\ U(3) = m + r
                                /\ U(4) = 4095 /\ U(5) = 4095
  BY DEF VolumesUncapped
<1> HIDE DEF m, c, f, r, U
<1>5. Min({4095, 4095}) = 4095 /\ Attenuates(4095)
  BY MinOfTwo DEF Attenuates
<1>6. Volumes(v)[6] = 4095 /\ Volumes(v)[7] = 4095
  BY <1>3, <1>4, <1>5
<1>7. CASE v.target = NoTarget
  <2>1. \A k \in 0 .. 5 : /\ Volumes(v)[k] = Min({m + c(k), 4095})
                          /\ Attenuates(Min({m + c(k), 4095}))
                          /\ Min({m + c(k), 4095}) = Min({4095, m + c(k)})
    BY <1>1, <1>2, <1>3, <1>4, <1>7, Capped
  <2>2. \A k \in 0 .. 5 : Sum(v.master, v.channel[k]) = Min({4095, m + c(k)})
    BY DEF Sum, m, c
  <2>3. \A k \in 0 .. 7 : k \in 0 .. 5 \/ k = 6 \/ k = 7
    OBVIOUS
  <2> QED BY <1>5, <1>6, <1>7, <2>1, <2>2, <2>3
<1>8. CASE v.target # NoTarget
  <2>1. Attenuates(Min({m + f, 4095})) /\ Attenuates(Min({m + r, 4095}))
    BY <1>1, Capped
  <2>2. /\ Attenuates(Volumes(v)[0]) /\ Attenuates(Volumes(v)[1])
        /\ Attenuates(Volumes(v)[2]) /\ Attenuates(Volumes(v)[3])
        /\ Volumes(v)[4] = 4095 /\ Volumes(v)[5] = 4095
    BY <1>3, <1>4, <1>5, <1>8, <2>1
  <2>3. \A k \in 0 .. 7 : k \in {0, 1, 2, 3, 4, 5, 6, 7}
    OBVIOUS
  <2> QED BY <1>5, <1>6, <1>8, <2>2, <2>3
<1> QED BY <1>7, <1>8

LEMMA VolumeFields ==
  /\ VolEven[1] \in Nat /\ VolEven[2] = 12 /\ VolOdd[1] \in Nat /\ VolOdd[2] = 12
  /\ Nibble6[1] \in Nat /\ Nibble6[2] = 4 /\ Nibble7[1] \in Nat /\ Nibble7[2] = 4
  /\ Apart(VolEven, VolOdd) /\ Apart(VolEven, Nibble6) /\ Apart(VolEven, Nibble7)
  /\ Apart(VolOdd, Nibble6) /\ Apart(VolOdd, Nibble7) /\ Apart(Nibble6, Nibble7)
BY IntervalsApart DEF VolEven, VolOdd, Nibble6, Nibble7

\* Word k has the volumes of slots 2k and 2k + 1, and a digit of each of the
\* volumes of slots 6 and 7, which are 4095.
VolumesIn(w, vol, k) ==
  /\ Get(w, VolEven) = vol[2 * k] /\ Get(w, VolOdd) = vol[2 * k + 1]
  /\ Get(w, Nibble6) = 15 /\ Get(w, Nibble7) = 15

LEMMA VolumeWordReads ==
  ASSUME NEW vol, \A s \in 0 .. 7 : Attenuates(vol[s]), vol[6] = 4095, vol[7] = 4095,
         NEW k \in {0, 1, 2}
  PROVE  VolumesIn(VolumeWord(vol, k), vol, k)
<1> DEFINE w == VolumeWord(vol, k)
           x == 4095 \div 16^k
           m == vol[2 * k]
           n == vol[2 * k + 1]
           a == MAKE_VALUE(VolEven, m)
           b == MAKE_VALUE(VolOdd, n)
           c == MAKE_VALUE(Nibble6, x)
           d == MAKE_VALUE(Nibble7, x)
<1>0. x \in Int /\ x % 16 = 15
  <2>1. 16^0 = 1 /\ 16^1 = 16 /\ 16^2 = 256
    OBVIOUS
  <2>2. /\ 4095 \div 1 = 4095 /\ 4095 \div 16 = 255 /\ 4095 \div 256 = 15
        /\ 4095 % 16 = 15 /\ 255 % 16 = 15 /\ 15 % 16 = 15
    OBVIOUS
  <2>3. CASE k = 0
    BY <2>1, <2>2, <2>3
  <2>4. CASE k = 1
    BY <2>1, <2>2, <2>4
  <2>5. CASE k = 2
    BY <2>1, <2>2, <2>5
  <2> QED BY <2>3, <2>4, <2>5
<1>1. a \subseteq Mask(VolEven) /\ b \subseteq Mask(VolOdd) /\ c \subseteq Mask(Nibble6)
      /\ d \subseteq Mask(Nibble7)
  BY DEF MAKE_VALUE
<1>2. w = a \cup b \cup c \cup d
  BY DEF VolumeWord
<1>3. m \in Int /\ n \in Int /\ m % 4096 = m /\ n % 4096 = n
  <2>1. 2 * k \in 0 .. 7 /\ 2 * k + 1 \in 0 .. 7
    OBVIOUS
  <2>2. Attenuates(m) /\ Attenuates(n)
    BY <2>1
  <2> HIDE DEF m, n
  <2> QED BY <2>2 DEF Attenuates
<1> HIDE DEF w, x, a, b, c, d
<1>4. w \cap Mask(VolEven) = a /\ w \cap Mask(VolOdd) = b
      /\ w \cap Mask(Nibble6) = c /\ w \cap Mask(Nibble7) = d
  BY <1>1, <1>2, VolumeFields DEF Apart
<1> HIDE DEF m, n
<1>5. /\ Holds(w, VolEven, m) /\ Holds(w, VolOdd, n) /\ Holds(w, Nibble6, x)
      /\ Holds(w, Nibble7, x)
  BY <1>4 DEF Holds, a, b, c, d
<1>6. Get(w, VolEven) = m % 4096
  BY <1>3, <1>5, VolumeFields, Reads
<1>7. Get(w, VolOdd) = n % 4096
  BY <1>3, <1>5, VolumeFields, Reads
<1>8. Get(w, Nibble6) = x % 16
  BY <1>0, <1>5, VolumeFields, Reads
<1>9. Get(w, Nibble7) = x % 16
  BY <1>0, <1>5, VolumeFields, Reads
<1> QED BY <1>0, <1>3, <1>6, <1>7, <1>8, <1>9 DEF VolumesIn, w, m, n

LEMMA VolumesRead ==
  ASSUME VoiceInv(voice)
  PROVE  \A k \in 0 .. 7 : Volume(k) = Volumes(voice)[k]
<1> DEFINE vol == Volumes(voice)
           A == voice.word["TAR_VOLA"]
           B == voice.word["TAR_VOLB"]
           C == voice.word["TAR_VOLC"]
<1>1. \A k \in 0 .. 7 : Attenuates(vol[k])
  BY VolumesAre DEF VoiceInv
<1>2. vol[6] = 4095 /\ vol[7] = 4095
  BY VolumesAre DEF VoiceInv
<1>3. A = VolumeWord(vol, 0) /\ B = VolumeWord(vol, 1) /\ C = VolumeWord(vol, 2)
  BY DEF VoiceInv, VolumesHeld
<1>4. /\ VolWord(0) = "TAR_VOLA" /\ VolWord(1) = "TAR_VOLB" /\ VolWord(2) = "TAR_VOLC"
  BY DEF VolWord
<1> HIDE DEF vol
<1>5. VolumesIn(A, vol, 0) /\ VolumesIn(B, vol, 1) /\ VolumesIn(C, vol, 2)
  BY <1>1, <1>2, <1>3, VolumeWordReads
<1>6. /\ Get(A, VolEven) = vol[0] /\ Get(A, VolOdd) = vol[1]
      /\ Get(B, VolEven) = vol[2] /\ Get(B, VolOdd) = vol[3]
      /\ Get(C, VolEven) = vol[4] /\ Get(C, VolOdd) = vol[5]
  BY <1>5 DEF VolumesIn
<1>7. /\ Get(A, Nibble6) = 15 /\ Get(B, Nibble6) = 15 /\ Get(C, Nibble6) = 15
      /\ Get(A, Nibble7) = 15 /\ Get(B, Nibble7) = 15 /\ Get(C, Nibble7) = 15
  BY <1>5 DEF VolumesIn
<1> HIDE DEF A, B, C
<1>8. /\ Word(VolWord(0)) = A /\ Word(VolWord(1)) = B /\ Word(VolWord(2)) = C
  BY <1>4 DEF Word, A, B, C
<1>9. /\ Volume(0) = vol[0] /\ Volume(1) = vol[1] /\ Volume(2) = vol[2]
       /\ Volume(3) = vol[3] /\ Volume(4) = vol[4] /\ Volume(5) = vol[5]
  BY <1>6, <1>8 DEF Volume
<1>10. Volume(6) = 4095 /\ Volume(7) = 4095
  BY <1>7, <1>8 DEF Volume
<1>11. \A k \in 0 .. 7 : k \in {0, 1, 2, 3, 4, 5, 6, 7}
  OBVIOUS
<1> QED BY <1>2, <1>9, <1>10, <1>11 DEF vol

\* Only the slots of the speakers, with a target those of the submixes, are
\* audible.
LEMMA AudibleSlots ==
  ASSUME VoiceInv(voice)
  PROVE  /\ Audible \subseteq 0 .. 5
         /\ voice.target # NoTarget => Audible \subseteq 0 .. 3
<1>1. /\ Volume(6) = 4095 /\ Volume(7) = 4095
      /\ voice.target # NoTarget => Volume(4) = 4095 /\ Volume(5) = 4095
  BY VolumesRead, VolumesAre DEF VoiceInv
<1>2. \A k \in 0 .. 7 : k \notin 0 .. 5 => k = 6 \/ k = 7
  OBVIOUS
<1>3. \A k \in 0 .. 5 : k \notin 0 .. 3 => k = 4 \/ k = 5
  OBVIOUS
<1> QED BY <1>1, <1>2, <1>3 DEF Audible

LEMMA MixbinsRead ==
  ASSUME VoiceInv(voice), NEW k \in 0 .. 5
  PROVE  Mixbin(k) = IF voice.format.is3d /\ k < 4 THEN <<6, 8, 7, 9>>[k + 1]
                     ELSE IF voice.target = NoTarget THEN k ELSE <<6, 7, 8, 9, 10, 0>>[k + 1]
<1> DEFINE w == voice.word["CFG_VBIN"]
           n == SlotBins(voice.target # NoTarget)[k]
<1>1. Holds(w, Vbin[k], n)
  BY DEF VoiceInv, SlotsHeld
<1>2. n = (IF voice.target = NoTarget THEN k ELSE <<6, 7, 8, 9, 10, 0>>[k + 1])
      /\ n \in 0 .. 31
  BY DEF SlotBins
<1> HIDE DEF w, n
<1>3. Vbin[k][1] \in Nat /\ Vbin[k][2] = 5
  BY VbinFields
<1>4. Get(w, Vbin[k]) = n % 32
  BY <1>1, <1>2, <1>3, Reads
<1>5. n % 32 = n
  BY <1>2
<1>6. Mixbin(k) = IF voice.format.is3d /\ k < 4 THEN HrtfSubmix[k] ELSE Get(w, Vbin[k])
  BY DEF Mixbin, Word, w
<1>7. k < 4 => HrtfSubmix[k] = <<6, 8, 7, 9>>[k + 1]
  BY DEF HrtfSubmix
<1> QED BY <1>2, <1>4, <1>5, <1>6, <1>7

LEMMA SlotsRead == VoiceInv(voice) => OneSlotPerMixbin
<1> SUFFICES ASSUME VoiceInv(voice), NEW j \in Audible, NEW k \in Audible,
                    Mixbin(j) = Mixbin(k)
             PROVE  j = k
  BY DEF OneSlotPerMixbin
<1>1. j \in 0 .. 5 /\ k \in 0 .. 5
  BY AudibleSlots
<1>2. voice.target # NoTarget => j \in 0 .. 3 /\ k \in 0 .. 3
  BY AudibleSlots
<1>3. CASE voice.target = NoTarget
  <2>1. \A i \in 0 .. 5 : Mixbin(i) = IF voice.format.is3d /\ i < 4
                                     THEN <<6, 8, 7, 9>>[i + 1] ELSE i
    BY <1>3, MixbinsRead
  <2> QED BY <1>1, <2>1
<1>4. CASE voice.target # NoTarget
  <2>1. \A i \in 0 .. 3 : Mixbin(i) = IF voice.format.is3d THEN <<6, 8, 7, 9>>[i + 1]
                                     ELSE <<6, 7, 8, 9, 10, 0>>[i + 1]
    BY <1>4, MixbinsRead
  <2> QED BY <1>2, <1>4, <2>1
<1> QED BY <1>3, <1>4

LEMMA TargetRead == VoiceInv(voice) => OnlySubmixesWithTarget
<1> SUFFICES ASSUME VoiceInv(voice), voice.target # NoTarget, NEW b \in (0 .. 5) \cup {10}
             PROVE  Heard(b) = 4095
  BY DEF OnlySubmixesWithTarget
<1>1. \A k \in 0 .. 3 : Mixbin(k) \in 6 .. 9
  BY MixbinsRead
<1>2. Audible \subseteq 0 .. 3
  BY AudibleSlots
<1>3. \A k \in Audible : Mixbin(k) # b
  <2>1. b \notin 6 .. 9
    OBVIOUS
  <2> QED BY <1>1, <1>2, <2>1
<1>4. {k \in Audible : Mixbin(k) = b} = {}
  BY <1>3
<1> QED BY <1>4 DEF Heard

LEMMA SpeakersRead == VoiceInv(voice) => ChannelsReachTheirSpeakers
<1> SUFFICES ASSUME VoiceInv(voice), voice.target = NoTarget, ~voice.format.is3d,
                    NEW b \in 0 .. 10
             PROVE  Heard(b) = IF b < 6 THEN Sum(voice.master, voice.channel[b]) ELSE 4095
  BY DEF ChannelsReachTheirSpeakers
<1> DEFINE ks == {k \in Audible : Mixbin(k) = b}
<1>1. \A k \in 0 .. 5 : Mixbin(k) = k
  BY MixbinsRead
<1>2. ks = IF b \in Audible THEN {b} ELSE {}
  BY <1>1, AudibleSlots
<1>3. CASE b >= 6
  <2>1. b \notin Audible
    BY <1>3, AudibleSlots
  <2>2. ks = {}
    BY <1>2, <2>1
  <2> QED BY <1>3, <2>2 DEF Heard
<1>4. CASE b < 6
  <2>1. b \in 0 .. 5 /\ b \in 0 .. 7
    BY <1>4
  <2>2. Volume(b) = Volumes(voice)[b] /\ Attenuates(Volumes(voice)[b])
        /\ Volumes(voice)[b] = Sum(voice.master, voice.channel[b])
    BY <2>1, VolumesRead, VolumesAre DEF VoiceInv
  <2>3. CASE b \in Audible
    <3>1. ks = {b}
      BY <1>2, <2>3
    <3> HIDE DEF ks
    <3>2. {Volume(k) : k \in ks} = {Volume(b)}
      BY <3>1
    <3>3. Min({Volume(b)}) = Volume(b)
      BY <2>2, MinOfOne DEF Attenuates
    <3>4. Heard(b) = Volume(b)
      BY <3>1, <3>2, <3>3 DEF Heard, ks
    <3> QED BY <1>4, <2>2, <3>4
  <2>4. CASE b \notin Audible
    <3>1. Volume(b) = 4095
      BY <2>1, <2>4 DEF Audible
    <3>2. ks = {}
      BY <1>2, <2>4
    <3>3. Heard(b) = 4095
      BY <3>2 DEF Heard
    <3> QED BY <1>4, <2>2, <3>1, <3>3
  <2> QED BY <2>3, <2>4
<1> QED BY <1>3, <1>4

\* Whatever formats, classes, targets and gains a voice goes through, no two
\* of its audible slots feed one mixbin, and with a target nothing of it
\* reaches the speakers past the HRTF submixes (nxAudioVoiceSetHRTFTarget,
\* voice_update_volumes).
THEOREM SlotsStayApart == Spec => []MixbinsSound
<1>1. ParametersInv => MixbinsSound
  BY SlotsRead, TargetRead DEF ParametersInv, MixbinsSound
<1> QED BY <1>1, ParametersInvariance, PTL

\* Without a target each speaker gets the sum of its channel's and the
\* master attenuation, cut off and never wrapped, for every gain an
\* application passes (voice_update_volumes).
THEOREM SpeakersReached == Spec => []ChannelsReachTheirSpeakers
<1>1. ParametersInv => ChannelsReachTheirSpeakers
  BY SpeakersRead DEF ParametersInv
<1> QED BY <1>1, ParametersInvariance, PTL

-----------------------------------------------------------------------------
(***************************************************************************)
(* The filters of a direction (HrtfGrid).                                  *)
(***************************************************************************)
\* The grid point nxAudioHRTFSetParamsFromAngles settles on.
Row(el)        == (SnapEl(ClampedEl(el)) + 40) \div 10
Column(az, el) == SnapAz(ClampedAz(az), ClampedEl(el)) \div 5

-----------------------------------------------------------------------------
(* The grid.                                                               *)

\* No row of elevations lies nearer than the one chosen.
LEMMA RowNearest ==
  ASSUME NEW el \in Int
  PROVE  /\ Row(el) \in 0 .. 13 /\ SnapEl(ClampedEl(el)) = 10 * Row(el) - 40
         /\ AbsDeg(Degree * (10 * Row(el) - 40) - ClampedEl(el)) <= 5 * Degree
         /\ Row(el) = 13 <=> el >= 85 * Degree
<1> DEFINE c == ClampedEl(el)
<1>1. c \in -160 .. 360 /\ (c >= 340 <=> el >= 340)
  BY DEF ClampedEl, Clamp, Degree
<1> HIDE DEF c
<1>2. CASE c >= 0
  <2> DEFINE k == ((c + 20) \div 4) \div 10
  <2>1. SnapEl(c) = k * 10
    BY <1>1, <1>2 DEF SnapEl, Truncate, Degree
  <2>2. k \in 0 .. 9 /\ 40 * k - c \in -20 .. 20 /\ (k = 9 <=> c >= 340)
    BY <1>1, <1>2
  <2> HIDE DEF k
  <2>3. (k * 10 + 40) \div 10 = k + 4
    BY <2>2
  <2> QED BY <1>1, <2>1, <2>2, <2>3 DEF Row, AbsDeg, Degree, c
<1>3. CASE c < 0
  <2> DEFINE k == ((20 - c) \div 4) \div 10
  <2>1. /\ c - 20 < 0 /\ -(c - 20) = 20 - c /\ (20 - c) \div 4 \in 5 .. 45
    BY <1>1, <1>3
  <2>2. Truncate(c - 20, 4) = -((20 - c) \div 4)
    BY <1>1, <2>1 DEF Truncate
  <2>3. Truncate(-((20 - c) \div 4), 10) = -k
    BY <2>1 DEF Truncate
  <2>4. SnapEl(c) = (-k) * 10
    BY <1>1, <1>3, <2>2, <2>3 DEF SnapEl, Degree
  <2>5. k \in 0 .. 4 /\ 40 * (-k) - c \in -20 .. 20
    BY <1>1, <1>3
  <2> HIDE DEF k
  <2>6. ((-k) * 10 + 40) \div 10 = 4 - k
    BY <2>5
  <2> QED BY <1>1, <1>3, <2>4, <2>5, <2>6 DEF Row, AbsDeg, Degree, c
<1> QED BY <1>1, <1>2, <1>3

\* Nor a column of azimuths; overhead there is one only.
LEMMA ColumnNearest ==
  ASSUME NEW az \in Int, NEW el \in Int
  PROVE  /\ Column(az, el) \in 0 .. 36
         /\ Row(el) = 13 => Column(az, el) = 0
         /\ Row(el) # 13 =>
              2 * AbsDeg(Degree * 5 * Column(az, el) - AbsDeg(ClampedAz(az))) <= 5 * Degree
         /\ SnapAz(ClampedAz(az), ClampedEl(el)) = 5 * Column(az, el)
<1> DEFINE c == AbsDeg(ClampedAz(az))
           k == ((c + 10) \div 4) \div 5
<1>1. c \in 0 .. 720
  <2>1. ClampedAz(az) \in -720 .. 720
    BY DEF ClampedAz, Clamp, Degree
  <2> QED BY <2>1 DEF AbsDeg
<1>2. SnapEl(ClampedEl(el)) = 90 <=> Row(el) = 13
  BY RowNearest
<1>3. ASSUME Row(el) = 13 PROVE SnapAz(ClampedAz(az), ClampedEl(el)) = 0
  BY <1>2, <1>3 DEF SnapAz
<1> HIDE DEF c
<1>4. ASSUME Row(el) # 13 PROVE SnapAz(ClampedAz(az), ClampedEl(el)) = k * 5
  <2>1. (c + 10) \div 4 >= 0 /\ (c + 10) \div 4 \in Int
    BY <1>1
  <2>2. (5 * Degree) \div 2 = 10
    BY DEF Degree
  <2>3. Truncate(c + 10, 4) = (c + 10) \div 4
    BY <1>1 DEF Truncate
  <2>4. Truncate((c + 10) \div 4, 5) = k
    BY <2>1 DEF Truncate
  <2> QED BY <1>2, <1>4, <2>2, <2>3, <2>4 DEF SnapAz, Degree, c
<1>5. k \in 0 .. 36 /\ 2 * (20 * k - c) \in -20 .. 20
  BY <1>1
<1> HIDE DEF k
<1>6. (k * 5) \div 5 = k
  BY <1>5
<1>7. CASE Row(el) = 13
  BY <1>3, <1>7 DEF Column
<1>8. CASE Row(el) # 13
  <2>1. Column(az, el) = k
    BY <1>4, <1>6, <1>8 DEF Column
  <2>2. 2 * AbsDeg(Degree * 5 * k - c) <= 5 * Degree
    BY <1>1, <1>5 DEF AbsDeg, Degree
  <2> QED BY <1>4, <1>5, <1>8, <2>1, <2>2 DEF c
<1> QED BY <1>7, <1>8

-----------------------------------------------------------------------------
(* The filters of a direction and what an entry gives back.                *)

\* The even filter of the pair, the one whose delay counts.
Near(az, el) == 2 * (14 * Column(az, el) + Row(el))

LEMMA DelaysBounded ==
  \A a \in 0 .. 36, e \in 0 .. 13 :
    /\ LeftDelay[a + 1][e + 1] \in 0 .. 31
    /\ RightDelay(a, e) \in 0 .. 3
    /\ a # 36 /\ ~(a \in 33 .. 35 /\ e = 13) => RightDelay(a, e) = 0
<1>1. \A k \in 1 .. 37, m \in 1 .. 14 : LeftDelay[k][m] \in 0 .. 31
  BY SMTT(120) DEF LeftDelay
<1>2. <<1, 2, 2, 3, 1, 1, 1, 1, 1, 1, 0, 0, 0, 1>> \in [1 .. 14 -> 0 .. 3]
  OBVIOUS
<1> TAKE a \in 0 .. 36, e \in 0 .. 13
<1>3. a + 1 \in 1 .. 37 /\ e + 1 \in 1 .. 14
  OBVIOUS
<1>4. LeftDelay[a + 1][e + 1] \in 0 .. 31
  BY <1>1, <1>3
<1>5. <<1, 2, 2, 3, 1, 1, 1, 1, 1, 1, 0, 0, 0, 1>>[e + 1] \in 0 .. 3
  BY <1>2, <1>3
<1> QED BY <1>4, <1>5 DEF RightDelay

\* The delays of the pair at a grid point, but for the ones behind the listener.
LEMMA PairDelays ==
  ASSUME NEW a \in 0 .. 36, NEW e \in 0 .. 13, e = 13 => a = 0
  PROVE  LET n == 2 * (14 * a + e) IN
           /\ n \in Nat /\ n % 2 = 0 /\ (n + 1) % 2 # 0
           /\ n \div 2 = 14 * a + e /\ (n + 1) \div 2 = 14 * a + e
           /\ n \div 28 = a /\ (n + 1) \div 28 = a /\ (n \div 2) % 14 = e
           /\ Delay(n) \in 0 .. 31 /\ (a # 36 => Delay(n + 1) = 0)
<1> DEFINE n == 2 * (14 * a + e)
<1>1. /\ n \in Nat /\ n % 2 = 0 /\ (n + 1) % 2 # 0
      /\ n \div 2 = 14 * a + e /\ (n + 1) \div 2 = 14 * a + e
  OBVIOUS
<1>2. n \div 28 = a /\ (n + 1) \div 28 = a /\ (14 * a + e) % 14 = e
  OBVIOUS
<1> HIDE DEF n
<1>3. /\ n \div (2 * NumElevations) = a /\ (n \div 2) % NumElevations = e
      /\ (n + 1) \div (2 * NumElevations) = a /\ ((n + 1) \div 2) % NumElevations = e
  BY <1>1, <1>2 DEF NumElevations
<1>4. Delay(n) = LeftDelay[a + 1][e + 1]
  BY <1>1, <1>3, Zenon DEF Delay
<1>5. Delay(n + 1) = RightDelay(a, e)
  BY <1>1, <1>3, Zenon DEF Delay
<1>6. Delay(n) \in 0 .. 31 /\ (a # 36 => Delay(n + 1) = 0)
  <2>1. a # 36 => ~(a \in 33 .. 35 /\ e = 13)
    OBVIOUS
  <2>2. LeftDelay[a + 1][e + 1] \in 0 .. 31
    BY DelaysBounded
  <2>3. a # 36 => RightDelay(a, e) = 0
    BY <2>1, DelaysBounded
  <2> QED BY <1>4, <1>5, <2>2, <2>3
<1> QED BY <1>1, <1>2, <1>6 DEF n

LEMMA FilledFrom ==
  ASSUME NEW az \in Int, NEW el \in Int
  PROVE  LET n == Near(az, el) IN
           Filled(az, el) = IF az >= 0 THEN Registers(Taps(n), Taps(n + 1), Delay(n))
                            ELSE Registers(Taps(n + 1), Taps(n), -Delay(n))
<1> DEFINE a == ClampedAz(az)
           c == ClampedEl(el)
           n == Near(az, el)
<1>1. a \in Int /\ (a >= 0 <=> az >= 0)
  BY DEF ClampedAz, Clamp, Degree
<1>2. SnapAz(a, c) \div AzimuthStep = Column(az, el)
  BY DEF Column, AzimuthStep
<1>3. (SnapEl(c) + 40) \div ElevationStep = Row(el)
  BY DEF Row, ElevationStep
<1>4. Column(az, el) \in 0 .. 36 /\ Row(el) \in 0 .. 13
  BY RowNearest, ColumnNearest
<1> HIDE DEF a, c
<1>5. /\ Clamp(Column(az, el), 0, NumAzimuths - 1) = Column(az, el)
      /\ Clamp(Row(el), 0, NumElevations - 1) = Row(el)
  BY <1>4 DEF Clamp, NumAzimuths, NumElevations
<1>6. hrtf_index[Column(az, el)][Row(el)] = n
  BY <1>4 DEF hrtf_index, NumAzimuths, NumElevations, Near
<1>7. GridIndex(a, c) = n
  BY <1>2, <1>3, <1>5, <1>6 DEF GridIndex
<1> HIDE DEF n
<1>8. CASE az >= 0
  <2>1. Pair(a, c) = [left |-> n, right |-> n + 1]
    BY <1>1, <1>7, <1>8 DEF Pair
  <2>2. Itd(a, Pair(a, c)) = Delay(n)
    BY <1>1, <1>8, <2>1 DEF Itd
  <2> QED BY <1>8, <2>1, <2>2 DEF Filled, a, c, n
<1>9. CASE ~(az >= 0)
  <2>1. Pair(a, c) = [left |-> n + 1, right |-> n]
    BY <1>1, <1>7, <1>9 DEF Pair
  <2>2. Itd(a, Pair(a, c)) = -Delay(n)
    BY <1>1, <1>9, <2>1 DEF Itd
  <2> QED BY <1>9, <2>1, <2>2 DEF Filled, a, c, n
<1> QED BY <1>8, <1>9 DEF n

\* The registers of the filters l and r and the delay t.
Lags(t)       == IF t >= 0 THEN 512 * t ELSE 65536 + 512 * t
Four(l, r, n) == <<<<l, 2 * n>>, <<r, 2 * n>>, <<l, 2 * n + 1>>, <<r, 2 * n + 1>>>>
Three(l, r, t) == <<<<l, 30>>, <<r, 30>>, Lags(t)>>
Pairs(g, l, r, t) ==
  DOMAIN g = 0 .. 15 /\ g[15] = Three(l, r, t) /\ \A n \in 0 .. 14 : g[n] = Four(l, r, n)

LEMMA RegistersAt ==
  ASSUME NEW l \in Int, NEW r \in Int, NEW t \in -31 .. 31
  PROVE  /\ Pairs(Registers(Taps(l), Taps(r), t), l, r, t)
         /\ Registers(Taps(l), Taps(r), t)
              = [n \in 0 .. 15 |-> Registers(Taps(l), Taps(r), t)[n]]
<1> DEFINE g == Registers(Taps(l), Taps(r), t)
<1>1. DOMAIN g = 0 .. 15 /\ g = [n \in 0 .. 15 |-> g[n]]
  BY DEF Registers
<1>2. ASSUME NEW n \in 0 .. 14
      PROVE  g[n] = Four(l, r, n)
  <2>1. 2 * n \in 0 .. 30 /\ 2 * n + 1 \in 0 .. 30 /\ n \in 0 .. 15 /\ n < 15
    OBVIOUS
  <2>2. /\ Taps(l)[2 * n] = <<l, 2 * n>> /\ Taps(l)[2 * n + 1] = <<l, 2 * n + 1>>
        /\ Taps(r)[2 * n] = <<r, 2 * n>> /\ Taps(r)[2 * n + 1] = <<r, 2 * n + 1>>
    BY <2>1 DEF Taps
  <2>3. g[n] = <<Taps(l)[2 * n], Taps(r)[2 * n], Taps(l)[2 * n + 1], Taps(r)[2 * n + 1]>>
    BY <2>1 DEF Registers
  <2> QED BY <2>2, <2>3 DEF Four
<1>3. (t * 512) % 65536 = Lags(t)
  BY DEF Lags
<1>4. Taps(l)[30] = <<l, 30>> /\ Taps(r)[30] = <<r, 30>>
  BY DEF Taps
<1>5. g[15] = <<Taps(l)[30], Taps(r)[30], (t * 512) % 65536>>
  BY DEF Registers
<1>6. g[15] = Three(l, r, t)
  BY <1>3, <1>4, <1>5 DEF Three
<1> HIDE DEF g
<1>7. Pairs(g, l, r, t)
  BY <1>1, <1>2, <1>6 DEF Pairs
<1> QED BY <1>1, <1>7 DEF g

\* What the voice processor reads from an entry of such registers.
LEMMA EntryReads ==
  ASSUME NEW i, NEW l \in Int, NEW r \in Int, NEW t \in -31 .. 31,
         Pairs(hrir[i], l, r, t)
  PROVE  /\ DOMAIN hrir[i] = 0 .. 15
         /\ \A k \in 0 .. 30 : LeftTap(i, k) = <<l, k>> /\ RightTap(i, k) = <<r, k>>
         /\ LeftFilter(i) = l /\ RightFilter(i) = r /\ Lag(i) = 512 * t
<1> DEFINE g == hrir[i]
<1>1. /\ DOMAIN g = 0 .. 15
      /\ g[15] = Three(l, r, t) /\ \A n \in 0 .. 14 : g[n] = Four(l, r, n)
  BY DEF Pairs
<1>2. ASSUME NEW k \in 0 .. 30
      PROVE  LeftTap(i, k) = <<l, k>> /\ RightTap(i, k) = <<r, k>>
  <2>1. CASE k = 30
    <3>1. g[15][1] = <<l, 30>> /\ g[15][2] = <<r, 30>>
      BY <1>1 DEF Three
    <3> QED BY <2>1, <3>1 DEF LeftTap, RightTap
  <2>2. CASE k # 30
    <3> DEFINE n == k \div 2
    <3>1. n \in 0 .. 14 /\ (k % 2 = 0 => k = 2 * n) /\ (k % 2 # 0 => k = 2 * n + 1)
      BY <2>2
    <3> HIDE DEF n
    <3>2. g[n] = Four(l, r, n)
      BY <1>1, <3>1
    <3>3. CASE k % 2 = 0
      <4>1. g[n][1] = <<l, k>> /\ g[n][2] = <<r, k>>
        BY <3>1, <3>2, <3>3 DEF Four
      <4> QED BY <2>2, <3>3, <4>1 DEF LeftTap, RightTap, n
    <3>4. CASE k % 2 # 0
      <4>1. g[n][3] = <<l, k>> /\ g[n][4] = <<r, k>>
        BY <3>1, <3>2, <3>4 DEF Four
      <4> QED BY <2>2, <3>4, <4>1 DEF LeftTap, RightTap, n
    <3> QED BY <3>3, <3>4
  <2> QED BY <2>1, <2>2
<1>3. LeftFilter(i) = l /\ RightFilter(i) = r
  <2>1. LeftTap(i, 0) = <<l, 0>> /\ RightTap(i, 0) = <<r, 0>>
    BY <1>2
  <2> QED BY <2>1 DEF LeftFilter, RightFilter
<1>4. Lag(i) = 512 * t
  <2>1. hrir[i][15][3] = Lags(t)
    BY <1>1 DEF Three
  <2>2. CASE t >= 0
    BY <2>1, <2>2 DEF Lag, Lags
  <2>3. CASE t < 0
    BY <2>1, <2>3 DEF Lag, Lags
  <2> QED BY <2>2, <2>3
<1> QED BY <1>1, <1>2, <1>3, <1>4

-----------------------------------------------------------------------------
(* The invariant.                                                          *)

\* An entry has the registers of the direction it was last given.
FilledInv ==
  /\ DOMAIN hrir = Valid /\ DOMAIN asked = Valid /\ calls \in 0 .. MaxCalls
  /\ \A i \in Set :
       /\ asked[i].az \in Int /\ asked[i].el \in Int
       /\ hrir[i] = Filled(asked[i].az, asked[i].el)

LEMMA InitFilled == HrtfInit => FilledInv
BY AnglesAssumption DEF HrtfInit, FilledInv, Set

LEMMA NextFilled == FilledInv /\ [HrtfNext]_hrtfVars => FilledInv'
<1> SUFFICES ASSUME FilledInv, [HrtfNext]_hrtfVars PROVE FilledInv'
  OBVIOUS
<1>1. ASSUME NEW i \in Entries, NEW az \in Azimuths, NEW el \in Elevations,
             HRTFSetParamsFromAngles(i, az, el)
      PROVE  FilledInv'
  <2> USE <1>1
  <2>1. calls' \in 0 .. MaxCalls
    BY AnglesAssumption DEF HRTFSetParamsFromAngles, FilledInv
  <2>2. CASE i \notin Valid
    <3>1. UNCHANGED <<hrir, asked>>
      BY <2>2 DEF HRTFSetParamsFromAngles, SetParameters
    <3> QED BY <2>1, <3>1 DEF FilledInv, Set
  <2>3. CASE i \in Valid
    <3>1. /\ hrir' = [hrir EXCEPT ![i] = Filled(az, el)]
          /\ asked' = [asked EXCEPT ![i] = [az |-> az, el |-> el]]
      BY <2>3 DEF HRTFSetParamsFromAngles, SetParameters
    <3>2. DOMAIN hrir' = Valid /\ DOMAIN asked' = Valid
      BY <3>1 DEF FilledInv
    <3>3. ASSUME NEW j \in Set'
          PROVE  /\ asked'[j].az \in Int /\ asked'[j].el \in Int
                 /\ hrir'[j] = Filled(asked'[j].az, asked'[j].el)
      <4>1. j \in Valid /\ asked'[j] # Nowhere
        BY DEF Set
      <4>2. CASE j = i
        <5>1. hrir'[j] = Filled(az, el) /\ asked'[j] = [az |-> az, el |-> el]
          BY <2>3, <3>1, <4>2 DEF FilledInv
        <5>2. asked'[j].az = az /\ asked'[j].el = el
          BY <5>1
        <5>3. az \in Int /\ el \in Int
          BY AnglesAssumption
        <5> QED BY <5>1, <5>2, <5>3
      <4>3. CASE j # i
        <5>1. hrir'[j] = hrir[j] /\ asked'[j] = asked[j]
          BY <3>1, <4>1, <4>3 DEF FilledInv
        <5>2. j \in Set
          BY <4>1, <5>1 DEF Set
        <5> QED BY <5>1, <5>2 DEF FilledInv
      <4> QED BY <4>2, <4>3
    <3> QED BY <2>1, <3>2, <3>3 DEF FilledInv
  <2> QED BY <2>2, <2>3
<1>2. CASE UNCHANGED hrtfVars
  BY <1>2 DEF hrtfVars, FilledInv, Set
<1> QED BY <1>1, <1>2 DEF HrtfNext

\* The grid point of an entry and the even filter there.
ColumnOf(i) == Column(asked[i].az, asked[i].el)
RowOf(i)    == Row(asked[i].el)
NearOf(i)   == Near(asked[i].az, asked[i].el)

LEMMA GridOf ==
  ASSUME FilledInv, NEW i \in Set
  PROVE  /\ asked[i].az \in Int /\ asked[i].el \in Int
         /\ ColumnOf(i) \in 0 .. 36 /\ RowOf(i) \in 0 .. 13
         /\ NearOf(i) \in Nat /\ NearOf(i) % 2 = 0 /\ (NearOf(i) + 1) % 2 # 0
         /\ NearOf(i) \div 2 = 14 * ColumnOf(i) + RowOf(i)
         /\ (NearOf(i) + 1) \div 2 = 14 * ColumnOf(i) + RowOf(i)
         /\ NearOf(i) \div 28 = ColumnOf(i) /\ (NearOf(i) + 1) \div 28 = ColumnOf(i)
         /\ (14 * ColumnOf(i) + RowOf(i)) % 14 = RowOf(i)
         /\ Delay(NearOf(i)) \in 0 .. 31
         /\ ColumnOf(i) # 36 => Delay(NearOf(i) + 1) = 0
<1> DEFINE a == ColumnOf(i)
           e == RowOf(i)
<1>1. asked[i].az \in Int /\ asked[i].el \in Int
  BY DEF FilledInv
<1>2. a \in 0 .. 36 /\ e \in 0 .. 13 /\ (e = 13 => a = 0)
  BY <1>1, RowNearest, ColumnNearest DEF ColumnOf, RowOf
<1>3. NearOf(i) = 2 * (14 * a + e)
  BY DEF NearOf, Near, ColumnOf, RowOf
<1> HIDE DEF a, e
<1> DEFINE n == 2 * (14 * a + e)
<1>4. /\ n \in Nat /\ n % 2 = 0 /\ (n + 1) % 2 # 0
      /\ n \div 2 = 14 * a + e /\ (n + 1) \div 2 = 14 * a + e
      /\ n \div 28 = a /\ (n + 1) \div 28 = a /\ (14 * a + e) % 14 = e
      /\ Delay(n) \in 0 .. 31 /\ (a # 36 => Delay(n + 1) = 0)
  BY <1>2, PairDelays
<1> HIDE DEF n
<1>5. NearOf(i) = n
  BY <1>3 DEF n
<1> QED BY <1>1, <1>2, <1>4, <1>5 DEF a, e

\* What an entry gives back, for a source on the right and on the left.
LEMMA EntryOf ==
  ASSUME FilledInv, NEW i \in Set
  PROVE  /\ DOMAIN hrir[i] = 0 .. 15
         /\ \A k \in 0 .. 30 : LeftTap(i, k) = <<LeftFilter(i), k>>
                               /\ RightTap(i, k) = <<RightFilter(i), k>>
         /\ asked[i].az >= 0 =>
              /\ LeftFilter(i) = NearOf(i) /\ RightFilter(i) = NearOf(i) + 1
              /\ Lag(i) = 512 * Delay(NearOf(i))
         /\ ~(asked[i].az >= 0) =>
              /\ LeftFilter(i) = NearOf(i) + 1 /\ RightFilter(i) = NearOf(i)
              /\ Lag(i) = 512 * (-Delay(NearOf(i)))
<1> DEFINE n == NearOf(i)
<1>1. /\ asked[i].az \in Int /\ asked[i].el \in Int
      /\ hrir[i] = Filled(asked[i].az, asked[i].el)
  BY DEF FilledInv
<1>2. hrir[i] = IF asked[i].az >= 0 THEN Registers(Taps(n), Taps(n + 1), Delay(n))
                ELSE Registers(Taps(n + 1), Taps(n), -Delay(n))
  BY <1>1, FilledFrom DEF NearOf
<1>3. n \in Nat /\ Delay(n) \in 0 .. 31
  BY GridOf
<1> HIDE DEF n
<1>4. ASSUME asked[i].az >= 0
      PROVE  /\ DOMAIN hrir[i] = 0 .. 15
             /\ \A k \in 0 .. 30 : LeftTap(i, k) = <<n, k>> /\ RightTap(i, k) = <<n + 1, k>>
             /\ LeftFilter(i) = n /\ RightFilter(i) = n + 1 /\ Lag(i) = 512 * Delay(n)
  <2>1. n \in Int /\ n + 1 \in Int /\ Delay(n) \in -31 .. 31
    BY <1>3
  <2>2. Pairs(hrir[i], n, n + 1, Delay(n))
    BY <1>2, <1>4, <2>1, RegistersAt
  <2> QED BY <2>1, <2>2, EntryReads, Zenon
<1>5. ASSUME ~(asked[i].az >= 0)
      PROVE  /\ DOMAIN hrir[i] = 0 .. 15
             /\ \A k \in 0 .. 30 : LeftTap(i, k) = <<n + 1, k>> /\ RightTap(i, k) = <<n, k>>
             /\ LeftFilter(i) = n + 1 /\ RightFilter(i) = n /\ Lag(i) = 512 * (-Delay(n))
  <2> DEFINE t == -Delay(n)
  <2>1. n \in Int /\ n + 1 \in Int /\ t \in -31 .. 31
    BY <1>3
  <2>2. hrir[i] = Registers(Taps(n + 1), Taps(n), t)
    BY <1>2, <1>5
  <2> HIDE DEF t
  <2>4. Pairs(hrir[i], n + 1, n, t)
    BY <2>1, <2>2, RegistersAt
  <2>3. /\ DOMAIN hrir[i] = 0 .. 15
        /\ \A k \in 0 .. 30 : LeftTap(i, k) = <<n + 1, k>> /\ RightTap(i, k) = <<n, k>>
        /\ LeftFilter(i) = n + 1 /\ RightFilter(i) = n /\ Lag(i) = 512 * t
    BY <2>1, <2>4, EntryReads, Zenon
  <2> QED BY <2>3 DEF t
<1>6. CASE asked[i].az >= 0
  BY <1>4, <1>6 DEF n
<1>7. CASE ~(asked[i].az >= 0)
  BY <1>5, <1>7 DEF n
<1> QED BY <1>6, <1>7

-----------------------------------------------------------------------------
(* The properties.                                                         *)

LEMMA TypesFollow == FilledInv => HrtfTypeOK
<1> SUFFICES ASSUME FilledInv PROVE HrtfTypeOK
  OBVIOUS
<1>1. ASSUME NEW i \in Set
      PROVE  DOMAIN hrir[i] = 0 .. 15 /\ -32768 <= Lag(i) /\ Lag(i) < 32768
  <2>1. DOMAIN hrir[i] = 0 .. 15 /\ Delay(NearOf(i)) \in 0 .. 31
    BY EntryOf, GridOf
  <2>2. Lag(i) \in {512 * Delay(NearOf(i)), 512 * (-Delay(NearOf(i)))}
    BY EntryOf
  <2> QED BY <2>1, <2>2
<1>2. calls \in 0 .. MaxCalls
  BY DEF FilledInv
<1> QED BY <1>1, <1>2 DEF HrtfTypeOK

LEMMA TapsFollow == FilledInv => TapsInPlace
<1> SUFFICES ASSUME FilledInv, NEW i \in Set
             PROVE  /\ \A k \in 0 .. 30 : LeftTap(i, k) = <<LeftFilter(i), k>>
                                          /\ RightTap(i, k) = <<RightFilter(i), k>>
                    /\ LeftFilter(i) \div 2 = RightFilter(i) \div 2
                    /\ LeftFilter(i) # RightFilter(i)
  BY DEF TapsInPlace
<1>1. NearOf(i) # NearOf(i) + 1 /\ NearOf(i) \div 2 = (NearOf(i) + 1) \div 2
  BY GridOf
<1> QED BY <1>1, EntryOf

LEMMA NearestFollows == FilledInv => NearestDirection
<1> SUFFICES ASSUME FilledInv, NEW i \in Set
      PROVE /\ AbsDeg(GridEl(i) - ClampedEl(asked[i].el)) <= 5 * Degree
            /\ IF Overhead(i) THEN GridAz(i) = 0
               ELSE 2 * AbsDeg(GridAz(i) - AbsDeg(ClampedAz(asked[i].az))) <= 5 * Degree
  BY DEF NearestDirection
<1> DEFINE az == asked[i].az
           el == asked[i].el
           a == Column(az, el)
           e == Row(el)
<1>1. /\ az \in Int /\ el \in Int /\ ColumnOf(i) = a /\ RowOf(i) = e
      /\ a \in 0 .. 36 /\ e \in 0 .. 13
  BY GridOf DEF ColumnOf, RowOf
<1>2. LeftFilter(i) \div 28 = a /\ (LeftFilter(i) \div 2) % 14 = e
  BY EntryOf, GridOf DEF ColumnOf, RowOf
<1>3. GridAz(i) = Degree * 5 * a /\ GridEl(i) = Degree * (10 * e - 40)
  BY <1>1, <1>2 DEF GridAz, GridEl, AzimuthStep, ElevationStep, NumElevations, Degree
<1>4. /\ Overhead(i) <=> e = 13
      /\ AbsDeg(Degree * (10 * e - 40) - ClampedEl(el)) <= 5 * Degree
  BY <1>1, RowNearest DEF Overhead
<1>5. AbsDeg(GridEl(i) - ClampedEl(el)) <= 5 * Degree
  BY <1>3, <1>4
<1>6. CASE e = 13
  <2>1. a = 0
    BY <1>1, <1>6, ColumnNearest
  <2> QED BY <1>3, <1>4, <1>5, <1>6, <2>1 DEF Degree
<1>7. CASE e # 13
  <2>1. 2 * AbsDeg(Degree * 5 * a - AbsDeg(ClampedAz(az))) <= 5 * Degree
    BY <1>1, <1>7, ColumnNearest
  <2> QED BY <1>3, <1>4, <1>5, <1>7, <2>1
<1> QED BY <1>6, <1>7

LEMMA EarsFollow == FilledInv => NearEarNearFilter
<1> SUFFICES ASSUME FilledInv, NEW i \in Set
             PROVE  (LeftFilter(i) % 2 = 0) <=> asked[i].az >= 0
  BY DEF NearEarNearFilter
<1> QED BY EntryOf, GridOf

LEMMA DelayFollows == FilledInv => FarEarDelayed
<1> SUFFICES ASSUME FilledInv, NEW i \in Set, GridAz(i) # 180 * Degree
             PROVE  /\ Lag(i) = 512 * (Delay(LeftFilter(i)) - Delay(RightFilter(i)))
                    /\ asked[i].az > 0 => Lag(i) >= 0
                    /\ asked[i].az < 0 => Lag(i) <= 0
  BY DEF FarEarDelayed
<1>1. LeftFilter(i) \div 28 = ColumnOf(i)
  BY EntryOf, GridOf
<1>2. ColumnOf(i) # 36
  BY <1>1 DEF GridAz, AzimuthStep, NumElevations, Degree
<1>3. Delay(NearOf(i)) \in 0 .. 31 /\ Delay(NearOf(i) + 1) = 0 /\ asked[i].az \in Int
  BY <1>2, GridOf
<1>4. CASE asked[i].az >= 0
  BY <1>3, <1>4, EntryOf
<1>5. CASE ~(asked[i].az >= 0)
  BY <1>3, <1>5, EntryOf
<1> QED BY <1>4, <1>5

\* Registers with the filters and the sign of the delay exchanged.
LEMMA SwappedRegisters ==
  ASSUME NEW g, NEW h, NEW l \in Int, NEW r \in Int, NEW t \in -31 .. 31,
         NEW u \in -31 .. 31, u = -t, Pairs(g, l, r, t), Pairs(h, r, l, u)
  PROVE  \A k \in 0 .. 15 : g[k] = Swapped(h)[k]
<1>1. ASSUME NEW k \in 0 .. 14 PROVE g[k] = Swapped(h)[k]
  <2>1. k \in 0 .. 15 /\ k < 15
    OBVIOUS
  <2>2. Swapped(h)[k] = <<h[k][2], h[k][1], h[k][4], h[k][3]>>
    BY <2>1 DEF Swapped
  <2>3. h[k] = Four(r, l, k)
    BY DEF Pairs
  <2>4. g[k] = Four(l, r, k)
    BY DEF Pairs
  <2>5. /\ h[k][1] = <<r, 2 * k>> /\ h[k][2] = <<l, 2 * k>>
        /\ h[k][3] = <<r, 2 * k + 1>> /\ h[k][4] = <<l, 2 * k + 1>>
    BY <2>3 DEF Four
  <2> QED BY <2>2, <2>4, <2>5 DEF Four
<1>2. g[15] = Swapped(h)[15]
  <2>1. Swapped(h)[15] = <<h[15][2], h[15][1], (65536 - h[15][3]) % 65536>>
    BY DEF Swapped
  <2>2. h[15] = Three(r, l, u)
    BY DEF Pairs
  <2>3. g[15] = Three(l, r, t)
    BY DEF Pairs
  <2>4. h[15][1] = <<r, 30>> /\ h[15][2] = <<l, 30>> /\ h[15][3] = Lags(u)
    BY <2>2 DEF Three
  <2>5. (65536 - Lags(u)) % 65536 = Lags(t)
    BY DEF Lags
  <2> QED BY <2>1, <2>3, <2>4, <2>5 DEF Three
<1> QED
  <2> TAKE k \in 0 .. 15
  <2>1. k \in 0 .. 14 \/ k = 15
    OBVIOUS
  <2> QED BY <1>1, <1>2, <2>1

LEMMA MirrorFollows == FilledInv => MirrorImages
<1> SUFFICES ASSUME FilledInv, NEW i \in Set, asked[i].az # 0
             PROVE  hrir[i] = Swapped(Filled(-asked[i].az, asked[i].el))
  BY DEF MirrorImages
<1> DEFINE az == asked[i].az
           el == asked[i].el
           n == Near(az, el)
           t == -Delay(n)
           h == Filled(-az, el)
<1>1. az \in Int /\ el \in Int /\ hrir[i] = Filled(az, el) /\ az # 0
  BY DEF FilledInv
<1>2. Near(-az, el) = n
  <2>1. AbsDeg(ClampedAz(-az)) = AbsDeg(ClampedAz(az))
    BY <1>1 DEF AbsDeg, ClampedAz, Clamp, Degree
  <2>2. SnapAz(ClampedAz(-az), ClampedEl(el)) = SnapAz(ClampedAz(az), ClampedEl(el))
    BY <2>1 DEF SnapAz
  <2> QED BY <2>2 DEF Near, Column
<1>3. n \in Int /\ Delay(n) \in 0 .. 31
  BY GridOf DEF NearOf
<1> HIDE DEF az, el, n
<1>4. -az \in Int
  BY <1>1
<1>5. hrir[i] = IF az >= 0 THEN Registers(Taps(n), Taps(n + 1), Delay(n))
                ELSE Registers(Taps(n + 1), Taps(n), t)
  BY <1>1, FilledFrom DEF n
<1>6. h = IF -az >= 0 THEN Registers(Taps(n), Taps(n + 1), Delay(n))
          ELSE Registers(Taps(n + 1), Taps(n), t)
  BY <1>1, <1>2, <1>4, FilledFrom
<1>7. /\ n + 1 \in Int /\ Delay(n) \in -31 .. 31 /\ t \in -31 .. 31
      /\ t = -Delay(n) /\ Delay(n) = -t
  BY <1>3
<1>8. /\ Pairs(Registers(Taps(n), Taps(n + 1), Delay(n)), n, n + 1, Delay(n))
      /\ Pairs(Registers(Taps(n + 1), Taps(n), t), n + 1, n, t)
  BY <1>3, <1>7, RegistersAt
<1> HIDE DEF t, h
<1>9. \A k \in 0 .. 15 : hrir[i][k] = Swapped(h)[k]
  <2>1. CASE az > 0
    <3>1. Pairs(hrir[i], n, n + 1, Delay(n))
      BY <1>1, <1>5, <1>8, <2>1
    <3>2. Pairs(h, n + 1, n, t)
      BY <1>1, <1>6, <1>8, <2>1
    <3> QED BY <1>3, <1>7, <3>1, <3>2, SwappedRegisters, Zenon
  <2>2. CASE az < 0
    <3>1. Pairs(hrir[i], n + 1, n, t)
      BY <1>1, <1>5, <1>8, <2>2
    <3>2. Pairs(h, n, n + 1, Delay(n))
      BY <1>1, <1>6, <1>8, <2>2
    <3> QED BY <1>3, <1>7, <3>1, <3>2, SwappedRegisters, Zenon
  <2> QED BY <1>1, <2>1, <2>2
<1>10. hrir[i] = [k \in 0 .. 15 |-> hrir[i][k]]
  BY <1>1 DEF Filled, Registers
<1>11. Swapped(h) = [k \in 0 .. 15 |-> Swapped(h)[k]]
  BY DEF Swapped
<1>12. hrir[i] = Swapped(h)
  BY <1>9, <1>10, <1>11
<1> QED BY <1>12 DEF h, az, el

-----------------------------------------------------------------------------
LEMMA FilledInvariance == HrtfSpec => []FilledInv
<1> QED BY InitFilled, NextFilled, PTL DEF HrtfSpec

\* For every direction, in quarters of a degree, and every number of entries:
\* an entry holds the pair of filters nearest to the direction it was last
\* given, whole, each filter at its ear, with the delay between them
\* (nxAudioHRTFSetParamsFromAngles, nxAudioHRTFSetParameters).
THEOREM FiltersAreNearest == HrtfSpec => []NearestFilters
<1>1. FilledInv => NearestFilters
  BY TypesFollow, TapsFollow, NearestFollows, EarsFollow, DelayFollows
     DEF NearestFilters
<1> QED BY <1>1, FilledInvariance, PTL

\* A direction and its mirror image give the same registers with the ears
\* exchanged and the delay the other way round (audio_core.c:725-753).
THEOREM SidesAreMirrored == HrtfSpec => []MirrorImages
<1> QED BY MirrorFollows, FilledInvariance, PTL
=============================================================================
