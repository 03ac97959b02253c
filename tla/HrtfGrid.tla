------------------------------ MODULE HrtfGrid ------------------------------
(***************************************************************************)
(* The table of head related filters (audio_hrtf.h), the choice of a       *)
(* filter pair for a direction and its way into a hardware entry           *)
(* (audio_core.c: nxAudioHRTFSetParamsFromAngles,                          *)
(* nxAudioHRTFSetParameters).                                              *)
(*                                                                         *)
(* Angles are in quarters of a degree.  The table keeps, for azimuths of 0 *)
(* to 180 degrees, a left and a right filter one after the other; a source *)
(* on the left uses them the other way round.  Tap k of filter n is        *)
(* <<n, k>>: which coefficient goes where matters, its value does not.     *)
(* The delays are those of the table.                                      *)
(***************************************************************************)
EXTENDS Integers, Sequences

CONSTANTS
  Entries,      \* indices given to the calls
  Azimuths, Elevations,
  MaxCalls      \* calls of one behaviour

HRTF_ENTRY_COUNT == 128
NumAzimuths      == 37
NumElevations    == 14
AzimuthStep      == 5
ElevationStep    == 10
Degree           == 4

ASSUME AnglesAssumption == Azimuths \subseteq Int /\ Elevations \subseteq Int /\ MaxCalls \in Nat

\* nxaudio_hrtf_index: two filters to a grid point, elevation by elevation.
hrtf_index == [a \in 0 .. NumAzimuths - 1 |->
                 [e \in 0 .. NumElevations - 1 |-> 2 * (NumElevations * a + e)]]

\* The delay, in samples, of the left ear at each grid point ...
LeftDelay == <<
  <<1, 1, 1, 1, 1, 1, 1, 1, 1, 1, 1, 1, 1, 0>>,
  <<2, 3, 3, 3, 3, 3, 3, 3, 2, 2, 2, 1, 1, 0>>,
  <<4, 4, 4, 5, 5, 5, 4, 4, 3, 3, 2, 1, 1, 0>>,
  <<4, 5, 6, 7, 7, 6, 6, 5, 5, 5, 4, 2, 2, 0>>,
  <<6, 7, 8, 8, 8, 8, 8, 7, 6, 6, 4, 3, 3, 0>>,
  <<7, 8, 10, 10, 10, 10, 10, 9, 7, 7, 6, 3, 3, 0>>,
  <<8, 10, 11, 12, 12, 12, 11, 10, 9, 9, 6, 3, 3, 0>>,
  <<10, 12, 13, 14, 14, 14, 13, 12, 10, 10, 7, 4, 4, 0>>,
  <<10, 13, 16, 15, 17, 16, 15, 14, 12, 12, 8, 4, 4, 0>>,
  <<12, 15, 17, 17, 18, 18, 17, 15, 12, 12, 9, 5, 5, 0>>,
  <<12, 16, 19, 19, 20, 19, 19, 17, 14, 14, 9, 5, 5, 0>>,
  <<14, 17, 22, 20, 21, 21, 21, 18, 15, 15, 11, 5, 5, 0>>,
  <<14, 19, 22, 24, 24, 24, 22, 20, 15, 15, 11, 6, 6, 0>>,
  <<15, 20, 24, 24, 26, 25, 24, 21, 17, 17, 11, 6, 6, 0>>,
  <<16, 20, 24, 27, 28, 27, 25, 23, 18, 18, 12, 6, 6, 0>>,
  <<17, 21, 23, 28, 28, 29, 26, 24, 18, 18, 12, 6, 6, 0>>,
  <<17, 23, 26, 27, 30, 30, 28, 25, 18, 18, 13, 6, 6, 0>>,
  <<18, 23, 27, 28, 31, 30, 29, 25, 20, 20, 13, 6, 6, 0>>,
  <<19, 23, 27, 28, 30, 29, 29, 26, 20, 20, 13, 6, 6, 0>>,
  <<20, 23, 26, 27, 29, 27, 28, 26, 20, 20, 13, 6, 6, 0>>,
  <<20, 22, 25, 26, 28, 26, 27, 25, 20, 20, 13, 6, 6, 0>>,
  <<19, 23, 25, 24, 27, 25, 26, 24, 19, 19, 12, 6, 6, 0>>,
  <<19, 22, 25, 23, 24, 25, 24, 23, 18, 18, 12, 6, 6, 0>>,
  <<17, 19, 22, 23, 23, 24, 23, 22, 17, 17, 11, 6, 6, 0>>,
  <<15, 19, 22, 22, 23, 22, 22, 20, 17, 17, 11, 6, 6, 0>>,
  <<16, 18, 18, 21, 20, 21, 20, 19, 15, 15, 11, 5, 5, 0>>,
  <<14, 16, 20, 18, 19, 19, 19, 17, 14, 14, 9, 4, 4, 0>>,
  <<12, 15, 17, 18, 19, 18, 17, 16, 13, 13, 9, 4, 4, 0>>,
  <<12, 14, 15, 15, 16, 16, 15, 14, 12, 12, 7, 4, 4, 0>>,
  <<11, 12, 14, 13, 14, 14, 14, 12, 10, 10, 7, 4, 4, 0>>,
  <<8, 11, 12, 13, 13, 12, 12, 10, 8, 8, 5, 3, 3, 0>>,
  <<7, 9, 10, 11, 11, 10, 10, 9, 8, 8, 5, 2, 2, 0>>,
  <<6, 7, 7, 8, 9, 8, 8, 7, 6, 6, 3, 2, 2, 0>>,
  <<5, 5, 5, 6, 6, 6, 6, 5, 4, 4, 3, 1, 1, 0>>,
  <<3, 3, 3, 4, 4, 4, 4, 3, 2, 2, 1, 0, 0, 0>>,
  <<2, 1, 1, 1, 2, 1, 1, 1, 1, 1, 1, 0, 0, 0>>,
  <<0, 0, 0, 0, 0, 0, 0, 0, 0, 0, 0, 0, 0, 0>> >>
\* ... and of the right ear: only behind the listener, and next to overhead.
RightDelay(a, e) ==
  CASE a = 36 -> <<1, 2, 2, 3, 1, 1, 1, 1, 1, 1, 0, 0, 0, 1>>[e + 1]
    [] a \in 33 .. 35 /\ e = 13 -> 1
    [] OTHER -> 0
\* nxaudio_hrtf_filters[n].delay
Delay(n) == LET a == n \div (2 * NumElevations)
                e == (n \div 2) % NumElevations
            IN IF n % 2 = 0 THEN LeftDelay[a + 1][e + 1] ELSE RightDelay(a, e)

VARIABLES
  hrir,     \* the filter registers of the hardware's entries
  asked,    \* the direction each entry was last given
  calls
hrtfVars == <<hrir, asked, calls>>

Nowhere == [az |-> 1000, el |-> 1000]     \* an entry never set
Valid   == {i \in Entries : i < HRTF_ENTRY_COUNT}

(***************************************************************************)
(* From a direction to a pair of filters.                                  *)
(***************************************************************************)
Truncate(x, d) == IF x >= 0 THEN x \div d ELSE -((-x) \div d)
Clamp(x, lo, hi) == IF x < lo THEN lo ELSE IF x > hi THEN hi ELSE x
ClampedAz(az) == Clamp(az, -180 * Degree, 180 * Degree)
ClampedEl(el) == Clamp(el, -40 * Degree, 90 * Degree)
AbsDeg(x)     == IF x < 0 THEN -x ELSE x

\* (int)(elevation + 5) / 10 * 10, away from zero for negative ones.
SnapElUpward(el) == Truncate(Truncate(el + 5 * Degree, Degree), 10) * 10
SnapEl(el) ==
  IF el >= 0 THEN Truncate(Truncate(el + 5 * Degree, Degree), 10) * 10
  ELSE Truncate(Truncate(el - 5 * Degree, Degree), 10) * 10
\* (int)(|azimuth| + 2.5) / 5 * 5, and 0 overhead.
SnapAz(az, el) ==
  IF SnapEl(el) = 90 THEN 0
  ELSE Truncate(Truncate(AbsDeg(az) + (5 * Degree) \div 2, Degree), 5) * 5

GridIndex(az, el) ==
  LET a == Clamp(SnapAz(az, el) \div AzimuthStep, 0, NumAzimuths - 1)
      e == Clamp((SnapEl(el) + 40) \div ElevationStep, 0, NumElevations - 1)
  IN hrtf_index[a][e]

\* The left and the right ear's filter; a source on the left swaps them.
Pair(az, el) ==
  LET n == GridIndex(az, el)
  IN IF az >= 0 THEN [left |-> n, right |-> n + 1]
     ELSE [left |-> n + 1, right |-> n]

Taps(n) == [k \in 0 .. 30 |-> <<n, k>>]
ItdLeft(az, pair) == Delay(pair.left)
\* Only the delay of the table's even filter counts.
Itd(az, pair) == IF az >= 0 THEN Delay(pair.left) ELSE -Delay(pair.right)

\* The sixteen registers: four taps each, the last with the delay in
\* 1/512 samples, 16 bits.
Registers(l, r, itd) ==
  [i \in 0 .. 15 |->
     IF i < 15 THEN <<l[2 * i], r[2 * i], l[2 * i + 1], r[2 * i + 1]>>
     ELSE <<l[30], r[30], (itd * 512) % 65536>>]

HrtfInit ==
  /\ hrir = [i \in Valid |-> <<>>]
  /\ asked = [i \in Valid |-> Nowhere]
  /\ calls = 0

\* What a direction puts into the registers of an entry.
Filled(az, el) ==
  LET a == ClampedAz(az)
      p == Pair(a, ClampedEl(el))
  IN Registers(Taps(p.left), Taps(p.right), Itd(a, p))

\* nxAudioHRTFSetParameters, with the parameters the angles give.
SetParameters(i, az, el) ==
  IF i \in Valid
    THEN /\ hrir' = [hrir EXCEPT ![i] = Filled(az, el)]
         /\ asked' = [asked EXCEPT ![i] = [az |-> az, el |-> el]]
    ELSE UNCHANGED <<hrir, asked>>
HRTFSetParamsFromAngles(i, az, el) ==
  /\ calls < MaxCalls /\ calls' = calls + 1
  /\ SetParameters(i, az, el)

HrtfNext == \E i \in Entries, az \in Azimuths, el \in Elevations :
          HRTFSetParamsFromAngles(i, az, el)
HrtfSpec == HrtfInit /\ [][HrtfNext]_hrtfVars

-----------------------------------------------------------------------------
(* What the voice processor reads from an entry.                           *)
Set      == {i \in Valid : asked[i] # Nowhere}
LeftTap(i, k)  == IF k = 30 THEN hrir[i][15][1] ELSE hrir[i][k \div 2][IF k % 2 = 0 THEN 1 ELSE 3]
RightTap(i, k) == IF k = 30 THEN hrir[i][15][2] ELSE hrir[i][k \div 2][IF k % 2 = 0 THEN 2 ELSE 4]
LeftFilter(i)  == LeftTap(i, 0)[1]
RightFilter(i) == RightTap(i, 0)[1]
\* 512ths of a sample by which the left ear is later.
Lag(i) == LET x == hrir[i][15][3] IN IF x >= 32768 THEN x - 65536 ELSE x
\* The grid point the filters of an entry were measured at, in quarters.
GridAz(i) == Degree * AzimuthStep * (LeftFilter(i) \div (2 * NumElevations))
GridEl(i) == Degree * (ElevationStep * ((LeftFilter(i) \div 2) % NumElevations) - 40)
Overhead(i) == asked[i].el >= 85 * Degree

\* Entries are registers of a pair or have never been set.
HrtfTypeOK ==
  /\ \A i \in Set : DOMAIN hrir[i] = 0 .. 15 /\ -32768 <= Lag(i) /\ Lag(i) < 32768
  /\ calls \in 0 .. MaxCalls

\* Both ears get whole filters, all 31 taps in order, of one and the same
\* grid point, the other ear's filter of the pair.
TapsInPlace ==
  \A i \in Set :
    /\ \A k \in 0 .. 30 : LeftTap(i, k) = <<LeftFilter(i), k>>
                          /\ RightTap(i, k) = <<RightFilter(i), k>>
    /\ LeftFilter(i) \div 2 = RightFilter(i) \div 2
    /\ LeftFilter(i) # RightFilter(i)

\* No grid point lies nearer to the direction than the one chosen, below the
\* horizon too and at both ends of the range.
NearestDirection ==
  \A i \in Set :
    /\ AbsDeg(GridEl(i) - ClampedEl(asked[i].el)) <= 5 * Degree
    /\ IF Overhead(i) THEN GridAz(i) = 0
       ELSE 2 * AbsDeg(GridAz(i) - AbsDeg(ClampedAz(asked[i].az))) <= 5 * Degree

\* The pairs are measured with the source on the right: the ears are
\* exchanged for every source on the left and for no other.
NearEarNearFilter ==
  \A i \in Set : (LeftFilter(i) % 2 = 0) <=> asked[i].az >= 0

\* Except behind the listener, the ears differ by the difference of their
\* delays, in the right sense, and the ear away from the source is the later.
FarEarDelayed ==
  \A i \in Set : GridAz(i) # 180 * Degree =>
    /\ Lag(i) = 512 * (Delay(LeftFilter(i)) - Delay(RightFilter(i)))
    /\ asked[i].az > 0 => Lag(i) >= 0
    /\ asked[i].az < 0 => Lag(i) <= 0

\* A source and its mirror image have the ears exchanged, tap by tap, and the
\* delay the other way round (audio_core.c:725-753).
Swapped(regs) ==
  [n \in 0 .. 15 |->
     IF n < 15 THEN <<regs[n][2], regs[n][1], regs[n][4], regs[n][3]>>
     ELSE <<regs[15][2], regs[15][1], (65536 - regs[15][3]) % 65536>>]
MirrorImages ==
  \A i \in Set : asked[i].az # 0 =>
    hrir[i] = Swapped(Filled(-asked[i].az, asked[i].el))

\* An entry is the pair of filters nearest to the direction asked for, whole,
\* each at its ear, with the delay between them.
NearestFilters ==
  /\ HrtfTypeOK
  /\ TapsInPlace /\ NearestDirection
  /\ NearEarNearFilter /\ FarEarDelayed
=============================================================================
