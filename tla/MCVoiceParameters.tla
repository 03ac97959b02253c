------------------------- MODULE MCVoiceParameters -------------------------
(***************************************************************************)
(* Inputs of VoiceParameters for TLC.                                      *)
(***************************************************************************)
EXTENDS VoiceParameters

F(rate, ch, bytes, adpcm, is3d) ==
  [rate |-> rate, channels |-> ch, bytes_per_sample |-> bytes,
   adpcm |-> adpcm, is3d |-> is3d]
\* 48 kHz stereo, 24 kHz 3D ADPCM, 12 kHz 24 bit mono.
Stereo == F(0, 2, 2, FALSE, FALSE)
Moving == F(-4096, 1, 1, TRUE, TRUE)
Mono24 == F(-8192, 1, 3, FALSE, FALSE)

Channels(a, b) == [k \in 0 .. 5 |-> IF k % 2 = 0 THEN a ELSE b]
E1(d, a, h, c, s, r) == [delay |-> d, attack |-> a, hold |-> h, decay |-> c,
                         sustain |-> s, release |-> r]

\* Gains: overdriven, full, faint and none.
Mixer == [formats |-> {Stereo, Moving, Mono24},
          pitches |-> {-24577, 0, 32767}, gains |-> {-1000, 0, 2000, 4095},
          channelGains |-> {Channels(-1000, 2000), Channels(4095, 1)},
          hrtfGains |-> {[front |-> 0, rear |-> 2000],
                         [front |-> 4095, rear |-> -1000]},
          targets |-> {3}, envelopes |-> {}, filters |-> {}]
\* Fields at their smallest and largest, and beyond their width.
Synthesizer ==
  [formats |-> {Stereo}, pitches |-> {0}, gains |-> {0}, channelGains |-> {},
   hrtfGains |-> {}, targets |-> {},
   envelopes |-> {E1(0, 4095, 1, 2, 255, 4095), E1(4095, 0, 4094, 4093, 0, 1),
                  E1(8191, 4096, 5000, 4097, 128, 8191)},
   filters |-> {[mode |-> 3, q |-> 0, fc |-> <<-32768, 32767, -1, 0>>],
                [mode |-> 0, q |-> 15, fc |-> <<1, -1, 32767, -32768>>]}]
TwoApplications == {Mixer, Synthesizer}
=============================================================================
