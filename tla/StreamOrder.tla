---------------------------- MODULE StreamOrder ----------------------------
(***************************************************************************)
(* One streaming voice from end to end: the example example/stream_test.c, *)
(* nxAudioBufferQueue (audio_buffer.c), apu_dpc (audio_core.c) and the     *)
(* voice processor (VP), which plays SSL A and SSL B in turn (the "dual    *)
(* buffer ping pong" of audio_voice.c:566).                                *)
(*                                                                         *)
(* The two sides look alike to the driver, which fills the lowest one that *)
(* is free; which one is played next is known to the device alone.  What a *)
(* VP that has nothing left to play does is not in this repository: it may *)
(* keep to its turn or go on with the first side it is given: a constant.  *)
(* Whether the decrement of a volatile counter is one instruction is the   *)
(* compiler's choice: a variable that Init chooses and no step changes.    *)
(***************************************************************************)
EXTENDS Naturals, Sequences, FiniteSets

CONSTANTS
  Chunks,         \* chunks in the wave file
  KeepsTurn,      \* an idle VP waits for the side whose turn it is
  NoBuffer        \* NULL

ASSUME StreamAssumption ==
  /\ Chunks \in Nat \ {0}
  /\ KeepsTurn \in BOOLEAN
  /\ NoBuffer \notin {0, 1}

Sides == {0, 1}
Buffers == {0, 1}               \* NUM_BUFFERS of them

VARIABLES
  atomic,         \* buffers_completed-- is one instruction in this build
  slots,          \* voice->buffers_hardware
  loaded,         \* the buffer each SSL describes, until the VP has played it
  done,           \* status DONE_SUCCESS of the notifier of each side
  turn,           \* the side the VP plays, or waits for
  dpcQueued,      \* KeInsertQueueDpc
  dpcSide,        \* the side apu_dpc looks at next; 2: it is not running
  completed,      \* ctx.buffers_completed
  nextFill,       \* ctx.next_buffer_to_fill
  data,           \* the chunk each buffer holds
  pos,            \* ctx.pcm_pos, in chunks
  appPc,          \* what main does next
  seen            \* buffers_completed as main has read it

deviceVars == <<loaded, done, turn>>
appVars    == <<nextFill, data, pos, appPc, seen>>
moving == <<slots, deviceVars, dpcQueued, dpcSide, completed, appVars>>
vars == <<atomic, moving>>

TypeOK ==
  /\ atomic \in BOOLEAN
  /\ slots \in [Sides -> Buffers \cup {NoBuffer}]
  /\ loaded \in [Sides -> Buffers \cup {NoBuffer}]
  /\ done \in [Sides -> BOOLEAN]
  /\ turn \in Sides
  /\ dpcQueued \in BOOLEAN
  /\ dpcSide \in 0 .. 2
  /\ completed \in 0 .. 2
  /\ nextFill \in Buffers
  /\ data \in [Buffers -> 0 .. Chunks - 1]
  /\ pos \in 0 .. Chunks - 1
  /\ appPc \in {"poll", "store", "fill", "queue", "sleep"}
  /\ seen \in 0 .. 2

\* Every buffer filled and queued in a slot of its own, the voice started.
Init ==
  /\ atomic \in BOOLEAN
  /\ slots = [j \in Sides |-> j]
  /\ loaded = slots
  /\ done = [j \in Sides |-> FALSE]
  /\ turn = 0
  /\ dpcQueued = FALSE
  /\ dpcSide = 2
  /\ completed = 0
  /\ nextFill = 0
  /\ data = [b \in Buffers |-> b % Chunks]
  /\ pos = 2 % Chunks
  /\ appPc = "poll"
  /\ seen = 0

(***************************************************************************)
(* The application.  apu_dpc preempts it, so it takes no step while        *)
(* apu_dpc runs.                                                           *)
(***************************************************************************)
AppRunsAt(pc) == appPc = pc /\ dpcSide = 2

\* The check and the decrement of the while loop; voice_callback increments
\* the same count.
TakeCompletion ==
  \/ /\ AppRunsAt("poll") /\ completed > 0
     /\ IF atomic
          THEN completed' = completed - 1 /\ appPc' = "fill" /\ seen' = 0
          ELSE seen' = completed /\ appPc' = "store" /\ UNCHANGED completed
     /\ UNCHANGED <<slots, deviceVars, dpcQueued, dpcSide, nextFill, data, pos>>
  \/ /\ AppRunsAt("store")
     /\ completed' = seen - 1
     /\ seen' = 0
     /\ appPc' = "fill"
     /\ UNCHANGED <<slots, deviceVars, dpcQueued, dpcSide, nextFill, data, pos>>

\* The rest of the loop: the events, and Sleep(16).
PollEvents ==
  /\ \/ AppRunsAt("poll") /\ completed = 0 /\ appPc' = "sleep"
     \/ AppRunsAt("sleep") /\ appPc' = "poll"
  /\ UNCHANGED <<slots, deviceVars, dpcQueued, dpcSide, completed, nextFill,
                 data, pos, seen>>

AtTheEnd == IF pos + 1 < Chunks THEN pos + 1 ELSE pos
LoopBack == (pos + 1) % Chunks

\* fill_wav_chunk and nxAudioBufferInitialize.
FillChunk ==
  /\ AppRunsAt("fill")
  /\ data' = [data EXCEPT ![nextFill] = pos]
  /\ pos' = LoopBack
  /\ appPc' = "queue"
  /\ UNCHANGED <<slots, deviceVars, dpcQueued, dpcSide, completed, nextFill,
                 seen>>

FreeSides == {j \in Sides : slots[j] = NoBuffer}
\* The first free one of the two, from the bottom.
Chosen(free) == CHOOSE j \in free : \A k \in free : j <= k

Silent == \A j \in Sides : loaded[j] = NoBuffer
LoadKeepsNotifier(j, b) ==
  /\ loaded' = [loaded EXCEPT ![j] = b]
  /\ turn' = IF Silent /\ ~KeepsTurn THEN j ELSE turn
  /\ UNCHANGED done
\* insert_buffer_to_ssl: the notifier is reset, then the SSL command written.
Load(j, b) ==
  /\ done' = [done EXCEPT ![j] = FALSE]
  /\ loaded' = [loaded EXCEPT ![j] = b]
  /\ turn' = IF Silent /\ ~KeepsTurn THEN j ELSE turn

NextBufferStuck(b) == b
NextBuffer(b) == (b + 1) % 2

\* nxAudioBufferQueue, at DISPATCH_LEVEL; main ignores NX_AUDIO_ERR_QUEUE_FULL
\* and goes on to the next buffer all the same.
BufferQueue ==
  /\ AppRunsAt("queue")
  /\ IF FreeSides # {}
       THEN LET j == Chosen(FreeSides)
            IN /\ Load(j, nextFill)
               /\ slots' = [slots EXCEPT ![j] = nextFill]
       ELSE UNCHANGED <<slots, deviceVars>>
  /\ nextFill' = NextBuffer(nextFill)
  /\ appPc' = "poll"
  /\ UNCHANGED <<dpcQueued, dpcSide, completed, data, pos, seen>>

(***************************************************************************)
(* apu_dpc: SSL A's notifier, then SSL B's.  It does not reset a notifier; *)
(* a side it has emptied is skipped for want of a buffer.                  *)
(***************************************************************************)
DpcStart ==
  /\ dpcQueued /\ dpcSide = 2
  /\ dpcQueued' = FALSE
  /\ dpcSide' = 0
  /\ UNCHANGED <<slots, deviceVars, completed, appVars>>
Finished(j) == done[j] /\ slots[j] # NoBuffer
DpcSideTwice ==
  /\ dpcSide < 2
  /\ IF done[dpcSide]
       THEN /\ slots' = [slots EXCEPT ![dpcSide] = NoBuffer]
            /\ completed' = completed + 1
       ELSE UNCHANGED <<slots, completed>>
  /\ dpcSide' = dpcSide + 1
  /\ UNCHANGED <<deviceVars, dpcQueued, appVars>>
DpcSide ==
  /\ dpcSide < 2
  /\ IF Finished(dpcSide)
       THEN /\ slots' = [slots EXCEPT ![dpcSide] = NoBuffer]
            /\ completed' = completed + 1          \* voice_callback
       ELSE UNCHANGED <<slots, completed>>
  /\ dpcSide' = dpcSide + 1
  /\ UNCHANGED <<deviceVars, dpcQueued, appVars>>

(***************************************************************************)
(* The VP.  It plays the SSL whose turn it is to the end, sets the         *)
(* notifier, raises FEVINTSTS, at which apu_isr queues apu_dpc, and goes   *)
(* over to the other SSL; there it stops if there is nothing to play.      *)
(***************************************************************************)
SslEnds ==
  /\ loaded[turn] # NoBuffer
  /\ loaded' = [loaded EXCEPT ![turn] = NoBuffer]
  /\ done' = [done EXCEPT ![turn] = TRUE]
  /\ turn' = 1 - turn
  /\ dpcQueued' = TRUE
  /\ UNCHANGED <<slots, dpcSide, completed, appVars>>

Next == /\ \/ TakeCompletion \/ PollEvents \/ FillChunk \/ BufferQueue
           \/ DpcStart \/ DpcSide
           \/ SslEnds
        /\ UNCHANGED atomic
Spec == Init /\ [][Next]_vars

\* main polls for ever, a queued apu_dpc is run, a loaded SSL comes to its
\* end.
Fairness == /\ WF_moving(TakeCompletion \/ PollEvents)
            /\ WF_moving(FillChunk) /\ WF_moving(BufferQueue)
            /\ WF_moving(DpcStart) /\ WF_moving(DpcSide)
            /\ WF_moving(SslEnds)
FairSpec == Spec /\ Fairness

(***************************************************************************)
(* Properties                                                              *)
(***************************************************************************)
\* The application never writes into a buffer an SSL still describes: the
\* count it works through never runs ahead of the sides apu_dpc has seen
\* finished, and the buffers come free in the order main fills them
\* (example/stream_test.c:155-161 against audio_core.c:289-304).
NoOverwritePlaying ==
  appPc = "fill" => nextFill \notin {loaded[j] : j \in Sides}

\* The answer of nxAudioBufferQueue the application ignores is never a
\* refusal: for each count taken there is a free side (audio_buffer.c:281).
NeverFull == appPc \in {"fill", "queue"} => FreeSides # {}

\* No completion is lost where the decrement is one instruction: the count,
\* and the one main is using, are exactly the sides without a buffer
\* (audio_core.c:302, stream_test.c:63 and :156).
EveryFreeSideCounted ==
  atomic => Cardinality(FreeSides) =
              completed + (IF appPc \in {"fill", "queue"} THEN 1 ELSE 0)

\* There, the file is heard over and over, each chunk of it: completions and
\* refills keep each other going, though both sides may run dry in between
\* (nxaudio.h:206-215 and "Loop back", example/stream_test.c:73).
Heard(j) == IF loaded[j] = NoBuffer THEN <<>> ELSE <<data[loaded[j]]>>
KeepsPlaying ==
  atomic => \A c \in 0 .. Chunks - 1 : []<>(Heard(turn) = <<c>>)

\* The chunks are heard in the order of the file, as buffers that wait in
\* the "playback queue" of nxaudio.h:206: the voice implements PlayQueue,
\* whose head is the side whose turn it is.
Queue == INSTANCE PlayQueue WITH
  Places <- 2,
  queue <- Heard(turn) \o Heard(1 - turn),
  next <- IF appPc = "queue" THEN data[nextFill] ELSE pos
PlaysInOrder == Queue!Spec
=============================================================================
