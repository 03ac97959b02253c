---------------------------- MODULE VoiceControl ----------------------------
(***************************************************************************)
(* The life of a voice in the nxdk-audio driver: the calls of the one      *)
(* application thread (audio_voice.c, audio_buffer.c), the interrupt       *)
(* routine apu_isr and the deferred procedure apu_dpc (audio_core.c), and  *)
(* the part of the MCPX voice processor (VP) they drive.                   *)
(*                                                                         *)
(* Three levels of execution share the state of a voice.  The application  *)
(* runs at PASSIVE_LEVEL and raises itself to DISPATCH_LEVEL inside some   *)
(* calls; apu_dpc runs at DISPATCH_LEVEL and is never entered while the    *)
(* application is raised; apu_isr runs at device level, preempts both and  *)
(* is one step.  A call that tests the state of the voice before it        *)
(* raises is two steps or more, because apu_dpc may run in between.        *)
(***************************************************************************)
EXTENDS Integers, Sequences, FiniteSets

CONSTANTS
  Voices,         \* nxAudioVoice objects of the application
  NoVoice,        \* the NULL entry of g_tracked_voices
  Buffers,        \* nxAudioBuffer objects of the application
  NoBuffer,       \* the NULL entry of buffers_hardware
  Tiny,           \* buffers that hold less than one sample block
  NumHw,          \* MCPX_HW_MAX_VOICES
  Max3D,          \* MCPX_HW_MAX_3D_VOICES
  IdleQueueSize,  \* IDLE_VOICE_QUEUE_SIZE
  StreamVoices,   \* voices the application gives buffers with BufferQueue
  StaticVoices,   \* voices the application gives buffers with BufferSubmit
  Calls,          \* the entry points this application uses (see AppCall)
  MaxLocks,       \* bound: page locks one buffer may hold
  SlowHardware    \* TRUE: the VP may take longer than Destroy waits

ASSUME VoicesAssumption ==
  /\ NoVoice \notin Voices
  /\ NoBuffer \notin Buffers
  /\ Tiny \subseteq Buffers
  /\ StreamVoices \subseteq Voices
  /\ StaticVoices \subseteq Voices
ASSUME SizesAssumption ==
  /\ NumHw \in Nat /\ Max3D \in 0..NumHw
  /\ IdleQueueSize \in Nat /\ IdleQueueSize >= NumHw
  /\ MaxLocks \in Nat /\ SlowHardware \in BOOLEAN

HwVoices == 0 .. NumHw - 1
Sides    == {0, 1}              \* SSL A and SSL B; buffers_hardware[0..1]
NoHw     == -1

VARIABLES
  \* fields of nxAudioVoice, and which objects hold a created voice
  live, state, index, streaming, persist, buffers, sge,
  \* g_tracked_voices, g_voice_allocation_mask (set bits), page locks
  tracked, free, locks,
  \* g_idle_voice_free_list (its length) and g_idle_voice_active_list
  idleFree, idleActive,
  \* the device: notifiers, CFG_FMT, processing lists, envelope phase, pause
  \* bit, loaded SSLs, pending front-end trap, pending FEV interrupt
  done, hwFmt, onList, phase, paused, ssl, trap, fev,
  \* the application thread
  appPc, appVoice, destroying,
  \* the deferred procedure
  dpcQueued, dpcPc, scan, dpcVoice, inHand,
  \* locals of the one nxAudioBufferQueue body that may be running
  queueing

voiceVars  == <<live, state, index, streaming, persist, buffers, sge>>
driverVars == <<tracked, free, locks>>
idleVars   == <<idleFree, idleActive>>
deviceVars == <<done, hwFmt, onList, phase, paused, ssl, trap, fev>>
appVars    == <<appPc, appVoice, destroying>>
dpcVars    == <<dpcQueued, dpcPc, scan, dpcVoice, inHand>>
vars == <<voiceVars, driverVars, idleVars, deviceVars, appVars, dpcVars,
          queueing>>

States   == {"STOPPED", "PLAYING", "STOPPING", "PAUSED"}
Fmts     == [persist : BOOLEAN, stream : BOOLEAN]
NotQueueing == [voice |-> NoVoice, buffer |-> NoBuffer, side |-> 0]
PassivePcs == {"idle", "start_test", "unpause_set", "unpause", "start",
               "release", "stop", "pause", "wait", "slot0", "slot1", "free"}
RaisedPcs  == {"start_on", "release_cmd", "stop_cmd", "pause_cmd",
               "queue_ssl", "queue_slot"}
DpcPcs   == {"off", "scan", "callback", "queue_ssl", "queue_slot", "drain",
             "retire"}

VoiceTypes ==
  /\ live \subseteq Voices
  /\ state \in [Voices -> States]
  /\ index \in [Voices -> HwVoices \cup {NoHw}]
  /\ streaming \in [Voices -> BOOLEAN]
  /\ persist \in [Voices -> BOOLEAN]
  /\ buffers \in [Voices -> [Sides -> Buffers \cup {NoBuffer}]]
  /\ sge \in [Voices -> BOOLEAN]
DriverTypes ==
  /\ tracked \in [HwVoices -> Voices \cup {NoVoice}]
  /\ free \subseteq HwVoices
  /\ locks \in [Buffers -> Nat]
  /\ idleFree \in Nat
  /\ idleActive \in Seq(HwVoices)
DeviceTypes ==
  /\ done \in [HwVoices -> [Sides -> BOOLEAN]]
  /\ hwFmt \in [HwVoices -> Fmts]
  /\ onList \subseteq HwVoices
  /\ phase \in [HwVoices -> {"off", "on", "release"}]
  /\ paused \subseteq HwVoices
  /\ ssl \in [HwVoices -> SUBSET Sides]
  /\ trap \in HwVoices \cup {NoHw}
  /\ fev \in BOOLEAN
ThreadTypes ==
  /\ appPc \in PassivePcs \cup RaisedPcs
  /\ appVoice \in Voices \cup {NoVoice}
  /\ destroying \in BOOLEAN
  /\ dpcQueued \in BOOLEAN
  /\ dpcPc \in DpcPcs
  /\ scan \subseteq HwVoices \X Sides
  /\ dpcVoice \in Voices \cup {NoVoice}
  /\ inHand \in HwVoices \cup {NoHw}
  /\ queueing \in [voice : Voices \cup {NoVoice},
                   buffer : Buffers \cup {NoBuffer}, side : Sides]
TypeOK == VoiceTypes /\ DriverTypes /\ DeviceTypes /\ ThreadTypes

\* The driver just after nxAudioInit has succeeded.
Init ==
  /\ live = {}
  /\ state = [v \in Voices |-> "STOPPED"]
  /\ index = [v \in Voices |-> NoHw]
  /\ streaming = [v \in Voices |-> FALSE]
  /\ persist = [v \in Voices |-> FALSE]
  /\ buffers = [v \in Voices |-> [j \in Sides |-> NoBuffer]]
  /\ sge = [v \in Voices |-> FALSE]
  /\ tracked = [i \in HwVoices |-> NoVoice]
  /\ free = HwVoices
  /\ locks = [b \in Buffers |-> 0]
  /\ idleFree = IdleQueueSize
  /\ idleActive = <<>>
  /\ done = [i \in HwVoices |-> [j \in Sides |-> FALSE]]
  /\ hwFmt = [i \in HwVoices |-> [persist |-> FALSE, stream |-> FALSE]]
  /\ onList = {}
  /\ phase = [i \in HwVoices |-> "off"]
  /\ paused = {}
  /\ ssl = [i \in HwVoices |-> {}]
  /\ trap = NoHw
  /\ fev = FALSE
  /\ appPc = "idle" /\ appVoice = NoVoice /\ destroying = FALSE
  /\ dpcQueued = FALSE /\ dpcPc = "off" /\ scan = {}
  /\ dpcVoice = NoVoice /\ inHand = NoHw
  /\ queueing = NotQueueing

-----------------------------------------------------------------------------
(* Helpers shared by the calls *)

\* The CFG_FMT value the driver writes for v (the two bits that matter here).
CfgFmt(v) == [persist |-> persist[v], stream |-> streaming[v]]

\* Faulty voice_allocate: a bit that is already taken is found again.
AllocatableTaken(i, is3d) ==
  LET class == {k \in HwVoices : is3d <=> k < Max3D}
  IN  i \in class /\ \A k \in class : i <= k
\* voice_allocate: the lowest free index of the class, none if there is none.
ClassOf(is3d) == {i \in HwVoices : is3d <=> i < Max3D}
Allocatable(i, is3d) ==
  /\ i \in free \cap ClassOf(is3d)
  /\ \A k \in free \cap ClassOf(is3d) : i <= k

\* Faulty: a release that unlocks nothing.
KeepLocked(L, b)  == L
\* MmLockUnlockBufferPages; unlocking pages nobody holds leaves them unlocked.
Lock(L, b)   == [L EXCEPT ![b] = @ + 1]
Unlock(L, b) == [L EXCEPT ![b] = IF @ > 0 THEN @ - 1 ELSE 0]
UnlockIf(L, b) == IF b = NoBuffer THEN L ELSE Unlock(L, b)

\* The lowest slot that holds no buffer.
FreeSide(v, j) ==
  /\ buffers[v][j] = NoBuffer
  /\ \A k \in Sides : k < j => buffers[v][k] # NoBuffer

\* The VP consumes no PIO command while the front end is trapped: a command
\* written meanwhile waits in the FIFO, so it takes effect after apu_isr.
FrontEndReady == trap = NoHw

\* The VP turns a voice off, and may set a notifier of it and raise FEV.
GoesOff(i) ==
  /\ phase' = [phase EXCEPT ![i] = "off"]
  /\ \/ UNCHANGED <<done, fev>>
     \/ /\ phase[i] # "off"
        /\ \E j \in Sides : done' = [done EXCEPT ![i][j] = TRUE]
        /\ fev' = TRUE

\* A DPC queued at PASSIVE_LEVEL is delivered at once, and it runs to its end
\* before the thread it interrupted does.
AppRunsAt(pc) ==
  /\ appPc = pc
  /\ dpcPc = "off"
  /\ dpcQueued => pc \in RaisedPcs
AppGoto(pc) == appPc' = pc /\ UNCHANGED <<appVoice, destroying>>
AppEnter(pc, v) == appPc' = pc /\ appVoice' = v /\ UNCHANGED destroying
\* nxAudioVoiceDestroy calls nxAudioVoiceStop first, then waits.
AppReturn ==
  /\ appPc' = IF destroying THEN "wait" ELSE "idle"
  /\ appVoice' = IF destroying THEN appVoice ELSE NoVoice
  /\ UNCHANGED destroying

-----------------------------------------------------------------------------
(* nxAudioVoiceCreate and nxAudioVoiceSetFormat *)

VoiceCreate(v, is3d) ==
  /\ AppRunsAt("idle") /\ FrontEndReady
  /\ v \notin live
  /\ \E i \in HwVoices :
       /\ Allocatable(i, is3d)
       /\ free' = free \ {i}
       /\ index' = [index EXCEPT ![v] = i]
       /\ hwFmt' = [hwFmt EXCEPT ![i] = [persist |-> FALSE, stream |-> FALSE]]
  /\ live' = live \cup {v}
  /\ state' = [state EXCEPT ![v] = "STOPPED"]
  /\ streaming' = [streaming EXCEPT ![v] = FALSE]
  /\ persist' = [persist EXCEPT ![v] = FALSE]
  /\ buffers' = [buffers EXCEPT ![v] = [j \in Sides |-> NoBuffer]]
  /\ sge' = [sge EXCEPT ![v] = FALSE]
  /\ UNCHANGED <<tracked, locks, idleVars, done, onList, phase, paused, ssl,
                 trap, fev, appVars, dpcVars, queueing>>

\* SetFormat on a stopped voice.  If the new type is of the other class it
\* takes an index there, gives the old one back and flushes its registers.
VoiceSetFormat(v, is3d) ==
  /\ AppRunsAt("idle") /\ FrontEndReady
  /\ v \in live /\ state[v] = "STOPPED"
  /\ \E i \in HwVoices :
       /\ IF index[v] \in ClassOf(is3d) THEN i = index[v]
                                        ELSE Allocatable(i, is3d)
       /\ free' = (free \cup {index[v]}) \ {i}
       /\ index' = [index EXCEPT ![v] = i]
       /\ hwFmt' = [hwFmt EXCEPT ![i] = CfgFmt(v)]
  /\ UNCHANGED <<live, state, streaming, persist, buffers, sge, tracked, locks,
                 idleVars, done, onList, phase, paused, ssl, trap, fev,
                 appVars, dpcVars, queueing>>

-----------------------------------------------------------------------------
(* nxAudioBufferQueue: one body, run by the application or by a callback   *)
(* inside apu_dpc, always at DISPATCH_LEVEL.  QueueBegin takes it to the   *)
(* point where the notifier is re-armed, QueueSsl gives the SSL to the VP, *)
(* QueueSlot records the buffer.                                           *)

QueueAllowed(v) == streaming[v] \/ state[v] \notin {"PLAYING", "PAUSED"}

\* Faulty: the notifier of the other slot is re-armed.
RearmedOther(i, j) == [done EXCEPT ![i][1 - j] = FALSE]
\* The notifier of the slot is in progress again, before the SSL is given.
Rearmed(i, j) == [done EXCEPT ![i][j] = FALSE]

QueueBegin(v, b) ==
  /\ FrontEndReady
  /\ streaming' = [streaming EXCEPT ![v] = TRUE]
  /\ hwFmt' = [hwFmt EXCEPT ![index[v]] = [persist |-> persist[v],
                                           stream |-> TRUE]]
  /\ \E j \in Sides :
       /\ FreeSide(v, j)
       /\ queueing' = [voice |-> v, buffer |-> b, side |-> j]
       /\ done' = Rearmed(index[v], j)
  /\ locks[b] < MaxLocks
  /\ locks' = Lock(locks, b)
  /\ UNCHANGED <<live, state, index, persist, buffers, sge, tracked, free,
                 idleVars, onList, phase, paused, ssl, trap, fev>>

\* No free slot, or more than 16 SSL entries needed: nothing stays locked.
QueueReject(v) ==
  /\ FrontEndReady
  /\ streaming' = [streaming EXCEPT ![v] = TRUE]
  /\ hwFmt' = [hwFmt EXCEPT ![index[v]] = [persist |-> persist[v],
                                           stream |-> TRUE]]
  /\ UNCHANGED <<live, state, index, persist, buffers, sge, driverVars,
                 idleVars, done, onList, phase, paused, ssl, trap, fev,
                 queueing>>

QueueSsl ==
  /\ FrontEndReady
  /\ ssl' = [ssl EXCEPT ![index[queueing.voice]] = @ \cup {queueing.side}]
  /\ UNCHANGED <<voiceVars, driverVars, idleVars, done, hwFmt, onList, phase,
                 paused, trap, fev, queueing>>

QueueSlot ==
  /\ buffers' = [buffers EXCEPT ![queueing.voice][queueing.side]
                                  = queueing.buffer]
  /\ queueing' = NotQueueing
  /\ UNCHANGED <<live, state, index, streaming, persist, sge, driverVars,
                 idleVars, deviceVars>>

BufferQueue(v, b) ==
  /\ AppRunsAt("idle")
  /\ v \in live \cap StreamVoices /\ QueueAllowed(v)
  /\ \/ QueueBegin(v, b) /\ AppGoto("queue_ssl")
     \/ QueueReject(v) /\ UNCHANGED appVars
  /\ UNCHANGED dpcVars
BufferQueueSsl ==
  AppRunsAt("queue_ssl") /\ QueueSsl /\ AppGoto("queue_slot")
                         /\ UNCHANGED dpcVars
BufferQueueSlot ==
  AppRunsAt("queue_slot") /\ QueueSlot /\ AppGoto("idle") /\ UNCHANGED dpcVars

-----------------------------------------------------------------------------
(* nxAudioBufferSubmit, all of it at PASSIVE_LEVEL.  The voice is stopped, *)
(* so neither apu_isr nor apu_dpc looks at it: one step.                   *)

SubmitBuffers(v, b) ==
  [j \in Sides |-> IF j = 0 THEN b ELSE IF sge[v] THEN NoBuffer
                                        ELSE buffers[v][j]]
ReleasedBySubmit(v) ==
  IF sge[v] THEN UnlockIf(UnlockIf(locks, buffers[v][0]), buffers[v][1])
            ELSE locks

BufferSubmit(v, b) ==
  /\ AppRunsAt("idle") /\ FrontEndReady
  /\ v \in live \cap StaticVoices /\ state[v] = "STOPPED"
  /\ locks[b] < MaxLocks
  /\ streaming' = [streaming EXCEPT ![v] = FALSE]
  /\ hwFmt' = [hwFmt EXCEPT ![index[v]] = [persist |-> persist[v],
                                           stream |-> FALSE]]
  /\ \/ /\ b \notin Tiny
        /\ sge' = [sge EXCEPT ![v] = TRUE]
        /\ buffers' = [buffers EXCEPT ![v] = SubmitBuffers(v, b)]
        /\ locks' = Lock(ReleasedBySubmit(v), b)
     \/ \* no sample block to play, or no scatter-gather entries left
        /\ sge' = [sge EXCEPT ![v] = FALSE]
        /\ buffers' = [buffers EXCEPT ![v] =
                         IF sge[v] THEN [j \in Sides |-> NoBuffer] ELSE @]
        /\ locks' = IF b \in Tiny THEN Lock(ReleasedBySubmit(v), b)
                                  ELSE ReleasedBySubmit(v)
  /\ UNCHANGED <<live, state, index, persist, tracked, free, idleVars, done,
                 onList, phase, paused, ssl, trap, fev, appVars, dpcVars,
                 queueing>>

-----------------------------------------------------------------------------
(* nxAudioVoiceStart: a paused voice is resumed, a stopped one is set up.  *)

HasBuffer(v) == \E j \in Sides : buffers[v][j] # NoBuffer

VoiceStart(v) ==
  /\ AppRunsAt("idle")
  /\ v \in live /\ HasBuffer(v)
  /\ AppEnter("start_test", v)
  /\ UNCHANGED <<voiceVars, driverVars, idleVars, deviceVars, dpcVars,
                 queueing>>

\* Faulty: a voice that is still stopping is set up again.
StartWhileStopping ==
  /\ AppRunsAt("start_test")
  /\ \/ state[appVoice] = "PAUSED" /\ AppGoto("unpause_set")
     \/ state[appVoice] \in {"STOPPED", "STOPPING"} /\ AppGoto("start")
     \/ state[appVoice] = "PLAYING" /\ AppReturn
  /\ UNCHANGED <<voiceVars, driverVars, idleVars, deviceVars, dpcVars,
                 queueing>>
\* The tests of the state: since that of the slots apu_dpc may have emptied
\* them, and retired the voice.
VoiceStartTest ==
  /\ AppRunsAt("start_test")
  /\ \/ state[appVoice] = "PAUSED" /\ AppGoto("unpause_set")
     \/ state[appVoice] = "STOPPED" /\ AppGoto("start")
     \/ state[appVoice] \in {"PLAYING", "STOPPING"} /\ AppReturn
  /\ UNCHANGED <<voiceVars, driverVars, idleVars, deviceVars, dpcVars,
                 queueing>>

\* The resuming branch writes the state before it raises.
VoiceUnpauseSet ==
  /\ AppRunsAt("unpause_set")
  /\ state' = [state EXCEPT ![appVoice] = "PLAYING"]
  /\ AppGoto("unpause")
  /\ UNCHANGED <<live, index, streaming, persist, buffers, sge, driverVars,
                 idleVars, deviceVars, dpcVars, queueing>>
VoiceUnpause ==
  /\ AppRunsAt("unpause") /\ FrontEndReady
  /\ paused' = paused \ {index[appVoice]}
  /\ AppReturn
  /\ UNCHANGED <<voiceVars, driverVars, idleVars, done, hwFmt, onList, phase,
                 ssl, trap, fev, dpcVars, queueing>>

\* The raised body: first the driver's own state, then the PIO commands.
VoiceStartTrack ==
  /\ AppRunsAt("start")
  /\ persist' = [persist EXCEPT ![appVoice] = streaming[appVoice]]
  /\ state' = [state EXCEPT ![appVoice] = "PLAYING"]
  /\ tracked' = [tracked EXCEPT ![index[appVoice]] = appVoice]
  /\ done' = [done EXCEPT ![index[appVoice]] = [j \in Sides |-> FALSE]]
  /\ AppGoto("start_on")
  /\ UNCHANGED <<live, index, streaming, buffers, sge, free, locks, idleVars,
                 hwFmt, onList, phase, paused, ssl, trap, fev, dpcVars,
                 queueing>>
VoiceStartOn ==
  /\ AppRunsAt("start_on") /\ FrontEndReady
  /\ hwFmt' = [hwFmt EXCEPT ![index[appVoice]] = CfgFmt(appVoice)]
  /\ onList' = onList \cup {index[appVoice]}
  /\ phase' = [phase EXCEPT ![index[appVoice]] = "on"]
  /\ paused' = paused \ {index[appVoice]}
  /\ AppReturn
  /\ UNCHANGED <<voiceVars, driverVars, idleVars, done, ssl, trap, fev,
                 dpcVars, queueing>>

-----------------------------------------------------------------------------
(* nxAudioVoiceRelease, nxAudioVoiceStop, nxAudioVoicePause: the state is  *)
(* tested at PASSIVE_LEVEL, the body is raised and does not test it again. *)

VoiceRelease(v) ==
  /\ AppRunsAt("idle")
  /\ v \in live /\ state[v] = "PLAYING"
  /\ AppEnter("release", v)
  /\ UNCHANGED <<voiceVars, driverVars, idleVars, deviceVars, dpcVars,
                 queueing>>
VoiceReleaseSet ==
  /\ AppRunsAt("release")
  /\ persist' = [persist EXCEPT ![appVoice] = FALSE]
  /\ state' = [state EXCEPT ![appVoice] = "STOPPING"]
  /\ AppGoto("release_cmd")
  /\ UNCHANGED <<live, index, streaming, buffers, sge, driverVars, idleVars,
                 deviceVars, dpcVars, queueing>>
VoiceReleaseCmd ==
  /\ AppRunsAt("release_cmd") /\ FrontEndReady
  /\ hwFmt' = [hwFmt EXCEPT ![index[appVoice]] = CfgFmt(appVoice)]
  /\ phase' = [phase EXCEPT ![index[appVoice]] =
                 IF @ = "on" THEN "release" ELSE @]
  /\ AppReturn
  /\ UNCHANGED <<voiceVars, driverVars, idleVars, done, onList, paused, ssl,
                 trap, fev, dpcVars, queueing>>

VoiceStop(v) ==
  /\ AppRunsAt("idle")
  /\ v \in live /\ state[v] # "STOPPED"
  /\ AppEnter("stop", v)
  /\ UNCHANGED <<voiceVars, driverVars, idleVars, deviceVars, dpcVars,
                 queueing>>
\* Faulty: the PERSIST bit survives nxAudioVoiceStop.
StopSetPersistent ==
  /\ AppRunsAt("stop")
  /\ state' = [state EXCEPT ![appVoice] = "STOPPING"]
  /\ AppGoto("stop_cmd")
  /\ UNCHANGED <<live, persist, index, streaming, buffers, sge, driverVars,
                 idleVars, deviceVars, dpcVars, queueing>>
VoiceStopSet ==
  /\ AppRunsAt("stop")
  /\ persist' = [persist EXCEPT ![appVoice] = FALSE]
  /\ state' = [state EXCEPT ![appVoice] = "STOPPING"]
  /\ AppGoto("stop_cmd")
  /\ UNCHANGED <<live, index, streaming, buffers, sge, driverVars, idleVars,
                 deviceVars, dpcVars, queueing>>
\* VOICE_OFF: the VP may or may not report the buffer it was playing as done.
VoiceStopCmd ==
  /\ AppRunsAt("stop_cmd") /\ FrontEndReady
  /\ hwFmt' = [hwFmt EXCEPT ![index[appVoice]] = CfgFmt(appVoice)]
  /\ GoesOff(index[appVoice])
  /\ AppReturn
  /\ UNCHANGED <<voiceVars, driverVars, idleVars, onList, paused, ssl, trap,
                 dpcVars, queueing>>

VoicePause(v) ==
  /\ AppRunsAt("idle")
  /\ v \in live /\ state[v] # "STOPPED"
  /\ AppEnter("pause", v)
  /\ UNCHANGED <<voiceVars, driverVars, idleVars, deviceVars, dpcVars,
                 queueing>>
VoicePauseSet ==
  /\ AppRunsAt("pause")
  /\ state' = [state EXCEPT ![appVoice] = "PAUSED"]
  /\ AppGoto("pause_cmd")
  /\ UNCHANGED <<live, index, streaming, persist, buffers, sge, driverVars,
                 idleVars, deviceVars, dpcVars, queueing>>
VoicePauseCmd ==
  /\ AppRunsAt("pause_cmd") /\ FrontEndReady
  /\ paused' = paused \cup {index[appVoice]}
  /\ AppReturn
  /\ UNCHANGED <<voiceVars, driverVars, idleVars, done, hwFmt, onList, phase,
                 ssl, trap, fev, dpcVars, queueing>>

-----------------------------------------------------------------------------
(* nxAudioVoiceDestroy: stop, wait up to 100 ms for STOPPED, then free     *)
(* everything whether or not the voice did stop.                           *)

VoiceDestroy(v) ==
  /\ AppRunsAt("idle")
  /\ v \in live
  /\ destroying' = TRUE /\ appVoice' = v
  /\ appPc' = IF state[v] = "STOPPED" THEN "wait" ELSE "stop"
  /\ UNCHANGED <<voiceVars, driverVars, idleVars, deviceVars, dpcVars,
                 queueing>>

\* Nothing is left that could still write STOPPED to v.
NeverStops(v) == tracked[index[v]] # v

\* Faulty: resources are freed without waiting for the voice to stop.
DestroyNotWaited ==
  /\ AppRunsAt("wait")
  /\ AppGoto("slot0")
  /\ UNCHANGED <<voiceVars, driverVars, idleVars, deviceVars, dpcVars,
                 queueing>>
DestroyWaited ==
  /\ AppRunsAt("wait")
  /\ \/ state[appVoice] = "STOPPED"
     \/ SlowHardware \/ NeverStops(appVoice)      \* the timeout expires
  /\ AppGoto("slot0")
  /\ UNCHANGED <<voiceVars, driverVars, idleVars, deviceVars, dpcVars,
                 queueing>>
DestroySlot(j) ==
  /\ AppRunsAt(IF j = 0 THEN "slot0" ELSE "slot1")
  /\ locks' = UnlockIf(locks, buffers[appVoice][j])
  /\ buffers' = [buffers EXCEPT ![appVoice][j] = NoBuffer]
  /\ AppGoto(IF j = 0 THEN "slot1" ELSE "free")
  /\ UNCHANGED <<live, state, index, streaming, persist, sge, tracked, free,
                 idleVars, deviceVars, dpcVars, queueing>>
DestroyFree ==
  /\ AppRunsAt("free")
  /\ sge' = [sge EXCEPT ![appVoice] = FALSE]
  /\ free' = free \cup {index[appVoice]}
  /\ live' = live \ {appVoice}
  /\ appPc' = "idle" /\ appVoice' = NoVoice /\ destroying' = FALSE
  /\ UNCHANGED <<state, index, streaming, persist, buffers, tracked, locks,
                 idleVars, deviceVars, dpcVars, queueing>>

-----------------------------------------------------------------------------
(* apu_isr: one step, preempting everything.  It takes whatever the device *)
(* is asserting: a front-end trap for an idle voice, a pending FEV.        *)

\* The PERSIST bit comes from the tracked voice, else from the device.
PersistBit(i) == IF tracked[i] # NoVoice THEN persist[tracked[i]]
                                         ELSE hwFmt[i].persist

\* The processing list without voice i.
Unlinked(i) == onList \ {i}

\* The idle voice leaves the processing list, both its notifiers are set to
\* done, and it is queued for apu_dpc if an idle entry is free.
IsrIdleVoice(i) ==
  /\ trap = i /\ ~PersistBit(i)
  /\ onList' = Unlinked(i)
  /\ done' = [done EXCEPT ![i] = [j \in Sides |-> TRUE]]
  /\ IF idleFree > 0
       THEN /\ idleFree' = idleFree - 1
            /\ idleActive' = Append(idleActive, i)
            /\ dpcQueued' = TRUE
       ELSE /\ UNCHANGED idleVars
            /\ dpcQueued' = (dpcQueued \/ fev)
  /\ trap' = NoHw /\ fev' = FALSE
  /\ UNCHANGED <<voiceVars, driverVars, hwFmt, phase, paused, ssl, appVars,
                 dpcPc, scan, dpcVoice, inHand, queueing>>

\* A persistent voice stays on the list: the engine is only restarted.
IsrPersistentVoice(i) ==
  /\ trap = i /\ PersistBit(i)
  /\ trap' = NoHw /\ fev' = FALSE
  /\ dpcQueued' = (dpcQueued \/ fev)
  /\ UNCHANGED <<voiceVars, driverVars, idleVars, done, hwFmt, onList, phase,
                 paused, ssl, appVars, dpcPc, scan, dpcVoice, inHand,
                 queueing>>

IsrNotification ==
  /\ trap = NoHw /\ fev
  /\ fev' = FALSE
  /\ dpcQueued' = TRUE
  /\ UNCHANGED <<voiceVars, driverVars, idleVars, done, hwFmt, onList, phase,
                 paused, ssl, trap, appVars, dpcPc, scan, dpcVoice, inHand,
                 queueing>>

Isr == (\E i \in HwVoices : IsrIdleVoice(i) \/ IsrPersistentVoice(i))
       \/ IsrNotification

-----------------------------------------------------------------------------
(* apu_dpc: scan the voices allocated when it starts, then drain the idle  *)
(* list.  apu_isr may run between any two of its steps.                    *)

\* Faulty: the scan looks at the notifier of SSL A only.
DpcStartSideA ==
  /\ dpcQueued /\ dpcPc = "off" /\ appPc \in PassivePcs
  /\ dpcQueued' = FALSE
  /\ scan' = (HwVoices \ free) \X {0}
  /\ dpcPc' = "scan"
  /\ UNCHANGED <<voiceVars, driverVars, idleVars, deviceVars, appVars,
                 dpcVoice, inHand, queueing>>
DpcStart ==
  /\ dpcQueued /\ dpcPc = "off" /\ appPc \in PassivePcs
  /\ dpcQueued' = FALSE
  /\ scan' = (HwVoices \ free) \X Sides
  /\ dpcPc' = "scan"
  /\ UNCHANGED <<voiceVars, driverVars, idleVars, deviceVars, appVars,
                 dpcVoice, inHand, queueing>>

\* The next notifier the scan looks at.
ScanAt(i, j) ==
  /\ dpcPc = "scan" /\ <<i, j>> \in scan
  /\ \A k \in HwVoices, l \in Sides :
       <<k, l>> \in scan => i < k \/ (i = k /\ j <= l)

Completed(v, i, j) == done[i][j] /\ buffers[v][j] # NoBuffer

\* A completed buffer: unlock its pages; a streaming voice also gives up the
\* slot and gets its callback.
DpcRelease(i, j) ==
  /\ ScanAt(i, j)
  /\ LET v == tracked[i]
     IN  /\ v # NoVoice /\ Completed(v, i, j)
         /\ locks' = Unlock(locks, buffers[v][j])
         /\ \/ /\ streaming[v]
               /\ buffers' = [buffers EXCEPT ![v][j] = NoBuffer]
               /\ dpcPc' = "callback" /\ dpcVoice' = v
            \/ ~streaming[v] /\ UNCHANGED <<buffers, dpcPc, dpcVoice>>
  /\ scan' = scan \ {<<i, j>>}
  /\ UNCHANGED <<live, state, index, streaming, persist, sge, tracked, free,
                 idleVars, deviceVars, appVars, dpcQueued, inHand, queueing>>

DpcSkip(i, j) ==
  /\ ScanAt(i, j)
  /\ tracked[i] # NoVoice => ~Completed(tracked[i], i, j)
  /\ scan' = scan \ {<<i, j>>}
  /\ UNCHANGED <<voiceVars, driverVars, idleVars, deviceVars, appVars,
                 dpcQueued, dpcPc, dpcVoice, inHand, queueing>>

\* The callback may queue buffers on its voice, and returns.
DpcCallbackQueue(b) ==
  /\ dpcPc = "callback" /\ dpcVoice \in StreamVoices
  /\ \/ QueueBegin(dpcVoice, b) /\ dpcPc' = "queue_ssl"
     \/ QueueReject(dpcVoice) /\ UNCHANGED dpcPc
  /\ UNCHANGED <<appVars, dpcQueued, scan, dpcVoice, inHand>>
DpcCallbackSsl ==
  /\ dpcPc = "queue_ssl" /\ QueueSsl
  /\ dpcPc' = "queue_slot"
  /\ UNCHANGED <<appVars, dpcQueued, scan, dpcVoice, inHand>>
DpcCallbackSlot ==
  /\ dpcPc = "queue_slot" /\ QueueSlot
  /\ dpcPc' = "callback"
  /\ UNCHANGED <<appVars, dpcQueued, scan, dpcVoice, inHand>>
DpcCallbackReturn ==
  /\ dpcPc = "callback"
  /\ dpcPc' = "scan" /\ dpcVoice' = NoVoice
  /\ UNCHANGED <<voiceVars, driverVars, idleVars, deviceVars, appVars,
                 dpcQueued, scan, inHand, queueing>>

DpcScanned ==
  /\ dpcPc = "scan" /\ scan = {}
  /\ dpcPc' = "drain"
  /\ UNCHANGED <<voiceVars, driverVars, idleVars, deviceVars, appVars,
                 dpcQueued, scan, dpcVoice, inHand, queueing>>

\* The idle list is last in, first out.
DpcPop ==
  /\ dpcPc = "drain" /\ idleActive # <<>>
  /\ inHand' = idleActive[Len(idleActive)]
  /\ idleActive' = SubSeq(idleActive, 1, Len(idleActive) - 1)
  /\ dpcPc' = "retire"
  /\ UNCHANGED <<voiceVars, driverVars, idleFree, deviceVars, appVars,
                 dpcQueued, scan, dpcVoice, queueing>>

\* Faulty: the entry of a voice that was still tracked is not given back.
DpcRetireKeepsEntry ==
  /\ dpcPc = "retire"
  /\ tracked' = [tracked EXCEPT ![inHand] = NoVoice]
  /\ state' = IF tracked[inHand] = NoVoice THEN state
              ELSE [state EXCEPT ![tracked[inHand]] = "STOPPED"]
  /\ idleFree' = idleFree + (IF tracked[inHand] = NoVoice THEN 1 ELSE 0)
  /\ inHand' = NoHw
  /\ dpcPc' = "drain"
  /\ UNCHANGED <<live, index, streaming, persist, buffers, sge, free, locks,
                 idleActive, deviceVars, appVars, dpcQueued, scan, dpcVoice,
                 queueing>>
\* The popped voice is no longer tracked, it is stopped, and its entry is free.
DpcRetire ==
  /\ dpcPc = "retire"
  /\ tracked' = [tracked EXCEPT ![inHand] = NoVoice]
  /\ state' = IF tracked[inHand] = NoVoice THEN state
              ELSE [state EXCEPT ![tracked[inHand]] = "STOPPED"]
  /\ idleFree' = idleFree + 1
  /\ inHand' = NoHw
  /\ dpcPc' = "drain"
  /\ UNCHANGED <<live, index, streaming, persist, buffers, sge, free, locks,
                 idleActive, deviceVars, appVars, dpcQueued, scan, dpcVoice,
                 queueing>>

\* Faulty: the list is not drained to its end.
DpcEndEarly ==
  /\ dpcPc = "drain"
  /\ dpcPc' = "off"
  /\ UNCHANGED <<voiceVars, driverVars, idleVars, deviceVars, appVars,
                 dpcQueued, scan, dpcVoice, inHand, queueing>>
DpcEnd ==
  /\ dpcPc = "drain" /\ idleActive = <<>>
  /\ dpcPc' = "off"
  /\ UNCHANGED <<voiceVars, driverVars, idleVars, deviceVars, appVars,
                 dpcQueued, scan, dpcVoice, inHand, queueing>>

Dpc ==
  \/ DpcStart \/ DpcScanned \/ DpcPop \/ DpcRetire \/ DpcEnd
  \/ \E i \in HwVoices, j \in Sides : DpcRelease(i, j) \/ DpcSkip(i, j)
  \/ \E b \in Buffers : DpcCallbackQueue(b)
  \/ DpcCallbackSsl \/ DpcCallbackSlot \/ DpcCallbackReturn

-----------------------------------------------------------------------------
(* The voice processor, as the driver relies on it.                        *)

Processed(i) == trap = NoHw /\ i \in onList
Starved(i)   == hwFmt[i].stream /\ ssl[i] = {}

\* The VP reaches the end of a loaded SSL of a streaming voice.
HwFinishSsl(i, j) ==
  /\ Processed(i) /\ phase[i] # "off" /\ i \notin paused
  /\ hwFmt[i].stream /\ j \in ssl[i]
  /\ ssl' = [ssl EXCEPT ![i] = @ \ {j}]
  /\ done' = [done EXCEPT ![i][j] = TRUE]
  /\ fev' = TRUE
  /\ UNCHANGED <<voiceVars, driverVars, idleVars, hwFmt, onList, phase,
                 paused, trap, appVars, dpcVars, queueing>>

\* A static voice ends, a released voice decays, or a voice that is not
\* persistent runs out of SSLs.
HwVoiceEnds(i) ==
  /\ Processed(i) /\ phase[i] # "off" /\ i \notin paused
  /\ \/ phase[i] = "release" \/ ~hwFmt[i].stream
     \/ Starved(i) /\ ~hwFmt[i].persist
  /\ GoesOff(i)
  /\ UNCHANGED <<voiceVars, driverVars, idleVars, hwFmt, onList, paused, ssl,
                 trap, appVars, dpcVars, queueing>>

\* SE2FE_IDLE_VOICE: the VP traps on a listed voice it has nothing to do for.
HwIdle(i) ==
  /\ Processed(i)
  /\ phase[i] = "off" \/ (Starved(i) /\ i \notin paused)
  /\ trap' = i
  /\ UNCHANGED <<voiceVars, driverVars, idleVars, done, hwFmt, onList, phase,
                 paused, ssl, fev, appVars, dpcVars, queueing>>

Hw == \E i \in HwVoices : \/ \E j \in Sides : HwFinishSsl(i, j)
                          \/ HwVoiceEnds(i) \/ HwIdle(i)

-----------------------------------------------------------------------------
\* A call the application makes, and the rest of a call it has made.
AppCall ==
  \E v \in Voices :
    \/ "Create" \in Calls /\ \E is3d \in BOOLEAN : VoiceCreate(v, is3d)
    \/ "SetFormat" \in Calls /\ \E is3d \in BOOLEAN : VoiceSetFormat(v, is3d)
    \/ "Start" \in Calls /\ VoiceStart(v)
    \/ "Release" \in Calls /\ VoiceRelease(v)
    \/ "Stop" \in Calls /\ VoiceStop(v)
    \/ "Pause" \in Calls /\ VoicePause(v)
    \/ "Destroy" \in Calls /\ VoiceDestroy(v)
    \/ \E b \in Buffers : BufferQueue(v, b) \/ BufferSubmit(v, b)
AppBody ==
  \/ BufferQueueSsl \/ BufferQueueSlot
  \/ VoiceStartTest \/ VoiceUnpauseSet \/ VoiceUnpause
  \/ VoiceStartTrack \/ VoiceStartOn
  \/ VoiceReleaseSet \/ VoiceReleaseCmd \/ VoiceStopSet \/ VoiceStopCmd
  \/ VoicePauseSet \/ VoicePauseCmd
  \/ DestroyWaited \/ (\E j \in Sides : DestroySlot(j)) \/ DestroyFree

Next == AppCall \/ AppBody \/ Isr \/ Dpc \/ Hw

Spec == Init /\ [][Next]_vars

(* Fairness.  An asserted interrupt is delivered.  A queued DPC runs to its *)
(* end, and the application finishes a call it is in: for these it is      *)
(* strong, because a command waits in the FIFO while the front end is      *)
(* trapped and is taken when apu_isr restarts it.  The VP walks its whole  *)
(* list every frame, so it traps on each listed voice that stays idle.     *)
(* Nothing makes the application call anything or a voice reach its end.   *)
Fairness ==
  /\ WF_vars(Isr) /\ SF_vars(Dpc) /\ SF_vars(AppBody)
  /\ \A i \in HwVoices : SF_vars(HwIdle(i))
FairSpec == Spec /\ Fairness

-----------------------------------------------------------------------------
(* Safety *)

\* g_tracked_voices[i] is the created, not yet stopped voice whose index is i:
\* apu_isr reads its PERSIST bit and apu_dpc its buffers through the pointer.
TrackedSound ==
  \A i \in HwVoices :
    LET v == tracked[i]
    IN  v # NoVoice => /\ v \in live
                       /\ index[v] = i
                       /\ state[v] # "STOPPED"

\* A voice on a processing list is tracked, so neither Start nor SetFormat nor
\* Destroy, which need it stopped, touch a voice the VP is processing.
ListedIsTracked == \A i \in onList : tracked[i] # NoVoice

\* An index belongs to one created voice or is free, and none is lost.
IndexOwnership ==
  /\ \A v \in live : index[v] \in HwVoices
  /\ \A v, w \in live : index[v] = index[w] => v = w
  /\ free = HwVoices \ {index[v] : v \in live}

\* No idle entry is lost, none is used twice for a voice, and a voice that
\* waits in one for apu_dpc is still tracked and has left the list.
IdleEntriesSound ==
  /\ idleFree + Len(idleActive) + (IF inHand = NoHw THEN 0 ELSE 1)
       = IdleQueueSize
  /\ \A k \in DOMAIN idleActive :
       /\ idleActive[k] \notin onList /\ tracked[idleActive[k]] # NoVoice
       /\ idleActive[k] # inHand
       /\ \A l \in DOMAIN idleActive : idleActive[k] = idleActive[l] => k = l
  /\ inHand # NoHw => inHand \notin onList /\ tracked[inHand] # NoVoice

\* apu_isr never finds the free list empty when it has a voice to queue.
IdleEntryAvailable ==
  trap # NoHw => idleFree > 0

\* A voice queued for apu_dpc is not forgotten: a run of it will see the entry.
IdleVoicesGetDrained ==
  idleActive # <<>> \/ inHand # NoHw => dpcQueued \/ dpcPc # "off"

\* A completed buffer of a tracked streaming voice is not forgotten: a scan
\* that has not passed its notifier is under way or will come.
CompletionPending ==
  \A i \in HwVoices, j \in Sides :
    LET v == tracked[i]
    IN  v # NoVoice /\ streaming[v] /\ Completed(v, i, j)
          => fev \/ dpcQueued \/ <<i, j>> \in scan

\* For streaming voices the pages of a buffer are locked once for every slot
\* that holds it: no lock leaks, and none is given back twice.
Holders(b) == Cardinality({s \in Voices \X Sides : buffers[s[1]][s[2]] = b})
PageLocksBalanced ==
  \A b \in Buffers :
    locks[b] = Holders(b) + (IF queueing.buffer = b THEN 1 ELSE 0)

-----------------------------------------------------------------------------
(* The inductive invariant behind the safety properties (VoiceControlProofs) *)

\* The call in progress acts on a created voice; between its test and its body
\* a voice being started stays stopped, and until VOICE_ON it is tracked but
\* neither listed nor queued; a voice being freed is no longer tracked.
CallSound ==
  /\ appPc \notin {"idle", "queue_ssl", "queue_slot"} => appVoice \in live
  /\ appPc = "start" => state[appVoice] = "STOPPED"
  /\ appPc = "start_on" =>
       /\ tracked[index[appVoice]] = appVoice
       /\ index[appVoice] \notin onList
       /\ \A k \in DOMAIN idleActive : idleActive[k] # index[appVoice]
  /\ appPc \in {"slot0", "slot1", "free"} =>
       \A i \in HwVoices : tracked[i] # appVoice

\* The three levels exclude each other as IRQLs do, and the VP traps only on
\* voices it has on a list.
LevelsSound ==
  /\ appPc \in RaisedPcs => dpcPc = "off"
  /\ dpcPc = "retire" <=> inHand # NoHw
  /\ trap # NoHw => trap \in onList

IInv ==
  /\ TypeOK
  /\ TrackedSound /\ ListedIsTracked /\ IndexOwnership
  /\ IdleEntriesSound /\ IdleVoicesGetDrained
  /\ CallSound /\ LevelsSound

-----------------------------------------------------------------------------
(* Liveness *)

\* A listed voice that is off (VOICE_OFF, or it ended) is retired by apu_dpc.
OffVoiceIsRetired ==
  \A i \in HwVoices :
    (i \in onList /\ phase[i] = "off") ~> (tracked[i] = NoVoice)

\* A completed buffer of a tracked streaming voice is given back.
CompletedIsReturned ==
  \A i \in HwVoices, j \in Sides :
    (tracked[i] # NoVoice /\ streaming[tracked[i]]
       /\ Completed(tracked[i], i, j))
    ~> (tracked[i] = NoVoice \/ ~Completed(tracked[i], i, j))

-----------------------------------------------------------------------------
(* What the documentation says, and the code does not keep *)

\* include/nxaudio.h:260: after Stop "the voice is still active", that is, a
\* voice that reports anything but NX_STOPPED is one the driver still tracks.
ActiveIsTracked ==
  \A v \in live :
    state[v] # "STOPPED" => appVoice = v \/ tracked[index[v]] = v

\* audio_core.c:237: every idle voice gets a DPC run "to free buffers".
NoCompletionLost ==
  \A v \in live, j \in Sides :
    streaming[v] /\ Completed(v, index[v], j) =>
      fev \/ dpcQueued \/ <<index[v], j>> \in scan

\* audio_voice.c:312: Destroy waits to "ensure the voice has truly stopped
\* before freeing resources": no destroyed voice is left in the tracked table.
DestroyedIsGone == \A i \in HwVoices : tracked[i] \in live \cup {NoVoice}

\* include/nxaudio.h:199: a submitted buffer is owned by the hardware until it
\* is replaced, and may be replayed: while the VP plays it, it stays locked.
PlayingBufferLocked ==
  \A i \in onList :
    LET v == tracked[i]
    IN  v # NoVoice /\ ~streaming[v] /\ phase[i] # "off"
          /\ buffers[v][0] # NoBuffer
        => locks[buffers[v][0]] > 0
=============================================================================
