# A verification project for nxdk-audio

nxdk-audio drives the MCPX audio processing unit (APU) of the original Xbox:
256 hardware voices mixed by a voice processor (VP), 64 of them with 3D (HRTF)
filtering. The driver is small (`src/audio_core.c`, `src/audio_voice.c`,
`src/audio_buffer.c`) and its difficulty is not size: four parties — the
application thread, a deferred procedure (DPC), an interrupt routine (ISR) and
the VP — share the state of every voice with no lock other than the interrupt
level.

This directory holds TLA+ models of that code, the TLC configurations that
check them on small instances, and TLAPS proofs of what holds for every
instance. `PROJECT.json` lists components, runs, the source lines of each
definition, hazards, findings and theorems.

## 1. Inventory

| Part | Code | State it keeps | Operations | Modules |
|---|---|---|---|---|
| Voice control | `audio_voice.c` 25–49, 119–333, 529–594 | `nxAudioVoice.state`, `voice_index`, `streaming`, PERSIST and DATA_TYPE bits of `cfg_fmt`, `g_voice_allocation_mask` | Create, SetFormat, Start, Release, Stop, Pause, GetState, Destroy | `VoiceControl` |
| Interrupt and DPC | `audio_core.c` 118–321 | `g_tracked_voices`, the two idle lists, notifiers, the queued bit of the DPC; the VP's lists | `apu_isr`, `apu_dpc` | `VoiceControl` (lists as a set), `VoiceList` over `ProcessingList` (pointer by pointer) |
| Buffers | `audio_buffer.c` 70–326 | `buffers_hardware[2]`, page locks, loaded SSLs | Initialize, SetCallback, Queue, Submit | `VoiceControl` (control), `StreamOrder` over `PlayQueue` (order) |
| SGE allocator | `audio_buffer.c` 328–429 | `g_sge_bitmap`, `sge_base`, `sge_count` | `apu_sge_alloc`, `apu_sge_free` | `SgeAllocator` over `SgePool` |
| SSL splitting | `audio_buffer.c` 9–68, 84–215 | the SSL and SGE tables | `insert_buffer_to_ssl`, `insert_buffer_to_sge`, `get_memory_properties` | `SslSplit` |
| PIO front end | every call; `audio_core.c` 49–55, `audio_voice.c` 96–117 | the VP's current voice, VOICE_LOCK, the 32-entry FIFO, the voice registers | select, lock, write, unlock, flush | `VoiceRegisters` |
| Sound parameters | `audio_voice.c` 335–527, 556–748, 795–875 | the local copies of the words, gains, envelopes, filters, pitch | one setter each | `VoiceParameters` |
| Playback offset | `audio_voice.c` 750–793 | CBO, EBO, NEW_VOICE | Get, Set | `PlaybackOffset` |
| HRTF table | `audio_core.c` 636–755, `audio_hrtf.h` | the HRIR table and registers | SetParameters, FromAngles | `HrtfGrid` |
| Init and shutdown | `audio_core.c` 76–116, 328–634 | the globals, the ten blocks, the units' address and control registers | `nxAudioInit`, `nxAudioShutdown` | `DriverLifecycle` |
| AC97, DSP bring-up | `audio_core.c` 76–116, 478–594, `passthrough.a56` | device registers | waits, resets, program load | in `DriverLifecycle`; the DSP program itself is not modelled |
| Examples | `example/` | the client's own | the streaming loop | `StreamOrder` over `PlayQueue` |

### How the parts interact

* The **application** calls the API from one thread at PASSIVE_LEVEL. Most calls
  first test the state of the voice, then raise to DISPATCH_LEVEL
  (`KeRaiseIrqlToDpcLevel`), change it and write PIO commands. The DPC cannot
  run while the thread is raised; it can run between the test and the raise.
* The **VP** walks its voice lists every frame. At the end of a buffer it sets a
  notifier and raises FEV. For a listed voice with nothing to do it *traps*
  (SE2FE_IDLE_VOICE): the front end stops and takes no PIO command until the
  ISR restarts it.
* The **ISR** takes the idle voice off the list, sets both its notifiers, moves
  an entry from the idle free list to the idle active list and queues the DPC.
  FEV alone only queues the DPC. It interrupts everything else.
* The **DPC** scans the notifiers of the allocated voices: it unlocks completed
  buffers and, for streaming voices, frees the slot and runs the application's
  **callback**, which may queue the next buffer from inside the DPC. Then it
  drains the idle active list: each voice leaves `g_tracked_voices` and becomes
  `NX_STOPPED`.

### What is hard here

* the test of the state and the write to it are not atomic in Start, Stop,
  Release and Pause (`audio_voice.c` 172, 230, 256, 291);
* the ISR runs between any two steps of the DPC, the VP between any two of
  everything;
* the callback re-enters Queue in the middle of the scan;
* a queued DPC is a bit, not a count: what comes while it runs must still be
  seen;
* PERSIST must be clear where the ISR reads it, or a stopped voice traps for ever;
* Destroy has a timeout;
* one page lock per held buffer, over every error path;
* bit arithmetic over word boundaries in the allocator;
* one "current voice" for the whole machine, selected by setters that a
  callback may interrupt;
* words shared by settings that different calls own;
* registers and globals that survive a shutdown;
* loops without a limit on bits the hardware must change.

### What makes each part correct

* *Voice control*: an index has one owner; a stopped voice stays untouched by
  ISR and DPC; Destroy leaves no pointer behind; a voice that is off becomes
  `NX_STOPPED`.
* *ISR and DPC*: no idle entry lost or doubled, no idle voice forgotten, no
  completed buffer forgotten, tracked table and VP list agree.
* *Buffers*: a slot's pages are locked exactly while the slot holds the buffer.
* *SGE allocator*: no entry shared, none lost, refusal exactly when the search
  as designed finds nothing, termination.
* *Buffers, order*: what is queued is played once, in order, and not overwritten
  while it plays.
* *SSL splitting*: the entries lead the VP to the bytes of the buffer, in order
  and no others; a buffer is refused only when its list is really too long.
* *PIO front end*: a write reaches the voice it was meant for, and comes after a
  wait that counted it.
* *Sound parameters*: fields that share a word do not disturb each other,
  whatever the order of calls; what is heard is what was asked for last.
* *HRTF*: the nearest filter, mirrored directions mirrored, all taps in place.
* *Init and shutdown*: no unit and no handler meets freed memory, nothing leaks,
  and a session finds nothing of an earlier one.
* *Examples*: the file is heard in order and for ever.

## 2. Modules

### VoiceControl

One module for application, ISR, DPC and VP, because what goes wrong is between
them. Its variables are grouped: fields of `nxAudioVoice` (`live`, `state`,
`index`, `streaming`, `persist`, `buffers`, `sge`), driver globals (`tracked`,
`free`, `locks`), the idle lists (`idleFree`, `idleActive`), the device (`done`,
`hwFmt`, `onList`, `phase`, `paused`, `ssl`, `trap`, `fev`), the application
thread (`appPc`, `appVoice`, `destroying`), the DPC (`dpcQueued`, `dpcPc`,
`scan`, `dpcVoice`, `inHand`) and the locals of a Queue in progress
(`queueing`).

Correspondence and granularity:

* **Calls.** A call is split where another party can get in and see a
  difference. `VoiceStop` is the test at PASSIVE_LEVEL, `VoiceStopSet` raises and
  writes the driver's state, `VoiceStopCmd` is the PIO writes. Start tests the
  slots (`VoiceStart`) and then the state (`VoiceStartTest`), and apu_dpc may empty
  both slots and retire the voice in between. The program
  counters of `PassivePcs` let the DPC in, those of `RaisedPcs` do not; a DPC
  queued while the thread is at PASSIVE_LEVEL runs before the thread goes on
  (`AppRunsAt`). Early returns that change nothing are not actions.
* **PIO.** A group of writes by one call is one step, and waits while the front
  end is trapped (`FrontEndReady`): the VP takes no command from the FIFO then.
* **Queue** is the same three steps from the application and from the callback:
  `QueueBegin` (format, slot, page lock, notifier re-armed), `QueueSsl` (the SSL
  is given to the VP), `QueueSlot` (the driver records the buffer). The state
  test before the raise is merged into `QueueBegin`: the only change another
  party can make in between is a move to STOPPED, which allows it too. An
  error after the lock is `QueueReject`, whose lock and unlock cancel.
* **Submit** needs a stopped voice, which ISR and DPC leave alone, so it is one
  step with two outcomes: the buffer is set up, or it is not (no entries, or less
  than one sample block: the constant `Tiny`; there the code keeps the lock).
* **SetFormat** with a type of the other class swaps the index. Failure of
  allocation, and Create failing in its SetFormat, leave no change.
* **Destroy** is Stop, the wait, the two slots and the release of entries and
  index. The wait ends at STOPPED or at the timeout. The timeout is possible if
  nothing is left to stop the voice (`NeverStops`), or always with
  `SlowHardware = TRUE`. `SlowHardware = FALSE` is the assumption that the VP
  answers within 100 ms.
* **DPC.** `scan` is the set of notifiers still to be looked at, taken when the
  DPC starts: the code reads the mask word by word, and nobody allocates or
  frees an index while the DPC runs. The active list is last in, first out, as
  an SLIST is.
* **Callback.** It may queue buffers on its own voice, which is what
  `nxaudio.h` allows and the streaming example does; Stop and Destroy are
  forbidden there.
* **The VP** is external and modelled by what the driver relies on: a
  streaming voice finishes loaded SSLs, setting a notifier and FEV each time; a
  voice may end (static data at its end, decay, starvation without PERSIST); a
  listed voice that is off or starved may trap. VOICE_OFF may or may not report
  the buffer being played. SSLs stay loaded when a voice is turned off. Looping,
  volumes, pitch and filters are left out: they do not change the control.
* `MmLockUnlockBufferPages` counts locks per buffer; unlocking what is not
  locked leaves it unlocked.

### SgePool and SgeAllocator

`SgePool` is the abstract promise: a request is answered in one step with the
first word whose first free run is long enough, or refused if there is none.
`SgeAllocator` is the code: each iteration of the outer search loop (`ScanFull`,
`ScanWord`, `ScanFails`), of the inner loop that carries a run into the next word
(`ExtendWord`, `ExtendBlocked`, `ExtendFails`) and of the two mask loops (`Clear`,
`Mark`) is a step. `Submit` covers both callers: Submit gives back and asks,
Destroy (or Submit of a buffer too small to play, count 0) only gives back. The
word is `Width` bits and the bitmap `Words` words; `__builtin_ctz` is "the
lowest bit such that". `ImplementsPool` is the refinement: a request is under
way from the first search step to the last mark. `Shutdown` forgets the voices and
keeps the bitmap, as `nxAudioShutdown` does; the history variable `lost` records
the entries that become unreachable by it, so that everything else can still be
accounted for.

### ProcessingList and VoiceList

`ProcessingList` is the abstract list: a voice is put on top, or taken out.
`VoiceList` has the links in `tar_pitch_link`, and TVL, CVL and NVL of both
classes. The VP walks a list (`Walk`), puts a started voice on top (`VoiceOn`) and
traps on an idle one (`IdleTrap`), which stops it and the front end; `IsrEnter`,
`IsrSearch` (one link each) and `IsrUnlink` are apu_isr's search and surgery, in
the code's order. The walk is external and as loose as the driver allows: NVL is
the successor of CVL, read at some moment, so a voice put on top in between, or
the end of the list, are both possible. The refinement follows the links:
`Walked` is what the search of apu_isr would meet from the top of each class, and
`Links`, the instance of `ProcessingList` over it, is what `ImplementsList` speaks of.
`order` is a history variable beside it, the list as it was meant to be, to which
`LinksSound` ties the links; the proofs need it, and no action reads it.

### SslSplit

Voices and calls follow one another over the shared SSL and SGE tables; a call of
Queue or Submit is the probe of the page tables (`Probe`, `ProbeNext`), the loop
that cuts pieces (`Emit`), the writes through the 64-entry window (`WriteSsl`) and
the scatter-gather writes (`WriteSge`). Memory is byte-addressed and scaled down:
pages of 4 bytes, entries of at most `FieldSize - 1` samples, `MaxSsl` entries to a
list, a window of `SegSize`. What is loaded is read back as the VP reads it:
`SslsDescribeBuffers` follows the entries of every slot of every voice, so it also
says that a call writes over nobody else's. BUF_BASE and EBO are state (`inbuf`),
written once by `SetBufBase` and read back with the entries by `SgesDescribeBuffers`.

### VoiceRegisters and VoiceParameters

They split the register image in two. `VoiceRegisters` has the *order*: each
call is its series of PIO writes (`WAIT n`, select, lock, words, unlock), one write
a step while at PASSIVE_LEVEL, so that apu_dpc and its callback get in between
any two; a word is the tuple of the settings packed in it. It also has what
`apu_flush_voice` writes, and the room in the FIFO, which shrinks with each write
and is only known to be there after a wait. `VoiceParameters` has the *packing*:
each word as the set of its 1 bits, every field with its place and width, every
setter with its masks; there each call completes before the next. Logarithms
are not computed: arguments are attenuations and octaves.

In both, the variable `app` is what one application uses of the interface: Init
chooses it from the constant `Applications` and no step changes it. One run so
covers several applications whose calls taken together would be too many. The
record says whether the callback queues, and whether the application makes its
setters only while no voice runs (`quiet`). `PlaysItsOwnBuffer` takes the
applications that keep to one of Queue and Submit (`OneKind`) and to one class of
formats (`OneClass`): where the two are mixed, a Queue that is refused after the
format word was computed leaves a submitted buffer to be played as a stream.

### PlaybackOffset

A voice that is started, paused, released and stopped, with the four states of
`nxAudioVoice.state` beside what the VP was told (`active`, `paused`) and NEW_VOICE
(`fresh`), which VOICE_ON sets and only the VP clears. The VP goes on with the voice
between any two steps of `nxAudioVoiceSetPlaybackOffset`: the test of the state, the
spin on NEW_VOICE, the comparison with EBO, the write of CBO. It takes up a new voice
that is on and not paused; whether it also takes up one that was paused, turned off or
both before its first frame is not said anywhere, so it may and it may never.
`SetOffsetReturns` names that wait (`LeftNew`) as the only one without an end. The
other calls are one step each: what apu_dpc does between Stop's test and its raise is
`VoiceControl`'s. The voice keeps its class. Block sizes, buffers and offsets that do
not divide each other are inputs.

### HrtfGrid

Angles in quarters of a degree; the indices, the rounding and the mirroring are
the code's integer arithmetic; delays are those of the table. A tap is
`<<filter, k>>`, so that a misplaced tap shows; `Filled` is the entry as
`nxAudioHRTFSetParamsFromAngles` fills it, `Registers` what is written of it.

### DriverLifecycle

A step is one allocation, one group of register writes between which nothing can
happen, one wait or one release. Memory has a generation: a block is its name and
the session that allocated it, so that a kept address is seen to be stale.
`OutOfMemory` goes from any allocation into `nxAudioShutdown`, as the macro does.
`Play` and `Destroy` stand for the application's voices, `Event` and `Trap` for what a
running VP raises in ISTS, where it stays pending until `Isr` takes it or `Connect`
clears it: over a shutdown too, so that `NothingOfAnEarlierSession` has something to
find. `Isr` and `Dpc` run at any moment at which they are connected or queued. Its parts
are `NothingPending`, that the handlers just connected have nothing to answer when
the VP is started, and `NothingListed`, that what traps, is listed, tracked or waits
for the DPC afterwards is all of this session. `CallReturns` is about the waits for
AC97; the few PIO writes of Init and their waits are left out.

### PlayQueue and StreamOrder

`PlayQueue` is what `nxaudio.h:206-215` promises of a streaming voice: a queue of
two places. `StreamOrder` is the streaming example with the driver below it: main
takes a completion, fills a buffer and queues it; the driver picks the lowest
free slot; the VP plays side A and B in turn; apu_dpc scans both sides and counts.
Two questions cannot be answered from the repository:

* What a VP that has run out does next, the constant `KeepsTurn`. If it goes on
  with the first side it is given (FALSE), order and no-overwriting hold, and are
  proved. If it waits for the side whose turn it is, they do not.
* Whether `buffers_completed--` compiles to one instruction, the variable `atomic`,
  which Init chooses. The race is undefined by the language: with `atomic` FALSE
  an increment may be lost between the read and the write back.

### Proof and model-checking modules

`VoiceControlProofs`, `VoiceListProofs`, `SgeAllocatorProofs`, `DriverLifecycleProofs`,
`StreamOrderProofs` and `VoiceRegistersProofs` hold the theorems about the module they
are named for; `SoundProofs` those about `VoiceParameters` and `HrtfGrid`, and
`BufferProofs` those about `SslSplit` and `PlaybackOffset`. A module proved about together
with another has names of its own for what both would define (`HrtfSpec`, `OffsetSpec`).
The `MC` modules give the constants for TLC.
Operators marked "Faulty", or named for a difference from the definition that
follows them, are variants of it, each a plausible mistake in the code; substituted
for it, each breaks one of the properties below, which shows the property depends on
that code.

## 3. Runs

| Run | Bounds | Checks | Distinct states |
|---|---|---|---|
| StreamOne | 1 streaming voice, 2 buffers, 1 index, all calls, fairness | `CompletionPending`, `PageLocksBalanced`, `OffVoiceIsRetired`, `CompletedIsReturned` | 255 thousand |
| Classes | 2 static voices, 2 buffers (one below a block), 1 3D and 2 2D indices; Create, SetFormat, Start, Stop, Destroy; symmetric voices | `IInv`, `TrackedSound`, `IndexOwnership`, `IdleEntryAvailable`, `IdleVoicesGetDrained` | 1.8 million |
| StopRace | 1 streaming voice, 1 buffer, all calls | `ActiveIsTracked` | violated |
| SgePoolRefined | 2 voices, 3 words of 3 bits, requests up to 7, shutdowns, fairness | `PoolInv`, `EntriesAccounted`, `ImplementsPool`, `CallReturns` | 644 thousand |
| Lists | 4 hardware voices, 1 of them 3D, fairness | `LinksSound`, `TurnsKept`, `ImplementsList`, `TrapReturns` | 279 thousand |
| Split | 2 voices, 2 calls, 12 buffers in 5 formats, lists of 2, window of 3, 6 SGEs | `TablesSound`, `RefusedOnlyWhenNeeded`, `NothingDropped` | 1.9 million |
| Registers | 5 applications of 1 or 2 voices, 3 indices, FIFO of 32 | `RegistersSound`, `RoomForEveryWrite`, `PlaysItsOwnBuffer` | 457 thousand |
| Parameters | 2 applications: formats and volumes; envelopes and filters | `WordsAsAsked`, `MixbinsSound`, `ChannelsReachTheirSpeakers` | 16 thousand |
| HrtfAngles | azimuths every 2.5° from −187.5° to 187.5°, elevations every 5° from −45° to 95°, and a quarter of a degree below each; entries 127 and 128 | `NearestFilters`, `MirrorImages` | 18 thousand |
| Lifecycle | 3 calls of Init, 2 voices, 2 idle entries, 3 listings, fairness | `RunningUnitsHaveMemory`, `HandlersHaveMemory`, `NothingLeaks`, `NothingOfAnEarlierSession`, `ProgramLoaded`, `CallReturns` | 266 thousand |
| Stream | 2 buffers, 3 chunks, both builds, fairness | `NoOverwritePlaying`, `EveryFreeSideCounted`, `KeepsPlaying`, `PlaysInOrder` | 2.6 thousand |
| Offsets | blocks of 1, 4 and 36 bytes, 3 sizes, 6 offsets, all four states, fairness | `OffsetInBuffer`, `SetOffsetReturns` | 560 thousand |

What each run shows is in the "about" of `PROJECT.json`; all hold but StopRace's.
Several of these are conjunctions: `WordsAsAsked`, `MixbinsSound`, `RegistersSound`,
`TablesSound` and `NearestFilters` name their parts, which are stated and commented one
by one in their modules, and `IInv` and `PoolInv` are the inductive invariants of the
proofs, with `ListedIsTracked`, `IdleEntriesSound` and `NoSharing` among their
conjuncts. The types of every module with proofs are proved; those of the others are
conjuncts of the named invariants. `EntriesSound`, `PointersListed` and `NeverFull` are
proved and not run.

### Why the bounds are enough

* *StreamOne, Classes.* One voice already meets every party: the hazards are
  between application, ISR, DPC and VP about one voice, and one voice has both its
  slots, so ping-pong, a callback that refills one side and a completion behind
  the scan all occur. Two voices add what is between voices: two entries on the
  idle list, one retired while another is being started, two owners of the index
  mask. Three indices give both classes and an allocation that must choose. A
  buffer may be queued again while it is queued; `MaxLocks` bounds how often.
  With `IdleQueueSize = NumHw` the idle list is as tight as the code's 256 entries
  for 256 voices.
* *SgePoolRefined.* Three words give a run that starts in one, fills the next and
  ends in the third; three bits give a word with two separate runs, where the
  search, which looks at the first only, differs from first fit; the lost entries
  of a shutdown give holes anywhere.
* *Lists.* Three voices in one list are a top, a middle and a last one, with CVL
  and NVL on either side of the voice unlinked; the fourth is in the other list.
* *Split.* A list of two is left unfilled, filled and overrun by one to three
  pages; frames follow upwards, downwards and with gaps; every offset in the first
  page; buffers below a block, of whole blocks, with a rest; blocks of 1 to 4
  bytes that divide the page or straddle it; two calls over six entries, so that
  a second voice is refused or sits beside the first.
* *Registers.* Two voices moving over three indices of two classes leave an index
  to another voice; callbacks come from both sides of a slot. One value of a
  setting that is copied, two of one that is compared.
* *Parameters.* Each field at its smallest, its largest and beyond its width.
  Every setter is independent of the order of calls but for the words, and all
  orders are taken.
* *HrtfAngles.* The choice changes at multiples of 2.5 degrees of azimuth and
  5 of elevation only, so both sides of each are all the cases there are, beyond
  both ends of both ranges included.
* *Lifecycle.* A failed session, a whole one and a next; `MaxInits` bounds only
  how often the application begins again, `MaxWords` the program buffer, with
  listings that are empty, fit and overflow.
* *Stream.* One chunk more than there are buffers: each buffer holds each.

`CHECK_DEADLOCK FALSE` stands where the system really stops: Split, HrtfAngles and
Lifecycle when the calls they bound are used up, Registers when its applications have
nothing left that may be called.

### Fairness, and why the code justifies it

* `VoiceControl`: an asserted interrupt is delivered (weak). A queued DPC, and a
  call the application is in, go on; strong, because a PIO command waits while the
  front end is trapped and each trap ends. The VP walks its list every frame and
  traps on each listed voice that stays idle: strong per voice, since another
  voice's trap suspends the walk. Nothing makes the application call, or a voice
  come to its end.
* `SgeAllocator`, `VoiceList`: a loop that can go on does; nothing waits in it.
* `DriverLifecycle`: a call under way goes on, and AC97 leaves its reset, which is
  what the code waits for without a limit.
* `PlaybackOffset`: the VP takes up a new voice that is on and not paused within a
  frame, and the call's own steps follow. Of a voice paused or turned off before that,
  nothing is assumed.
* `StreamOrder`: main polls for ever, a queued DPC runs, a loaded SSL ends. There is
  no fairness on running dry, which may happen at any time.

### What StopRace shows

Stop tests the state (`audio_voice.c:256`); the DPC retires the voice; Stop writes
NX_STOPPING (263). The voice is untracked and will never be STOPPED: Start silently
does nothing, Submit and SetFormat fail, Destroy waits its whole timeout. Testing
after raising would close it. `OffVoiceIsRetired` holds beside it because it speaks
of listed voices.

### Known disagreements with the documents

Met while modelling, and not runs of their own. The statements in the first table
are definitions of the module; adding the definition as an INVARIANT to the run's
cfg (`PlaysInOrder` is there already), with the change named, gives the
counterexample.

| Statement | Add to | What happens |
|---|---|---|
| `NoCompletionLost` | StreamOne | apu_isr may queue an idle voice after apu_dpc's scan has passed its notifiers and before the same run drains the active list (lines 310-320). The drain un-tracks the voice, so the DPC run that apu_isr queued finds it untracked (line 284) and neither releases its buffers nor calls its callback. The comment at src/audio_core.c:238 says "We always defer to the DPC because FEVINTSTS is not guaranteed to fire (e.g., if we manually stop a voice), but we still need the DPC to run to free buffers." |
| `PlayingBufferLocked` | Classes | apu_dpc unlocks the pages of a completed buffer whether or not the voice streams (line 296), but only a streaming voice gives the buffer up (line 298); nxAudioVoiceStart replays a static buffer without locking it again. src/include/nxaudio.h:199 says "The buffer is effectively owned by the hardware until you either call nxAudioVoiceDestroy() or you submit another buffer to replace it. You can replay the same buffer many times with minimal overhead." On the replay the VP reads pages no lock holds. |
| `DestroyedIsGone` | StreamOne, `SlowHardware = TRUE` | nxAudioVoiceDestroy leaves its wait after 100 ms whatever the state (line 314) and frees slots, scatter-gather entries and index; the voice stays in g_tracked_voices and on the VP's list, so apu_isr and apu_dpc use the pointer of a destroyed object. The comment at src/audio_voice.c:312 says "Ensure the voice has truly stopped before freeing resources". |
| `EntriesComeBack` | SgePoolRefined | src/include/nxaudio.h:184 says of nxAudioShutdown "Shuts down the audio subsystem and releases associated resources"; it and nxAudioInit leave the static g_sge_bitmap (src/audio_buffer.c:328) alone, so the entries of voices not destroyed before the shutdown stay taken, and a later nxAudioInit starts with fewer entries. |
| `OffsetInBytes` | Offsets | The code returns the CBO field, a number of blocks, which nxAudioVoiceSetPlaybackOffset divides its bytes down to before it writes it; src/include/nxaudio.h:420 says "@return The playback offset in bytes." |
| `PlaysInOrder` | Stream, `KeepsTurn = TRUE` | nxAudioBufferQueue takes the lowest free slot; when both sides have run out and the voice processor, taken to keep to the "dual buffer ping pong" of src/audio_voice.c:566, is at side B, the first buffer queued goes to A and is played second. src/include/nxaudio.h:206-208 says "Queues an audio buffer to a streaming voice's playback queue. You can queue up to two buffers. When the buffer is complete the callback set by nxAudioBufferSetCallback() will be called, and the other queued buffer will start playing." |

The others are visible in the model's actions; the properties that hold leave them
out by a condition that their comments state.

| Module | What happens |
|---|---|
| `VoiceRegisters` | A setter selects the current voice and writes its registers at PASSIVE_LEVEL; a buffer callback that runs from apu_dpc in between and calls nxAudioBufferQueue leaves its own voice selected and the group unlocked, and the rest of the setter writes another voice. include/nxaudio.h:220-221 says "It is safe to call nxAudioBufferQueue() from within the callback to double-buffer audio". |
| `VoiceRegisters` | A setter waits once for room for all its writes; a callback that queues a buffer between that wait and the writes uses the room up. include/nxaudio.h:220-221 says "It is safe to call nxAudioBufferQueue() from within the callback to double-buffer audio". |
| `VoiceRegisters` | nxAudioVoiceSetFormat may move a stopped voice to the other class of indices; the buffer submitted before is not written at the new index, yet nxAudioVoiceStart accepts the voice and plays whatever base is there. include/nxaudio.h:199-203 says the submitted buffer is the voice's until it is destroyed or another buffer replaces it, and "You can replay the same buffer many times". |
| `VoiceRegisters` | nxAudioVoiceSetLooping is accepted before the first buffer is queued and nxAudioBufferQueue keeps LOOP in cfg_fmt: the streaming voice plays with LOOP set. src/audio_voice.c:508 says "Looping is only supported on static buffers". |
| `SslSplit` | max_bytes_per_ssl allows 65535 blocks, but an ADPCM block counts 64 samples: more than 1023 contiguous ADPCM blocks fail "assert(block_samples <= 65535)" (src/audio_buffer.c:120), and without assertions the length field is cut to 16 bits. The comment at src/audio_buffer.c:94 says "Each SSL entry can be up to 65535 samples". |
| `SslSplit` | When the contiguous piece left holds no whole block (an ADPCM block of 36 bytes across a page end, the next page elsewhere), the loop breaks and the call returns true with the rest of the buffer not in the list. src/include/nxaudio.h:213 says it returns "true if the buffer was successfully queued, false otherwise". |
| `PlaybackOffset` | nxAudioVoiceSetPlaybackOffset waits for NEW_VOICE to be cleared in every state but NX_STOPPED (src/audio_voice.c:773-778). A voice paused or stopped between nxAudioVoiceStart and the VP's next frame still has it, and if the VP does not take such a voice up the call never returns; a paused one waits until somebody else starts it, which the one thread that spins cannot. src/include/nxaudio.h:428 says it returns "true if the offset was successfully set, false otherwise". |
| `VoiceParameters` | The code puts the envelope times into 12 bit fields (src/audio_apu_regs.h:298-303) and cuts the rest off, so that 4096 units become 0; src/include/nxaudio.h:115 says "Duration of the attack phase, in 512-sample units (0-8191)", and the same of the other times. |
| `VoiceParameters` | The code refuses every call on a voice that is not stopped; src/include/nxaudio.h:336-337 says "The amplitude envelope can only be enabled/disabled on a stopped voice. But it's contents can be modified on a running voice." |
| `VoiceParameters` | The code puts the front gain in slots 0 and 1 and the rear gain in slots 2 and 3; for a 3D voice src/audio_voice.c:817-819 says "vol1 -> hrtf_submix[1] = mixbin 8 (back-left,   left ear,  rear attenuation)" and "vol2 -> hrtf_submix[2] = mixbin 7 (front-right, right ear, front attenuation)", so the front-right submix gets the rear gain and the back-left one the front gain. |
| `HrtfGrid` | For a direction directly above the code sets the azimuth index to 0 but still exchanges the two filters, and the sign of the delay, when the azimuth given is negative; src/audio_core.c:699 says "At elevation 90 (directly above), azimuth is meaningless". |
| `StreamOrder` | buffers_completed-- in main races with buffers_completed++ in the callback at DISPATCH_LEVEL (src/example/stream_test.c:63); volatile does not make it one instruction, and where it is a load and a store a completion is lost, the buffers run dry and the file is not played again, which src/example/stream_test.c:73 says with "Loop back". |
| `HrtfGrid` | Elevations below −40 degrees are clamped to the lowest row of the table, although `nxaudio.h` gives the range as −90 to 90. |

The positive sides are checked: a completed buffer *of a tracked voice* is always
about to be seen (`CompletionPending`); registers follow the calls when callbacks do
not come in the middle of a setter; whatever is lost of the SGEs is never given
out twice; and so on.

## 4. Proofs

`tlapm` checks these for every value of the constants allowed by the modules'
assumptions; each is an invariant or a step simulation, proved action by action.

**VoiceControl** (`VoiceControlProofs`, assuming `SlowHardware = FALSE`; the table above
shows the assumption is needed). The invariant is `IInv`. None of its parts is
inductive alone, and they hold each other up:

* `TrackedSound` needs Destroy not to free a tracked voice: `CallSound`
  records that at the steps after the wait the voice is no longer tracked.
* That Start finds a stopped voice untracked and unlisted is the contrapositive
  of `TrackedSound` and `ListedIsTracked`; between its two halves `CallSound`
  says the voice is tracked, not yet listed and not queued, so that no idle trap
  and no drain can hit it.
* `ListedIsTracked` survives a drain because a queued entry has left the list
  (`IdleEntriesSound`), and an entry is not queued twice because only a listed
  voice traps (`LevelsSound`), and the trap takes it off the list.
* `IndexOwnership` makes `tracked[index[v]]` mean v.
* `IdleVoicesGetDrained` needs every push to queue the DPC, and the DPC to end
  only with an empty list.

There is one lemma per action, a lemma `Frame` for the actions that leave the
driver's tables alone. `IdleEntryAlwaysAvailable` adds a counting argument: the
queued voices and the trapped one are distinct indices, so fewer than `NumHw` entries
are in use when the ISR needs one (lemma `EntryAvailable`, a pigeonhole over the
active list).

**Buffers** (in `VoiceControlProofs` too, further assuming `StaticVoices = {}`: of static
voices the statements are false, see the row of `PlayingBufferLocked` above). `CompletionsSeen`
rests on `BuffersInv`: a notifier that fires in the middle of a Queue has a DPC under
way or due (`QueueSound`), a slot that holds a buffer is a streaming voice's and the
slots Destroy has emptied stay empty (`HeldSound`), and a callback is for a created
voice that is not being freed (`CallbackSound`).
`PageLocksKept` counts: the lock count of a buffer is the number of slots that hold
it, plus the one of a Queue in progress.

**SgeAllocator.** The invariant is `PoolInv`. Its part `SgeInv` says what is taken:
what is left of the run being marked is free, what is marked belongs to nobody else,
a run being extended is free up to the end of its word, and the part of a range
not yet cleared is still marked. `NoEntryShared` needs nothing else, shutdowns
included. `EntriesAccounted` with "lost entries stay marked" gives `NoEntryLost`.
`SearchComplete` says what the search has passed over: no entry before the word
under way could have been granted, a run that is extended starts at the first free
entry of its word and is too short in it. With it each step of the loops is a
step of `SgePool` or a stutter (`SearchImplementsPool`). The argument turns on the
words a run fills completely: they have their first free run at their first bit,
which is a part of the run and shorter than it.

**VoiceList.** `IInv` has the links describe `order` and CVL and NVL stand on listed
voices or the end; the search of the ISR stands on the list before the idle voice.
`ListsAreImplemented` is the step simulation of `ProcessingList` by the links: that
following them from a top meets the voices of `order` and ends (`WalkedIsOrder`) is
induction along the list, after which VOICE_ON and the surgery of apu_isr are each one
step of it and every other step leaves the links' walk alone. `NoTurnLost` is the
action property: CVL, where it stands on the voice taken out, goes on to that voice's
link as it was read on entry, and otherwise stays, so that the voices from CVL on are
the same but for that one. It is stated through CVL; of NVL, `PointersStayListed` says that it
stands on a listed voice or the end, and nothing says that it wraps to the top.

**DriverLifecycle.** Every unit that runs, every connected handler and every block is
related to the session: registers point only at memory of this one, `OutOfMemory`
enters the shutdown with what was allocated so far, and each release follows the
stop of what used it. `SessionsApart` rests on `PendingInv` and on counting: while
handlers are connected, the active entries are as many as the tracked voices no longer
listed, so that with as many entries as voices (`LifecycleAssumption`) a listed voice
that traps finds a free one (`EntryLeft`). `ProgramIsLoaded` numbers the words of the listing by counting
(`Rank`) where the code has a position that each word advances: the invariant is
that what has been loaded is what the lines read so far say.

**VoiceRegisters** (`VoiceRegistersProofs`). The registers are only right between
calls, so that the invariant `ImageInv` looks ahead: what the writes still to come will
leave in each register (`Final`: the last of them to it, or what it holds) is what the
settings ask of it, for the voice of the call; for every other voice, the registers
are right already. That the writes reach the voice meant is `Directed`: the current
voice is that of the call, or the next write makes it so. That they find room is
`Paced`: each write is among the first `room` of the list, or no further behind a wait
than the number waited for. The local copies hold what was asked, but for
the pitch, which nxAudioVoiceSetPitch leaves out of its copy (`CopiesFollow`).
The theorems are about the applications in which, if the callback queues, the setters
wait for the voices to stop (`QuietWhenQueueing`, as all of the run's do): for others
they are false, see the first two rows of `VoiceRegisters` above. `OwnBuffer` further
asks for one class of formats and one of Queue and Submit (`OneClass`, `OneKind`). In the first kind a
callback comes only while no call of the application is under way. The number of
voices, indices, pitches, gains and targets is any, and a FIFO of 18 DWORDs, the
longest wait there is, is enough.

**VoiceParameters** (`SoundProofs`), for any set of applications, each with any
formats, pitches, gains, targets, envelopes and filters. The properties read the words
as the voice processor does; the invariant `ParametersInv` speaks of their bits instead:
those of each field are the bits of the number asked for last (`Holds`), cut to the
width. It is inductive because the fields a call replaces lie apart from the others of
their word (`PutKeeps`, `PutSets`), which is where two calls that share a word would
disturb each other. That a field which holds a number reads as it, sign included where it
has one, is arithmetic on sixteen binary digits (`Digits`). The volumes of slots 6 and 7,
split into nibbles over three words, are put together the same way. `MixbinsSound`
needs that the target entry 0 of a new voice, which the memory set to zero leaves, never
shows: the first `SetHRTFTarget` of Create fills both mixbin words. A 3D voice
has slots 0 to 3 in fixed mixbins, so only slots 4 to 7 can meet them, and these are
either silent or in mixbins of their own. `ChannelsReachTheirSpeakers` is that
a sum cut off at 4095 fits its twelve bits.

**SslSplit** (`BufferProofs`), for any tables, page size, formats and buffers of which the
assertion of `audio_buffer.c:120` holds (`PiecesCanBeCounted`: a contiguous piece has no
more samples than an entry can count; section 3 has the ADPCM buffers of which it does
not, TLC evaluates it on the run's inputs). The invariant is `SplitInv`:

* `QueueInv`: the entries made so far describe the buffer from its first byte to `va`,
  and what is left is the rest.
* `ProbeInv`: what the probe has gone over is contiguous, and ends with the buffer or at
  the end of a page. The code compares one address per page; that all between them
  follow is `RunGrows`, and for direct-mapped memory, where nothing is probed,
  `DirectRun`.
* `WriteInv`: the first `i` entries are in the table. That the window
  (`SET_CURRENT_SSL`) leads to the entry meant is `WindowShows`, that no other slot
  changes is `SslApart`: the bases of the slots are `MaxSsl` apart.
* `RangesApart`, `PagesInv`, `SubmittedInv`: the same for scatter-gather entries, where a
  byte is found from the page its entry has, counted from BUF_BASE, and EBO is the
  last whole block of the buffer (`SgesDescribe`).

Where the entries of a list end is a recursive function. What is needed of it for lists
of any length (it only grows, and an entry appended leaves the ends before it) is
induction over data without a rule of induction: the least entry of which a claim is
false does not exist (`Least`, from the well-foundedness of strict inclusion of finite
sets).

`NothingIsDropped` adds `WholeInv`: where blocks divide the pages, a list under way ends
at a block, and a probe that stopped at a page has whole blocks, so the loop is left
with less than a block. `RefusesOnlyWhenNeeded` says that the greedy choice is optimal:
`GreedyInv` is that *every* split of the buffer has at least as many cuts up to where
the list ends as the list has entries. Between two ends of the list a split has a cut,
because the piece of the split that begins before the first of them is contiguous and
has no more bytes than an entry can hold, and the list's piece is the longest such
(`EndInPiece`, `GreedyEmit`).

**PlaybackOffset** (`BufferProofs`). The comparison with EBO and the write of CBO are two
steps, and the VP moves in between. The end of the buffer, however, changes in
`BufferSubmit` only, which no thread makes while another is in the call: a checked target
stays within the buffer (`CheckedTarget`). `OffsetTypes` adds that a stopped voice is off.

**StreamOrder.** `CountInv` relates the count, main's local copy and the free sides;
`OrderInv` (assuming `KeepsTurn = FALSE`) says that the buffers come free in the order
main fills them, and gives the simulation of `PlayQueue`. Both builds of the
decrement are covered, but `EveryFreeSideCounted` speaks of the atomic one.

**HrtfGrid** (`SoundProofs`). An entry has the registers of the direction it was last given (`FilledInv`);
the rest is arithmetic about these registers, for every direction in quarters of a
degree, inside the ranges or not. A direction has a grid point (`Column`, `Row`), the
rounding of which is at most half a step away (`RowNearest`, `ColumnNearest`); the grid
point has a pair of filters (`FilledFrom`), and from the registers of a pair the taps,
the filters and the delay are read back (`EntryReads`). `MirrorImages` is that exchanging
the pair and the sign of the delay is exchanging the registers (`SwappedRegisters`).

Only model-checked: liveness (`OffVoiceIsRetired`, `CompletedIsReturned`, the
`CallReturns`, `TrapReturns`, `KeepsPlaying`, `SetOffsetReturns`), which the prover
does not reach, and the violation of StopRace. Every invariant and every action property
that a run checks is a theorem, under the hypotheses named above.

## 5. Not modelled, and why

* `example/midi_player.c` and `example/spatial_test.c`: clients with no order of
  their own below the calls they make. `tsf.h`, `tml.h`: third-party decoders.
* `passthrough.a56`, the DSP program, and the AC97 controller beyond its reset and
  run bits: other machines' code. The parsing of the program is modelled by what
  a line contributes.
* Coefficients of `audio_hrtf.h` (only delays and positions), and floating-point
  arithmetic: logarithms and pitches are taken as the values they yield.
* Traps other than the idle voice: the code prints and halts.
  `sync_vp_with_notification` (`audio_core.c` 62–74): nothing calls it.
* Several application threads: the driver has no lock between threads. A callback
  that calls anything but Queue on its own voice.
* The length of time: the 100 ms of Destroy is "long enough" or not
  (`SlowHardware`), a frame is "later".
* The modules are not composed into one: `VoiceControl` takes the lists as sets
  (`VoiceList` shows the pointers implement them), a PIO group as one step
  (`VoiceRegisters` has it write by write), and buffers without bytes (`SslSplit`).

## 6. What is left

`midi_player.c`: which note a stolen voice plays, against `VoiceControl`'s calls.
