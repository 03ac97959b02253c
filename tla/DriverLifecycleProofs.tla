------------------------- MODULE DriverLifecycleProofs ----------------------
(***************************************************************************)
(* What nxAudioInit and nxAudioShutdown keep, for every number of voices,  *)
(* idle entries and sessions, and for every listing: the type of the state,*)
(* the memory of the units that run, the memory of the two handlers, no    *)
(* leak, the idle entries, the separation of the sessions, and the program *)
(* the DSP runs.                                                           *)
(* The argument is where the call is: memory changes at the steps "alloc"  *)
(* and "free" only, and at neither a unit runs or a handler is connected.  *)
(***************************************************************************)
EXTENDS DriverLifecycle, FiniteSetTheorems, TLAPS

Names == {"voices", "ssls", "notifiers", "gp_sges", "vp_sges", "gp_fifos",
          "ac97_buffer", "gp_pmem", "hrtf_targets", "hrtf_currents"}

\* The steps at which every block is allocated.
Bringing == {"addresses", "codec", "pcm", "spdif", "program", "interrupt", "start"}
Stopping == {"shutdown", "disconnect", "gp off", "free"}
Session == pc = "idle" /\ up
Opened == pc \in Bringing \/ Session

Places ==
  /\ pc \in {"idle", "alloc"} \cup Bringing \cup Stopping
  /\ pc = "alloc" => k \in 1 .. 11
  /\ pc = "free" => k \in 1 .. 11
  /\ inits = 0 => pc = "idle"
UpIsIdle == up => pc = "idle" /\ inits # 0

\* The pointers are exactly the allocated memory.
HeapIsPointers ==
  /\ \A b \in Names : ptr[b] # 0 => <<b, ptr[b]>> \in heap
  /\ \A c \in heap : \E b \in Names : c = <<b, ptr[b]>> /\ ptr[b] # 0
PointersAt ==
  /\ pc = "alloc" => \A j \in 1 .. 10 : ptr[Blocks[j]] = IF j < k THEN inits ELSE 0
  /\ Opened => \A b \in Names : ptr[b] = inits
  /\ Opened => inits > 0
  /\ pc = "free" => \A j \in 1 .. 10 : j < k => ptr[FreeOrder[j]] = 0
  /\ pc = "idle" /\ ~up => \A b \in Names : ptr[b] = 0

\* What the hardware was given is what the pointers say.
Known(b) == given[b] = ptr[b] /\ ptr[b] # 0
AddressesAt ==
  /\ pc \in Bringing \ {"addresses"} \/ Session =>
       \A b \in Addressed \cup {"gp_fifos"} : Known(b)
  /\ pc \in {"program", "interrupt", "start"} \/ Session => Known("ac97_buffer")
  /\ pc \in {"interrupt", "start"} \/ Session => Known("gp_pmem")

Running97 == pcm = "running" \/ spdif = "running"
UnitsAt ==
  /\ sectl = 15 => (Session \/ pc = "shutdown") /\ \A b \in Reached("VP") : Known(b)
  /\ Running97 => (Session \/ pc = "shutdown") /\ Known("ac97_buffer")
  /\ gp = "running" =>
       /\ Session \/ pc \in {"interrupt", "start", "shutdown", "disconnect", "gp off"}
       /\ \A b \in Reached("GP") : Known(b)
HandlersAt ==
  /\ dpc => connected
  /\ connected => /\ Session \/ pc \in {"start", "shutdown", "disconnect"}
                  /\ ptr["voices"] # 0 /\ ptr["notifiers"] # 0

\* The part of the invariant about memory, and the part about the voices.
MemoryInv == /\ Places /\ UpIsIdle /\ HeapIsPointers /\ PointersAt
             /\ AddressesAt /\ UnitsAt /\ HandlersAt
SessionInv ==
  /\ pc \in {"alloc"} \cup Bringing => active = {}
  /\ pc \in Bringing => listed = {} /\ tracked = {} /\ taken = {}
PendingInv ==
  /\ NothingPending
  /\ pc \in Bringing => trapped = {}
  /\ sectl = 15 => trapped \subseteq listed
LifecycleInv == TypeOK /\ MemoryInv

-----------------------------------------------------------------------------
(* The two orders name each block once. *)

LEMMA BlockOrder ==
  /\ BlockNames = Names
  /\ Len(Blocks) = 10 /\ Len(FreeOrder) = 10
  /\ \A j \in 1 .. 10 : Blocks[j] \in Names /\ FreeOrder[j] \in Names
  /\ \A i, j \in 1 .. 10 : Blocks[i] = Blocks[j] => i = j
  /\ \A b \in Names : \E j \in 1 .. 10 : b = Blocks[j]
  /\ \A b \in Names : \E j \in 1 .. 10 : b = FreeOrder[j]
<1>1. Len(Blocks) = 10 /\ Len(FreeOrder) = 10
  BY DEF Blocks, FreeOrder
<1>2. DOMAIN Blocks = 1 .. 10
  BY DEF Blocks
<1>3. \A j \in 1 .. 10 : Blocks[j] \in Names
  BY DEF Blocks, Names
<1>4. \A j \in 1 .. 10 : FreeOrder[j] \in Names
  BY DEF FreeOrder, Names
<1>5. \A b \in Names : \E j \in 1 .. 10 : b = Blocks[j]
  BY DEF Blocks, Names
<1>6. \A b \in Names : \E j \in 1 .. 10 : b = FreeOrder[j]
  BY DEF FreeOrder, Names
<1>7. \A i, j \in 1 .. 10 : Blocks[i] = Blocks[j] => i = j
  BY DEF Blocks
<1>8. BlockNames = Names
  BY <1>2, <1>3, <1>5 DEF BlockNames
<1> QED BY <1>1, <1>3, <1>4, <1>5, <1>6, <1>7, <1>8

LEMMA BlockRange == 0 .. Len(Blocks) + 1 = 0 .. 11
BY DEF Blocks

LEMMA ReachedBlocks ==
  /\ Reached("VP") = {"voices", "ssls", "notifiers", "vp_sges", "hrtf_targets",
                      "hrtf_currents"}
  /\ Reached("GP") = {"gp_sges", "gp_fifos", "gp_pmem", "ac97_buffer"}
  /\ Reached("AC97") = {"ac97_buffer"}
  /\ Addressed = Reached("VP") \cup {"gp_sges"}
BY DEF Reached, Addressed

-----------------------------------------------------------------------------
(* Type correctness. *)

LEMMA TypeInit == Init => TypeOK
<1> SUFFICES ASSUME Init PROVE TypeOK
  OBVIOUS
<1>1. inits \in 0 .. MaxInits /\ k \in 0 .. Len(Blocks) + 1
  BY LifecycleAssumption, BlockOrder DEF Init
<1>2. ptr \in [BlockNames -> 0 .. MaxInits] /\ given \in [BlockNames -> 0 .. MaxInits]
  BY LifecycleAssumption DEF Init, NoBlocks
<1>3. codec \in BOOLEAN /\ connected \in BOOLEAN /\ dpc \in BOOLEAN /\ up \in BOOLEAN
  BY DEF Init
<1>4. {codec, connected, dpc, up} \subseteq BOOLEAN
  BY <1>3, Zenon
<1> QED BY <1>1, <1>2, <1>4 DEF Init, TypeOK

\* The conjuncts of the type invariant that only constants and copies touch.
TypeMem ==
  /\ heap \subseteq BlockNames \X (1 .. MaxInits)
  /\ ptr \in [BlockNames -> 0 .. MaxInits] /\ given \in [BlockNames -> 0 .. MaxInits]
  /\ inits \in 0 .. MaxInits /\ k \in 0 .. Len(Blocks) + 1
TypeVoices ==
  /\ taken \subseteq Voices /\ tracked \subseteq Voices /\ listed \subseteq Voices
  /\ free \subseteq Entries /\ active \subseteq Entries
  /\ ists \subseteq {"FET", "FEV"} /\ trapped \subseteq Voices
TypeUnits ==
  /\ ien \in {0, 1} /\ sectl \in {0, 7, 15} /\ gp \in {"reset", "powered", "running"}
  /\ pcm \in {"stopped", "reset", "running"} /\ spdif \in {"stopped", "reset", "running"}
TypeFlags ==
  /\ codec \in BOOLEAN /\ connected \in BOOLEAN /\ dpc \in BOOLEAN /\ up \in BOOLEAN

LEMMA TypeParts == TypeOK <=> TypeMem /\ TypeVoices /\ TypeUnits /\ TypeFlags
<1>1. {codec, connected, dpc, up} \subseteq BOOLEAN <=> TypeFlags
  BY Zenon DEF TypeFlags
<1> QED BY <1>1, Zenon DEF TypeOK, TypeMem, TypeVoices, TypeUnits

LEMMA TypeMemStep == TypeMem /\ Places /\ PointersAt /\ [Next]_vars => TypeMem'
<1> SUFFICES ASSUME TypeMem, Places, PointersAt, [Next]_vars PROVE TypeMem'
  OBVIOUS
<1> USE LifecycleAssumption
<1>1. CASE InitBegin
  BY <1>1 DEF InitBegin, TypeMem, Step, mem
<1>2. CASE Allocate
  <2>0. k \in 1 .. 10 /\ inits # 0 /\ inits \in 0 .. MaxInits
    <3>1. pc = "alloc" /\ k <= 10
      BY <1>2, BlockOrder DEF Allocate
    <3>2. k \in 1 .. 11 /\ inits # 0
      BY <3>1 DEF Places
    <3> QED BY <3>1, <3>2 DEF TypeMem
  <2>1. inits \in 1 .. MaxInits /\ Blocks[k] \in BlockNames
    BY <2>0, BlockOrder
  <2>2. ptr' \in [BlockNames -> 0 .. MaxInits]
    BY <1>2, <2>1 DEF Allocate, TypeMem
  <2>3. heap' \subseteq BlockNames \X (1 .. MaxInits)
    BY <1>2, <2>1 DEF Allocate, TypeMem
  <2>4. k' \in 0 .. Len(Blocks) + 1
    <3>1. k' \in 0 .. 11
      BY <1>2, <2>0 DEF Allocate
    <3> QED BY <3>1, BlockRange, Zenon
  <2>5. given' = given /\ inits' = inits
    BY <1>2 DEF Allocate
  <2> QED BY <2>1, <2>2, <2>3, <2>4, <2>5 DEF TypeMem
<1>3. CASE OutOfMemory \/ Prepare
  BY <1>3 DEF OutOfMemory, Prepare, TypeMem, mem
<1>4. CASE GiveAddresses
  <2>1. given' \in [BlockNames -> 0 .. MaxInits]
    BY <1>4 DEF GiveAddresses, TypeMem
  <2> QED BY <1>4, <2>1 DEF GiveAddresses, TypeMem
<1>5. CASE CodecReady \/ PcmReset
  BY <1>5 DEF CodecReady, PcmReset, TypeMem, mem
<1>6. CASE SpdifReset \/ StartGp
  <2>1. ptr["ac97_buffer"] \in 0 .. MaxInits /\ ptr["gp_pmem"] \in 0 .. MaxInits
    BY BlockOrder DEF TypeMem, Names
  <2>2. given' \in [BlockNames -> 0 .. MaxInits]
    BY <1>6, <2>1 DEF SpdifReset, StartGp, TypeMem
  <2> QED BY <1>6, <2>2 DEF SpdifReset, StartGp, TypeMem
<1>7. CASE ParseLine
  BY <1>7 DEF ParseLine, TypeMem
<1>8. CASE Connect \/ Start \/ ShutdownBegin \/ Quiet \/ Disconnect
  BY <1>8 DEF Connect, Start, ShutdownBegin, Quiet, Disconnect, TypeMem, mem
<1>9. CASE StopGp
  <2>1. k' \in 0 .. Len(Blocks) + 1
    <3>1. k' = 1
      BY <1>9 DEF StopGp
    <3>2. k' \in 0 .. 11
      BY <3>1
    <3> QED BY <3>2, BlockRange, Zenon
  <2> QED BY <1>9, <2>1 DEF StopGp, TypeMem, mem
<1>9b. CASE ShutdownDone
  BY <1>9b DEF ShutdownDone, TypeMem, mem
<1>10. CASE FreeBlock
  <2>1. k \in 1 .. 10
    <3>1. pc = "free" /\ k <= 10
      BY <1>10, BlockOrder DEF FreeBlock
    <3> QED BY <3>1 DEF Places
  <2>2. ptr' \in [BlockNames -> 0 .. MaxInits]
    BY <1>10, <2>1 DEF FreeBlock, TypeMem
  <2>3. heap' \subseteq heap /\ k' = k + 1 /\ given' = given /\ inits' = inits
    BY <1>10 DEF FreeBlock
  <2>4. k' \in 0 .. 11
    BY <2>1, <2>3
  <2>5. k' \in 0 .. Len(Blocks) + 1
    BY <2>4, BlockRange, Zenon
  <2> QED BY <2>1, <2>2, <2>3, <2>5 DEF TypeMem
<1>11. CASE Event \/ Isr \/ Dpc \/ Ac97
  BY <1>11 DEF Event, Isr, Unlist, Dpc, Ac97, TypeMem, mem
<1>12. CASE \E v \in Voices : Play(v) \/ Destroy(v) \/ Trap(v)
  BY <1>12 DEF Play, Destroy, Trap, TypeMem, mem
<1>13. CASE UNCHANGED vars
  BY <1>13 DEF vars, TypeMem, mem
<1> QED BY <1>1, <1>2, <1>3, <1>4, <1>5, <1>6, <1>7, <1>8, <1>9, <1>9b, <1>10, <1>11, <1>12,
           <1>13 DEF Next, Driver

LEMMA TypeVoicesStep == TypeVoices /\ [Next]_vars => TypeVoices'
<1> SUFFICES ASSUME TypeVoices, [Next]_vars PROVE TypeVoices'
  OBVIOUS
<1>1. CASE InitBegin
  BY <1>1 DEF InitBegin, ListsReset, TypeVoices, voices, pend
<1>2. CASE Allocate \/ OutOfMemory \/ Prepare \/ GiveAddresses \/ CodecReady \/ PcmReset
  BY <1>2 DEF Allocate, OutOfMemory, Prepare, ListsEmptied, GiveAddresses, CodecReady,
              PcmReset, TypeVoices, voices, irq, pend
<1>3. CASE SpdifReset \/ ParseLine \/ StartGp \/ Connect \/ Start
  BY <1>3 DEF SpdifReset, ParseLine, StartGp, Connect, PendingCleared, Start, TypeVoices, voices, irq, pend
<1>4. CASE ShutdownBegin \/ Quiet \/ Disconnect \/ StopGp \/ FreeBlock \/ ShutdownDone
  BY <1>4 DEF ShutdownBegin, Quiet, Disconnect, StopGp, FreeBlock, ShutdownDone,
              TypeVoices, voices, irq, pend
<1>5. CASE Isr
  BY <1>5 DEF Isr, Unlist, TypeVoices
<1>6. CASE Event \/ Dpc \/ Ac97
  BY <1>6 DEF Event, Dpc, Ac97, TypeVoices, voices, irq, pend
<1>7. CASE \E v \in Voices : Play(v) \/ Destroy(v)
  BY <1>7 DEF Play, Destroy, TypeVoices, irq, pend
<1>7b. CASE \E v \in Voices : Trap(v)
  BY <1>7b DEF Trap, TypeVoices, voices
<1>8. CASE UNCHANGED vars
  BY <1>8 DEF vars, TypeVoices, voices, irq, pend
<1> QED BY <1>1, <1>2, <1>3, <1>4, <1>5, <1>6, <1>7, <1>7b, <1>8 DEF Next, Driver

LEMMA TypeUnitsStep == TypeUnits /\ [Next]_vars => TypeUnits'
<1> SUFFICES ASSUME TypeUnits, [Next]_vars PROVE TypeUnits'
  OBVIOUS
<1>1. CASE InitBegin \/ Allocate \/ OutOfMemory \/ Prepare \/ GiveAddresses \/ CodecReady
  BY <1>1 DEF InitBegin, Allocate, OutOfMemory, Prepare, GiveAddresses, CodecReady,
              TypeUnits, apu, ac97
<1>2. CASE PcmReset \/ SpdifReset \/ ParseLine \/ StartGp \/ Connect \/ Start
  BY <1>2 DEF PcmReset, SpdifReset, ParseLine, StartGp, Connect, Start,
              TypeUnits, apu, ac97
<1>3. CASE ShutdownBegin \/ Quiet \/ Disconnect \/ StopGp \/ FreeBlock \/ ShutdownDone
  BY <1>3 DEF ShutdownBegin, Quiet, Disconnect, StopGp, GpReset, FreeBlock, ShutdownDone,
              TypeUnits, apu, ac97
<1>4. CASE Event \/ Isr \/ Dpc \/ Ac97
  BY <1>4 DEF Event, Isr, Unlist, Dpc, Ac97, TypeUnits, apu, ac97
<1>5. CASE \E v \in Voices : Play(v) \/ Destroy(v) \/ Trap(v)
  BY <1>5 DEF Play, Destroy, Trap, TypeUnits, apu, ac97
<1>6. CASE UNCHANGED vars
  BY <1>6 DEF vars, TypeUnits, apu, ac97
<1> QED BY <1>1, <1>2, <1>3, <1>4, <1>5, <1>6 DEF Next, Driver

LEMMA TypeFlagsStep == TypeFlags /\ [Next]_vars => TypeFlags'
<1> SUFFICES ASSUME TypeFlags, [Next]_vars PROVE TypeFlags'
  OBVIOUS
<1>1. CASE InitBegin \/ Allocate \/ OutOfMemory \/ Prepare \/ GiveAddresses \/ CodecReady
  BY <1>1, Zenon DEF InitBegin, Allocate, OutOfMemory, Prepare, GiveAddresses, CodecReady,
              TypeFlags, irq, ac97
<1>2. CASE PcmReset \/ SpdifReset \/ ParseLine \/ StartGp \/ Connect \/ Start
  BY <1>2, Zenon DEF PcmReset, SpdifReset, ParseLine, StartGp, Connect, Start,
              TypeFlags, irq, ac97
<1>3. CASE ShutdownBegin \/ Quiet \/ Disconnect \/ StopGp \/ FreeBlock \/ ShutdownDone
  BY <1>3, Zenon DEF ShutdownBegin, Quiet, Disconnect, DpcRemoved, StopGp, FreeBlock,
              ShutdownDone, TypeFlags, irq, ac97
<1>4. CASE Event \/ Isr \/ Dpc \/ Ac97
  BY <1>4, Zenon DEF Event, Isr, Unlist, Dpc, Ac97, TypeFlags, irq, ac97
<1>5. CASE \E v \in Voices : Play(v) \/ Destroy(v) \/ Trap(v)
  BY <1>5, Zenon DEF Play, Destroy, Trap, TypeFlags, irq, ac97
<1>6. CASE UNCHANGED vars
  BY <1>6, Zenon DEF vars, TypeFlags, irq, ac97
<1> QED BY <1>1, <1>2, <1>3, <1>4, <1>5, <1>6, Zenon DEF Next, Driver

-----------------------------------------------------------------------------
(* Where the call is. *)

LEMMA PlacesStep == TypeMem /\ Places /\ UpIsIdle /\ [Next]_vars => Places'
<1> SUFFICES ASSUME TypeMem, Places, UpIsIdle, [Next]_vars PROVE Places'
  OBVIOUS
<1> USE DEF Bringing, Stopping, Step
<1>1. CASE InitBegin
  <2>1. inits' # 0
    BY <1>1, LifecycleAssumption DEF InitBegin, TypeMem
  <2> QED BY <1>1, <2>1 DEF InitBegin, Places
<1>2. CASE Allocate \/ FreeBlock
  <2>1. k <= 10 /\ k' = k + 1 /\ pc' = pc /\ inits' = inits
    BY <1>2, BlockOrder DEF Allocate, FreeBlock
  <2>2. pc = "alloc" \/ pc = "free"
    BY <1>2 DEF Places, Allocate, FreeBlock
  <2>3. k \in 1 .. 11
    BY <2>2 DEF Places
  <2>3b. inits # 0
    BY <2>2 DEF Places
  <2>4. k' \in 1 .. 11 /\ inits' # 0 /\ pc' \in {"alloc", "free"}
    BY <2>1, <2>2, <2>3, <2>3b
  <2> QED BY <2>4 DEF Places
<1>3. CASE OutOfMemory \/ Prepare \/ GiveAddresses \/ CodecReady \/ PcmReset \/ SpdifReset
  BY <1>3 DEF Places, OutOfMemory, Prepare, GiveAddresses, CodecReady, PcmReset, SpdifReset
<1>4. CASE ParseLine
  BY <1>4 DEF Places, ParseLine
<1>4b. CASE StartGp \/ Connect \/ Start
  BY <1>4b DEF Places, StartGp, Connect, Start
<1>5. CASE ShutdownBegin
  BY <1>5, Zenon DEF Places, ShutdownBegin, UpIsIdle
<1>5a. CASE StopGp
  <2>1. inits' = inits /\ pc = "gp off" /\ pc' = "free"
    BY <1>5a DEF StopGp
  <2>2. k' \in 1 .. 11
    <3>1. k' = 1
      BY <1>5a DEF StopGp
    <3> QED BY <3>1
  <2>3. inits # 0
    BY <2>1 DEF Places
  <2> QED BY <2>1, <2>2, <2>3 DEF Places
<1>5b. CASE Quiet \/ Disconnect \/ ShutdownDone
  BY <1>5b DEF Places, Quiet, Disconnect, ShutdownDone
<1>6. CASE Event \/ Isr \/ Dpc \/ Ac97
  BY <1>6 DEF Places, Event, Isr, Unlist, Dpc, Ac97
<1>7. CASE \E v \in Voices : Play(v) \/ Destroy(v) \/ Trap(v)
  BY <1>7 DEF Places, Play, Destroy, Trap
<1>8. CASE UNCHANGED vars
  BY <1>8 DEF Places, vars
<1> QED BY <1>1, <1>2, <1>3, <1>4, <1>4b, <1>5a, <1>5b, <1>5, <1>6, <1>7, <1>8 DEF Next, Driver

LEMMA UpStep == Places /\ UpIsIdle /\ [Next]_vars => UpIsIdle'
<1> SUFFICES ASSUME Places, UpIsIdle, [Next]_vars PROVE UpIsIdle'
  OBVIOUS
<1> USE DEF UpIsIdle, Step
<1>1. CASE InitBegin \/ Allocate \/ OutOfMemory \/ Prepare \/ GiveAddresses \/ CodecReady
  BY <1>1 DEF InitBegin, Allocate, OutOfMemory, Prepare, GiveAddresses, CodecReady
<1>2. CASE PcmReset \/ SpdifReset \/ ParseLine \/ StartGp \/ Connect
  BY <1>2 DEF PcmReset, SpdifReset, ParseLine, StartGp, Connect
<1>2b. CASE Start
  BY <1>2b DEF Start, Places
<1>3. CASE ShutdownBegin \/ Quiet \/ Disconnect \/ StopGp \/ FreeBlock \/ ShutdownDone
  BY <1>3 DEF ShutdownBegin, Quiet, Disconnect, StopGp, FreeBlock, ShutdownDone
<1>4. CASE Event \/ Isr \/ Dpc \/ Ac97
  BY <1>4 DEF Event, Isr, Unlist, Dpc, Ac97
<1>5. CASE \E v \in Voices : Play(v) \/ Destroy(v) \/ Trap(v)
  BY <1>5 DEF Play, Destroy, Trap
<1>6. CASE UNCHANGED vars
  BY <1>6 DEF vars
<1> QED BY <1>1, <1>2, <1>2b, <1>3, <1>4, <1>5, <1>6 DEF Next, Driver

-----------------------------------------------------------------------------
(* The memory: it changes at Allocate and FreeBlock only. *)

LEMMA MemorySteps ==
  [Next]_vars => Allocate \/ FreeBlock \/ UNCHANGED <<heap, ptr>>
<1> SUFFICES ASSUME [Next]_vars PROVE Allocate \/ FreeBlock \/ UNCHANGED <<heap, ptr>>
  OBVIOUS
<1>1. CASE InitBegin \/ OutOfMemory \/ Prepare \/ GiveAddresses \/ CodecReady
  BY <1>1 DEF InitBegin, OutOfMemory, Prepare, GiveAddresses, CodecReady, mem
<1>2. CASE PcmReset \/ SpdifReset \/ ParseLine \/ StartGp \/ Connect \/ Start
  BY <1>2 DEF PcmReset, SpdifReset, ParseLine, StartGp, Connect, Start, mem
<1>3. CASE ShutdownBegin \/ Quiet \/ Disconnect \/ StopGp \/ ShutdownDone
  BY <1>3 DEF ShutdownBegin, Quiet, Disconnect, StopGp, ShutdownDone, mem
<1>4. CASE Event \/ Isr \/ Dpc \/ Ac97
  BY <1>4 DEF Event, Isr, Unlist, Dpc, Ac97, mem
<1>5. CASE \E v \in Voices : Play(v) \/ Destroy(v) \/ Trap(v)
  BY <1>5 DEF Play, Destroy, Trap, mem
<1>6. CASE UNCHANGED vars
  BY <1>6 DEF vars, mem
<1> QED BY <1>1, <1>2, <1>3, <1>4, <1>5, <1>6 DEF Next, Driver

\* The blocks that Allocate has not come to have no memory yet.
LEMMA AllocatesNull ==
  TypeMem /\ Places /\ PointersAt /\ Allocate =>
    /\ k \in 1 .. 10 /\ Blocks[k] \in Names /\ ptr[Blocks[k]] = 0
    /\ inits \in Nat \ {0}
    /\ \A b \in Names : ptr'[b] = IF b = Blocks[k] THEN inits ELSE ptr[b]
<1> SUFFICES ASSUME TypeMem, Places, PointersAt, Allocate
             PROVE  /\ k \in 1 .. 10 /\ Blocks[k] \in Names /\ ptr[Blocks[k]] = 0
                    /\ inits \in Nat \ {0}
                    /\ \A b \in Names : ptr'[b] = IF b = Blocks[k] THEN inits ELSE ptr[b]
  OBVIOUS
<1>1. pc = "alloc" /\ k <= 10
  BY BlockOrder DEF Allocate
<1>2. k \in 1 .. 10 /\ inits \in Nat \ {0}
  BY <1>1 DEF Places, TypeMem
<1>3. Blocks[k] \in Names
  BY <1>2, BlockOrder
<1>4. ptr[Blocks[k]] = 0
  BY <1>1, <1>2 DEF PointersAt
<1>5. \A b \in Names : ptr'[b] = IF b = Blocks[k] THEN inits ELSE ptr[b]
  BY BlockOrder DEF Allocate, TypeMem
<1> QED BY <1>2, <1>3, <1>4, <1>5

LEMMA FreesOne ==
  TypeMem /\ Places /\ FreeBlock =>
    /\ k \in 1 .. 10 /\ FreeOrder[k] \in Names /\ pc = "free"
    /\ \A b \in Names : ptr'[b] = IF b = FreeOrder[k] THEN 0 ELSE ptr[b]
<1> SUFFICES ASSUME TypeMem, Places, FreeBlock
             PROVE  /\ k \in 1 .. 10 /\ FreeOrder[k] \in Names /\ pc = "free"
                    /\ \A b \in Names : ptr'[b] = IF b = FreeOrder[k] THEN 0 ELSE ptr[b]
  OBVIOUS
<1>1. pc = "free" /\ k <= 10
  BY BlockOrder DEF FreeBlock
<1>2. k \in 1 .. 10
  BY <1>1 DEF Places
<1>3. FreeOrder[k] \in Names
  BY <1>2, BlockOrder
<1>4. \A b \in Names : ptr'[b] = IF b = FreeOrder[k] THEN 0 ELSE ptr[b]
  BY BlockOrder DEF FreeBlock, NotNull, TypeMem
<1> QED BY <1>1, <1>2, <1>3, <1>4

LEMMA HeapStep ==
  TypeMem /\ Places /\ PointersAt /\ HeapIsPointers /\ [Next]_vars => HeapIsPointers'
<1> SUFFICES ASSUME TypeMem, Places, PointersAt, HeapIsPointers, [Next]_vars
             PROVE  HeapIsPointers'
  OBVIOUS
<1>1. CASE Allocate
  <2>1. /\ Blocks[k] \in Names /\ ptr[Blocks[k]] = 0 /\ inits # 0
        /\ \A b \in Names : ptr'[b] = IF b = Blocks[k] THEN inits ELSE ptr[b]
        /\ heap' = heap \cup {<<Blocks[k], inits>>}
    BY <1>1, AllocatesNull DEF Allocate
  <2>2. \A b \in Names : ptr'[b] # 0 => <<b, ptr'[b]>> \in heap'
    BY <2>1 DEF HeapIsPointers
  <2>3. ASSUME NEW c \in heap' PROVE \E b \in Names : c = <<b, ptr'[b]>> /\ ptr'[b] # 0
    <3>1. CASE c = <<Blocks[k], inits>>
      BY <2>1, <3>1
    <3>2. CASE c \in heap
      <4>1. PICK b \in Names : c = <<b, ptr[b]>> /\ ptr[b] # 0
        BY <3>2 DEF HeapIsPointers
      <4>2. ptr'[b] = ptr[b]
        BY <2>1, <4>1
      <4> QED BY <4>1, <4>2
    <3> QED BY <2>1, <3>1, <3>2
  <2> QED BY <2>2, <2>3 DEF HeapIsPointers
<1>2. CASE FreeBlock
  <2>1. /\ FreeOrder[k] \in Names
        /\ \A b \in Names : ptr'[b] = IF b = FreeOrder[k] THEN 0 ELSE ptr[b]
    BY <1>2, FreesOne
  <2>2. heap' = heap \ {<<FreeOrder[k], ptr[FreeOrder[k]]>>} \/ (heap' = heap /\ ptr[FreeOrder[k]] = 0)
    BY <1>2 DEF FreeBlock, NotNull
  <2>3. ASSUME NEW b \in Names, ptr'[b] # 0 PROVE <<b, ptr'[b]>> \in heap'
    <3>1. b # FreeOrder[k] /\ ptr'[b] = ptr[b] /\ <<b, ptr[b]>> \in heap
      BY <2>1, <2>3 DEF HeapIsPointers
    <3> QED BY <2>2, <3>1
  <2>4. ASSUME NEW c \in heap' PROVE \E b \in Names : c = <<b, ptr'[b]>> /\ ptr'[b] # 0
    <3>1. PICK b \in Names : c = <<b, ptr[b]>> /\ ptr[b] # 0
      BY <2>2 DEF HeapIsPointers
    <3>2. b # FreeOrder[k]
      BY <2>2, <3>1
    <3> QED BY <2>1, <3>1, <3>2
  <2> QED BY <2>3, <2>4 DEF HeapIsPointers
<1>3. CASE UNCHANGED <<heap, ptr>>
  BY <1>3 DEF HeapIsPointers
<1> QED BY <1>1, <1>2, <1>3, MemorySteps

LEMMA PointersStep ==
  TypeMem /\ Places /\ UpIsIdle /\ PointersAt /\ [Next]_vars => PointersAt'
<1> SUFFICES ASSUME TypeMem, Places, UpIsIdle, PointersAt, [Next]_vars PROVE PointersAt'
  OBVIOUS
<1> USE DEF Opened, Session, Bringing
<1>1. CASE InitBegin
  <2>1. pc = "idle" /\ ~up /\ pc' = "alloc" /\ ptr' = ptr
    BY <1>1 DEF InitBegin, Step, mem
  <2>2. k' = 1
    BY <1>1 DEF InitBegin
  <2>3. ASSUME NEW j \in 1 .. 10 PROVE ptr'[Blocks[j]] = 0 /\ ~(j < k')
    BY <2>1, <2>2, BlockOrder DEF PointersAt
  <2> QED BY <2>1, <2>3 DEF PointersAt
<1>2. CASE Allocate
  <2>1. /\ k \in 1 .. 10
        /\ \A b \in Names : ptr'[b] = IF b = Blocks[k] THEN inits ELSE ptr[b]
    BY <1>2, AllocatesNull
  <2>2. pc = "alloc" /\ pc' = pc /\ inits' = inits /\ k' = k + 1
    BY <1>2 DEF Allocate
  <2>3. ASSUME NEW j \in 1 .. 10
        PROVE  ptr'[Blocks[j]] = IF j < k' THEN inits' ELSE 0
    <3>1. ptr[Blocks[j]] = IF j < k THEN inits ELSE 0
      BY <2>2 DEF PointersAt
    <3>2. ptr'[Blocks[j]] = IF j = k THEN inits ELSE ptr[Blocks[j]]
      BY <2>1, BlockOrder
    <3> QED BY <2>1, <2>2, <3>1, <3>2
  <2> QED BY <2>2, <2>3 DEF PointersAt
<1>3. CASE OutOfMemory
  BY <1>3 DEF OutOfMemory, PointersAt
<1>4. CASE Prepare
  <2>1. pc = "alloc" /\ pc' = "addresses" /\ ptr' = ptr /\ inits' = inits
    BY <1>4 DEF Prepare, Step, mem
  <2>2. k > 10
    BY <1>4, BlockOrder DEF Prepare
  <2>3. k \in 1 .. 11 /\ inits \in Nat \ {0}
    BY <2>1 DEF Places, TypeMem
  <2>4. \A j \in 1 .. 10 : ptr[Blocks[j]] = inits
    BY <2>1, <2>2, <2>3 DEF PointersAt
  <2>5. \A b \in Names : ptr[b] = inits
    BY <2>4, BlockOrder
  <2> QED BY <2>1, <2>3, <2>5 DEF PointersAt
<1>5. CASE GiveAddresses \/ CodecReady \/ PcmReset \/ SpdifReset
  BY <1>5 DEF GiveAddresses, CodecReady, PcmReset, SpdifReset, Step, mem, PointersAt
<1>6. CASE ParseLine \/ StartGp \/ Connect \/ Start
  BY <1>6 DEF ParseLine, StartGp, Connect, Start, Step, mem, PointersAt
<1>7. CASE ShutdownBegin \/ Quiet \/ Disconnect
  BY <1>7 DEF ShutdownBegin, Quiet, Disconnect, Step, mem, PointersAt
<1>8. CASE StopGp
  <2>1. pc' = "free" /\ k' = 1
    BY <1>8 DEF StopGp, Step
  <2>2. \A j \in 1 .. 10 : ~(j < k')
    BY <2>1
  <2> QED BY <2>1, <2>2 DEF PointersAt
<1>9. CASE FreeBlock
  <2>1. /\ k \in 1 .. 10
        /\ \A b \in Names : ptr'[b] = IF b = FreeOrder[k] THEN 0 ELSE ptr[b]
    BY <1>9, FreesOne
  <2>2. pc = "free" /\ pc' = pc /\ k' = k + 1
    BY <1>9 DEF FreeBlock
  <2>3. ASSUME NEW j \in 1 .. 10, j < k' PROVE ptr'[FreeOrder[j]] = 0
    <3>1. j < k \/ j = k
      BY <2>1, <2>2, <2>3
    <3>2. j < k => ptr[FreeOrder[j]] = 0
      BY <2>2 DEF PointersAt
    <3> QED BY <2>1, <3>1, <3>2, BlockOrder
  <2> QED BY <2>2, <2>3 DEF PointersAt
<1>10. CASE ShutdownDone
  <2>1. pc = "free" /\ pc' = "idle" /\ ptr' = ptr /\ up' = up
    BY <1>10 DEF ShutdownDone, Step, mem
  <2>2. ~up'
    BY <2>1 DEF UpIsIdle
  <2>3. k > 10
    BY <1>10, BlockOrder DEF ShutdownDone
  <2>4. k \in 1 .. 11
    BY <2>1 DEF Places
  <2>5. \A j \in 1 .. 10 : ptr[FreeOrder[j]] = 0
    BY <2>1, <2>3, <2>4 DEF PointersAt
  <2>6. \A b \in Names : ptr'[b] = 0
    BY <2>1, <2>5, BlockOrder
  <2> QED BY <2>1, <2>2, <2>6 DEF PointersAt
<1>11. CASE Event \/ Isr \/ Dpc \/ Ac97
  BY <1>11 DEF Event, Isr, Unlist, Dpc, Ac97, mem, PointersAt
<1>12. CASE \E v \in Voices : Play(v) \/ Destroy(v) \/ Trap(v)
  BY <1>12 DEF Play, Destroy, Trap, mem, PointersAt
<1>13. CASE UNCHANGED vars
  BY <1>13 DEF vars, mem, PointersAt
<1> QED BY <1>1, <1>2, <1>3, <1>4, <1>5, <1>6, <1>7, <1>8, <1>9, <1>10, <1>11, <1>12,
           <1>13 DEF Next, Driver

-----------------------------------------------------------------------------
(* The addresses, the units and the handlers. *)

LEMMA AddressesStep ==
  TypeMem /\ UpIsIdle /\ PointersAt /\ AddressesAt /\ [Next]_vars => AddressesAt'
<1> SUFFICES ASSUME TypeMem, UpIsIdle, PointersAt, AddressesAt, [Next]_vars
             PROVE  AddressesAt'
  OBVIOUS
<1> USE DEF Opened, Session, Bringing, AddressesAt, Known
<1>1. CASE InitBegin \/ OutOfMemory \/ Prepare \/ ShutdownBegin \/ Quiet \/ Disconnect
  BY <1>1 DEF InitBegin, OutOfMemory, Prepare, ShutdownBegin, Quiet, Disconnect, Step
<1>2. CASE Allocate \/ FreeBlock \/ StopGp \/ ShutdownDone
  <2>1. pc \in {"alloc", "free", "gp off"} /\ pc' \in {"alloc", "free", "idle"} /\ up' = up
    BY <1>2 DEF Allocate, FreeBlock, StopGp, ShutdownDone, Step
  <2>2. ~up'
    BY <2>1, Zenon DEF UpIsIdle
  <2> QED BY <2>1, <2>2
<1>3. CASE GiveAddresses
  <2>1. pc = "addresses" /\ pc' = "codec" /\ ptr' = ptr
    BY <1>3 DEF GiveAddresses, Step
  <2>2. \A b \in Names : ptr[b] # 0
    BY <2>1 DEF PointersAt
  <2>3. \A b \in Addressed \cup {"gp_fifos"} : b \in Names
    BY DEF Addressed, Reached, Names
  <2>4. \A b \in Addressed \cup {"gp_fifos"} : given'[b] = ptr[b]
    BY <1>3, <2>3, BlockOrder DEF GiveAddresses
  <2>5. ~up'
    BY <1>3, <2>1 DEF GiveAddresses, UpIsIdle
  <2> QED BY <2>1, <2>2, <2>3, <2>4, <2>5
<1>4. CASE CodecReady \/ PcmReset
  BY <1>4 DEF CodecReady, PcmReset, Step, mem
<1>5. CASE SpdifReset
  <2>1. pc = "spdif" /\ pc' = "program" /\ ptr' = ptr
    BY <1>5 DEF SpdifReset, Step
  <2>2. ptr["ac97_buffer"] # 0
    BY <2>1 DEF PointersAt, Names
  <2>3. "ac97_buffer" \in BlockNames
    BY BlockOrder DEF Names
  <2>4. given'["ac97_buffer"] = ptr["ac97_buffer"]
    BY <1>5, <2>3 DEF SpdifReset, TypeMem
  <2>5. \A b \in Addressed \cup {"gp_fifos"} : b # "ac97_buffer"
    BY DEF Addressed, Reached
  <2>6. \A b \in Addressed \cup {"gp_fifos"} : given'[b] = given[b]
    BY <1>5, <2>5 DEF SpdifReset, TypeMem
  <2>7. \A b \in Addressed \cup {"gp_fifos"} : Known(b)
    BY <2>1
  <2>8. \A b \in Addressed \cup {"gp_fifos"} : Known(b)'
    BY <2>1, <2>6, <2>7
  <2> QED BY <2>1, <2>2, <2>4, <2>8
<1>6. CASE StartGp
  <2>1. pc = "program" /\ pc' = "interrupt" /\ ptr' = ptr
    BY <1>6 DEF StartGp, Step
  <2>2. ptr["gp_pmem"] # 0
    BY <2>1 DEF PointersAt, Names
  <2>3. "gp_pmem" \in BlockNames
    BY BlockOrder DEF Names
  <2>4. given'["gp_pmem"] = ptr["gp_pmem"]
    BY <1>6, <2>3 DEF StartGp, TypeMem
  <2>5. \A b \in Addressed \cup {"gp_fifos", "ac97_buffer"} : b # "gp_pmem"
    BY DEF Addressed, Reached
  <2>6. \A b \in Addressed \cup {"gp_fifos", "ac97_buffer"} : given'[b] = given[b]
    BY <1>6, <2>5 DEF StartGp, TypeMem
  <2>7. \A b \in Addressed \cup {"gp_fifos", "ac97_buffer"} : Known(b)
    BY <2>1
  <2>8. \A b \in Addressed \cup {"gp_fifos", "ac97_buffer"} : Known(b)'
    BY <2>1, <2>6, <2>7
  <2> QED BY <2>1, <2>2, <2>4, <2>8
<1>7. CASE ParseLine
  BY <1>7 DEF ParseLine
<1>7b. CASE Connect
  BY <1>7b DEF Connect, Step, mem
<1>7c. CASE Start
  BY <1>7c DEF Start, Step, mem
<1>8. CASE Event \/ Isr \/ Dpc \/ Ac97
  BY <1>8 DEF Event, Isr, Unlist, Dpc, Ac97, mem
<1>9. CASE \E v \in Voices : Play(v) \/ Destroy(v) \/ Trap(v)
  BY <1>9 DEF Play, Destroy, Trap, mem
<1>10. CASE UNCHANGED vars
  BY <1>10 DEF vars, mem
<1> QED BY <1>1, <1>2, <1>3, <1>4, <1>5, <1>6, <1>7, <1>7b, <1>7c, <1>8, <1>9, <1>10 DEF Next, Driver

\* No unit runs while memory is given, and none while an address is.
LEMMA UnitsStep ==
  TypeMem /\ UpIsIdle /\ PointersAt /\ AddressesAt /\ UnitsAt /\ [Next]_vars => UnitsAt'
<1> SUFFICES ASSUME TypeMem, UpIsIdle, PointersAt, AddressesAt, UnitsAt, [Next]_vars
             PROVE  UnitsAt'
  OBVIOUS
<1> USE DEF UnitsAt, Session, Bringing, Running97, Known
<1>1. CASE InitBegin \/ OutOfMemory
  BY <1>1 DEF InitBegin, OutOfMemory, Step, mem, apu, ac97
<1>2. CASE Allocate
  BY <1>2 DEF Allocate, apu, ac97, UpIsIdle
<1>3. CASE Prepare
  BY <1>3 DEF Prepare, Step, ac97, UpIsIdle
<1>4. CASE GiveAddresses
  BY <1>4 DEF GiveAddresses, Step, apu, UpIsIdle
<1>5. CASE CodecReady \/ PcmReset
  BY <1>5 DEF CodecReady, PcmReset, Step, apu, UpIsIdle
<1>6. CASE SpdifReset
  BY <1>6 DEF SpdifReset, Step, ac97, UpIsIdle
<1>7. CASE ParseLine
  BY <1>7 DEF ParseLine, apu, ac97
<1>8. CASE StartGp
  <2>1. pc = "program" /\ pc' = "interrupt" /\ ptr' = ptr /\ ~up
    BY <1>8 DEF StartGp, Step, UpIsIdle
  <2>2. sectl' # 15 /\ ~Running97'
    BY <1>8, <2>1 DEF StartGp, ac97
  <2>3. \A b \in Reached("GP") : Known(b)'
    <3>1. AddressesAt'
      BY AddressesStep
    <3>2. Known("gp_sges")' /\ Known("gp_fifos")' /\ Known("ac97_buffer")' /\ Known("gp_pmem")'
      BY <2>1, <3>1, ReachedBlocks DEF AddressesAt
    <3> QED BY <3>2 DEF Reached
  <2> QED BY <2>1, <2>2, <2>3
<1>9. CASE Connect
  BY <1>9 DEF Connect, Step, mem, ac97, UpIsIdle
<1>10. CASE Start
  <2>1. pc = "start" /\ pc' = "idle" /\ up' /\ ptr' = ptr /\ given' = given /\ gp' = gp
    BY <1>10 DEF Start, Step, mem
  <2>2. /\ \A b \in Addressed \cup {"gp_fifos"} : Known(b)
        /\ Known("ac97_buffer") /\ Known("gp_pmem")
    BY <2>1 DEF AddressesAt
  <2>3. /\ \A b \in Reached("VP") : Known(b)
        /\ \A b \in Reached("GP") : Known(b)
    BY <2>2, ReachedBlocks
  <2> QED BY <2>1, <2>2, <2>3
<1>11. CASE ShutdownBegin
  BY <1>11 DEF ShutdownBegin, Step, mem, apu, ac97
<1>12. CASE Quiet
  BY <1>12 DEF Quiet, Step, mem, UpIsIdle
<1>13. CASE Disconnect
  BY <1>13 DEF Disconnect, Step, mem, apu, ac97, UpIsIdle
<1>14. CASE StopGp
  BY <1>14 DEF StopGp, GpReset, Step, mem, ac97, UpIsIdle
<1>15. CASE FreeBlock
  BY <1>15 DEF FreeBlock, apu, ac97, UpIsIdle
<1>16. CASE ShutdownDone
  BY <1>16 DEF ShutdownDone, Step, apu, ac97, UpIsIdle
<1>17. CASE Event \/ Isr \/ Dpc
  BY <1>17 DEF Event, Isr, Unlist, Dpc, mem, apu, ac97
<1>18. CASE Ac97
  BY <1>18 DEF Ac97, mem, apu
<1>19. CASE \E v \in Voices : Play(v) \/ Destroy(v) \/ Trap(v)
  <2>1. /\ pc' = pc /\ up' = up /\ given' = given /\ ptr' = ptr
        /\ sectl' = sectl /\ gp' = gp /\ pcm' = pcm /\ spdif' = spdif
    BY <1>19 DEF Play, Destroy, Trap, mem, apu, ac97
  <2> QED BY <2>1
<1>20. CASE UNCHANGED vars
  BY <1>20 DEF vars, mem, apu, ac97
<1> QED BY <1>1, <1>2, <1>3, <1>4, <1>5, <1>6, <1>7, <1>8, <1>9, <1>10, <1>11, <1>12,
           <1>13, <1>14, <1>15, <1>16, <1>17, <1>18, <1>19, <1>20 DEF Next, Driver

\* The interrupt and the DPC have gone before the first block is.
LEMMA HandlersStep ==
  UpIsIdle /\ PointersAt /\ HandlersAt /\ [Next]_vars => HandlersAt'
<1> SUFFICES ASSUME UpIsIdle, PointersAt, HandlersAt, [Next]_vars PROVE HandlersAt'
  OBVIOUS
<1> USE DEF HandlersAt, Session, Step
<1>1. CASE InitBegin \/ OutOfMemory \/ Prepare \/ GiveAddresses \/ CodecReady
  BY <1>1 DEF InitBegin, OutOfMemory, Prepare, GiveAddresses, CodecReady, mem, irq
<1>2. CASE Allocate \/ FreeBlock
  BY <1>2 DEF Allocate, FreeBlock, irq, UpIsIdle
<1>3. CASE PcmReset \/ SpdifReset \/ ParseLine \/ StartGp
  BY <1>3 DEF PcmReset, SpdifReset, ParseLine, StartGp, mem, irq
<1>4. CASE Connect
  <2>1. pc' = "start" /\ connected' /\ ptr' = ptr
    BY <1>4 DEF Connect, mem
  <2>2. ptr["voices"] # 0 /\ ptr["notifiers"] # 0
    BY <1>4 DEF Connect, PointersAt, Opened, Bringing, Names
  <2> QED BY <2>1, <2>2
<1>5. CASE Start \/ ShutdownBegin \/ Quiet
  BY <1>5 DEF Start, ShutdownBegin, Quiet, mem, irq
<1>6. CASE Disconnect
  BY <1>6 DEF Disconnect, DpcRemoved
<1>7. CASE StopGp \/ ShutdownDone
  <2>1. pc \in {"gp off", "free"} /\ connected' = connected /\ dpc' = dpc
    BY <1>7 DEF StopGp, ShutdownDone, irq
  <2>2. ~connected
    BY <2>1 DEF UpIsIdle
  <2> QED BY <2>1, <2>2
<1>8. CASE Event \/ Isr \/ Dpc \/ Ac97
  BY <1>8 DEF Event, Isr, Unlist, Dpc, Ac97, mem, irq
<1>9. CASE \E v \in Voices : Play(v) \/ Destroy(v) \/ Trap(v)
  BY <1>9 DEF Play, Destroy, Trap, mem, irq
<1>10. CASE UNCHANGED vars
  BY <1>10 DEF vars, mem, irq
<1> QED BY <1>1, <1>2, <1>3, <1>4, <1>5, <1>6, <1>7, <1>8, <1>9, <1>10 DEF Next, Driver

-----------------------------------------------------------------------------
(* The theorems. *)

LEMMA LifecycleInit == Init => LifecycleInv
<1> SUFFICES ASSUME Init PROVE LifecycleInv
  OBVIOUS
<1>1. TypeOK
  BY TypeInit
<1>2. Places /\ UpIsIdle
  BY DEF Init, Places, UpIsIdle, Bringing, Stopping
<1>3. \A b \in Names : ptr[b] = 0
  BY BlockOrder DEF Init, NoBlocks
<1>4. HeapIsPointers /\ PointersAt
  BY <1>3 DEF Init, HeapIsPointers, PointersAt, Opened, Session, Bringing
<1>5. AddressesAt /\ UnitsAt /\ HandlersAt
  BY DEF Init, AddressesAt, UnitsAt, HandlersAt, Session, Bringing, Running97
<1> QED BY <1>1, <1>2, <1>4, <1>5 DEF LifecycleInv, MemoryInv

LEMMA LifecycleStep == LifecycleInv /\ [Next]_vars => LifecycleInv'
<1> SUFFICES ASSUME LifecycleInv, [Next]_vars PROVE LifecycleInv'
  OBVIOUS
<1>1. TypeMem /\ TypeVoices /\ TypeUnits /\ TypeFlags
  BY TypeParts DEF LifecycleInv
<1>2. /\ Places /\ UpIsIdle /\ HeapIsPointers /\ PointersAt /\ AddressesAt
      /\ UnitsAt /\ HandlersAt
  BY DEF LifecycleInv, MemoryInv
<1>3. TypeMem'
  BY <1>1, <1>2, TypeMemStep
<1>4. TypeVoices' /\ TypeUnits' /\ TypeFlags'
  BY <1>1, TypeVoicesStep, TypeUnitsStep, TypeFlagsStep
<1>6. TypeOK'
  BY <1>3, <1>4, TypeParts, PTL
<1>7. Places' /\ UpIsIdle' /\ HeapIsPointers' /\ PointersAt'
  BY <1>1, <1>2, PlacesStep, UpStep, HeapStep, PointersStep
<1>8. AddressesAt' /\ UnitsAt' /\ HandlersAt'
  BY <1>1, <1>2, AddressesStep, UnitsStep, HandlersStep
<1> QED BY <1>6, <1>7, <1>8 DEF LifecycleInv, MemoryInv

\* Whatever the listing, the number of sessions, of voices and of idle entries,
\* and whichever allocation fails: the step the call is at says which memory
\* there is, which of it the hardware knows and which units and handlers may run.
THEOREM LifecycleInvariance == Spec => []LifecycleInv
<1> QED BY LifecycleInit, LifecycleStep, PTL DEF Spec

\* Every variable of nxAudioInit, nxAudioShutdown and the handlers keeps its type.
THEOREM TypeCorrect == Spec => []TypeOK
<1>1. LifecycleInv => TypeOK
  BY DEF LifecycleInv
<1> QED BY <1>1, LifecycleInvariance, PTL

LEMMA KnownIsAllocated ==
  HeapIsPointers => \A b \in Names : Known(b) => <<b, given[b]>> \in heap
BY DEF HeapIsPointers, Known

\* VP, GP and AC97 never run over memory that nxAudioShutdown has freed, nor
\* over an address of an earlier session.
THEOREM UnitsKeepTheirMemory == Spec => []RunningUnitsHaveMemory
<1>1. LifecycleInv => RunningUnitsHaveMemory
  <2> SUFFICES ASSUME LifecycleInv, NEW unit \in {"VP", "GP", "AC97"}, Running(unit),
                      NEW b \in Reached(unit)
               PROVE  <<b, given[b]>> \in heap
    BY DEF RunningUnitsHaveMemory
  <2>1. UnitsAt /\ HeapIsPointers
    BY DEF LifecycleInv, MemoryInv
  <2>2. b \in Names
    BY ReachedBlocks DEF Names
  <2>3. Known(b)
    <3>1. CASE unit = "VP"
      BY <2>1, <3>1 DEF Running, UnitsAt
    <3>2. CASE unit = "GP"
      BY <2>1, <3>2 DEF Running, UnitsAt
    <3>3. CASE unit = "AC97"
      BY <2>1, <3>3, ReachedBlocks DEF Running, UnitsAt, Running97
    <3> QED BY <3>1, <3>2, <3>3
  <2> QED BY <2>1, <2>2, <2>3, KnownIsAllocated
<1> QED BY <1>1, LifecycleInvariance, PTL

\* apu_isr and apu_dpc, the latter also when it was queued before a shutdown,
\* never find the voices or the notifiers freed.
THEOREM HandlersKeepTheirMemory == Spec => []HandlersHaveMemory
<1>1. LifecycleInv => HandlersHaveMemory
  BY DEF LifecycleInv, MemoryInv, HandlersAt, HeapIsPointers, HandlersHaveMemory, Names
<1> QED BY <1>1, LifecycleInvariance, PTL

\* Nothing stays allocated after a shutdown or after an Init that failed at any
\* of its ten allocations.
THEOREM NoLeak == Spec => []NothingLeaks
<1>1. LifecycleInv => NothingLeaks
  <2> SUFFICES ASSUME LifecycleInv, pc = "idle"
               PROVE  heap = {<<b, ptr[b]>> : b \in {c \in BlockNames : up /\ NotNull(c)}}
    BY DEF NothingLeaks
  <2>1. HeapIsPointers /\ PointersAt /\ BlockNames = Names
    BY BlockOrder DEF LifecycleInv, MemoryInv
  <2>2. CASE up
    BY <2>1, <2>2 DEF HeapIsPointers, NotNull
  <2>3. CASE ~up
    <3>1. \A b \in Names : ptr[b] = 0
      BY <2>1, <2>3 DEF PointersAt
    <3>2. heap = {}
      BY <2>1, <3>1 DEF HeapIsPointers
    <3> QED BY <2>3, <3>2
  <2> QED BY <2>2, <2>3
<1> QED BY <1>1, LifecycleInvariance, PTL

\* The lists of idle entries: reset by nxAudioInit, moved by apu_isr and apu_dpc.
LEMMA EntriesStep == TypeMem /\ EntriesSound /\ [Next]_vars => EntriesSound'
<1> SUFFICES ASSUME TypeMem, EntriesSound, [Next]_vars PROVE EntriesSound'
  OBVIOUS
<1>1. CASE InitBegin
  BY <1>1 DEF InitBegin, ListsReset, EntriesSound
<1>2. CASE Isr
  BY <1>2 DEF Isr, Unlist, EntriesSound
<1>3. CASE Dpc
  BY <1>3 DEF Dpc, EntriesSound
<1>4. CASE UNCHANGED <<free, active, inits>>
  BY <1>4 DEF EntriesSound
<1>5. Next => InitBegin \/ Isr \/ Dpc \/ UNCHANGED <<free, active, inits>>
  <2>1. CASE Allocate \/ OutOfMemory \/ Prepare \/ GiveAddresses \/ CodecReady \/ PcmReset
    BY <2>1 DEF Allocate, OutOfMemory, Prepare, GiveAddresses, CodecReady, PcmReset, irq
  <2>2. CASE SpdifReset \/ ParseLine \/ StartGp \/ Connect \/ Start
    BY <2>2 DEF SpdifReset, ParseLine, StartGp, Connect, Start, irq
  <2>3. CASE ShutdownBegin \/ Quiet \/ Disconnect \/ StopGp \/ FreeBlock \/ ShutdownDone
    BY <2>3 DEF ShutdownBegin, Quiet, Disconnect, StopGp, FreeBlock, ShutdownDone, irq
  <2>4. CASE Event \/ Ac97
    BY <2>4 DEF Event, Ac97, irq
  <2>5. CASE \E v \in Voices : Play(v) \/ Destroy(v) \/ Trap(v)
    BY <2>5 DEF Play, Destroy, Trap, irq
  <2> QED BY <2>1, <2>2, <2>3, <2>4, <2>5 DEF Next, Driver
<1>6. CASE UNCHANGED vars
  BY <1>6 DEF vars, irq, EntriesSound
<1> QED BY <1>1, <1>2, <1>3, <1>4, <1>5, <1>6

\* No idle entry is lost or used twice, over any number of shutdowns with
\* entries still in the active list.
THEOREM EntriesKept == Spec => []EntriesSound
<1>1. Init => EntriesSound
  BY DEF Init, EntriesSound
<1>2. LifecycleInv => TypeMem
  BY TypeParts DEF LifecycleInv
<1> QED BY <1>1, <1>2, EntriesStep, LifecycleInvariance, PTL DEF Spec

\* What is pending: nothing from Connect on until the VP starts, and then traps of
\* listed voices.
LEMMA PendingStep == LifecycleInv /\ PendingInv /\ [Next]_vars => PendingInv'
<1> SUFFICES ASSUME LifecycleInv, PendingInv, [Next]_vars PROVE PendingInv'
  OBVIOUS
<1>0. sectl = 15 => Session \/ pc = "shutdown"
  BY DEF LifecycleInv, MemoryInv, UnitsAt
<1> USE DEF PendingInv, NothingPending, Bringing, Session
<1>1. CASE InitBegin \/ Allocate \/ OutOfMemory
  BY <1>1, <1>0 DEF InitBegin, Allocate, OutOfMemory, Step, apu, irq, pend, voices
<1>2. CASE Prepare
  BY <1>2 DEF Prepare, Step
<1>3. CASE GiveAddresses \/ CodecReady \/ PcmReset \/ SpdifReset \/ ParseLine \/ StartGp
  BY <1>3, <1>0 DEF GiveAddresses, CodecReady, PcmReset, SpdifReset, ParseLine, StartGp,
                    Step, apu, irq, pend
<1>4. CASE Connect
  \* The handlers were not connected before.
  <2>1. ~dpc
    BY <1>4 DEF Connect, Step, LifecycleInv, MemoryInv, HandlersAt
  <2> QED BY <1>4, <2>1 DEF Connect, PendingCleared, Step
<1>5. CASE Start
  BY <1>5 DEF Start, Step, irq, pend
<1>6. CASE ShutdownBegin \/ StopGp \/ FreeBlock \/ ShutdownDone
  BY <1>6, <1>0 DEF ShutdownBegin, StopGp, FreeBlock, ShutdownDone, Step, irq, pend, voices, apu
<1>7. CASE Quiet
  <2>1. pc' = "disconnect" /\ sectl' = 0
    BY <1>7 DEF Quiet, Step
  <2> QED BY <2>1
<1>7b. CASE Disconnect
  <2>1. pc = "disconnect" /\ pc' = "gp off" /\ sectl' = sectl
    BY <1>7b DEF Disconnect, Step, apu
  <2> QED BY <1>0, <2>1
<1>8. CASE Event
  BY <1>8, <1>0 DEF Event, apu, voices
<1>9. CASE Isr
  <2>1. ists # {} /\ ists' = {} /\ pc' = pc /\ sectl' = sectl
        /\ trapped' = IF "FET" \in ists THEN {} ELSE trapped
    BY <1>9 DEF Isr, apu
  <2>2. pc # "start"
    BY <2>1
  <2>3. trapped' = {} \/ (trapped' = trapped /\ listed' = listed)
    BY <1>9 DEF Isr
  <2> QED BY <2>1, <2>2, <2>3
<1>10. CASE Dpc \/ Ac97
  BY <1>10 DEF Dpc, Ac97, irq, pend, voices, apu
<1>11. CASE \E v \in Voices : Play(v) \/ Destroy(v)
  BY <1>11 DEF Play, Destroy, irq, pend, apu
<1>12. CASE \E v \in Voices : Trap(v)
  BY <1>12, <1>0 DEF Trap, apu, voices
<1>13. CASE UNCHANGED vars
  BY <1>13 DEF vars, irq, pend, voices, apu
<1> QED BY <1>1, <1>2, <1>3, <1>4, <1>5, <1>6, <1>7, <1>7b, <1>8, <1>9, <1>10, <1>11,
           <1>12, <1>13 DEF Next, Driver

\* The entries in use are those of tracked voices off their lists; the voice of a
\* trap is tracked and on its list, so that there is an entry left for it.
LEMMA EntryLeft ==
  TypeMem /\ TypeVoices /\ EntriesSound /\ NothingListed /\ sectl = 15 /\ inits > 0
    => \A v \in trapped : free # {}
<1> SUFFICES ASSUME TypeVoices, EntriesSound, NothingListed, sectl = 15, inits > 0,
                    NEW v \in trapped, free = {}
             PROVE  FALSE
  OBVIOUS
<1> DEFINE Queued == tracked \ listed
<1>1. active = Entries /\ Cardinality(active) = Cardinality(Queued)
  BY DEF EntriesSound, NothingListed
<1>2. v \in Voices /\ v \notin Queued /\ Queued \subseteq Voices
  BY DEF NothingListed, TypeVoices
<1>3. IsFiniteSet(Queued) /\ IsFiniteSet(Voices)
  BY <1>2, FS_Subset, LifecycleAssumption
<1>4. Cardinality(Queued \cup {v}) = Cardinality(Queued) + 1
  BY <1>2, <1>3, FS_AddElement
<1>5. Queued \cup {v} \subseteq Voices
  BY <1>2
<1>6. Cardinality(Queued \cup {v}) <= Cardinality(Voices)
  BY <1>3, <1>5, FS_Subset
<1>7. Cardinality(Queued) \in Nat /\ Cardinality(Voices) \in Nat
      /\ Cardinality(Entries) \in Nat
  BY <1>3, FS_CardinalityType, LifecycleAssumption
<1>8. Cardinality(Entries) = Cardinality(Queued)
  BY <1>1
<1>9. Cardinality(Voices) <= Cardinality(Entries)
  BY LifecycleAssumption
<1> HIDE DEF Queued
<1> QED BY <1>4, <1>6, <1>7, <1>8, <1>9

LEMMA SessionStep ==
  LifecycleInv /\ EntriesSound /\ PendingInv /\ PendingInv' /\ SessionInv /\ NothingListed
      /\ [Next]_vars
    => (SessionInv /\ NothingListed)'
<1> SUFFICES ASSUME LifecycleInv, EntriesSound, PendingInv, PendingInv', SessionInv,
                    NothingListed, [Next]_vars
             PROVE  (SessionInv /\ NothingListed)'
  OBVIOUS
<1>0. sectl = 15 => Session \/ pc = "shutdown"
  BY DEF LifecycleInv, MemoryInv, UnitsAt
<1>a. sectl' = 15 => trapped' \subseteq listed'
  BY DEF PendingInv
<1>b. TypeMem /\ TypeVoices
  BY TypeParts DEF LifecycleInv
<1>c. IsFiniteSet(active) /\ IsFiniteSet(tracked)
  BY <1>b, LifecycleAssumption, FS_Subset DEF TypeVoices
<1> USE <1>a DEF SessionInv, NothingListed, Bringing, Session
<1>1. CASE InitBegin
  BY <1>1, <1>0 DEF InitBegin, ListsReset, Step, apu
<1>2. CASE Prepare
  BY <1>2 DEF Prepare, ListsEmptied, Step
<1>3. CASE Start
  <2>1. active' = {} /\ listed' = {} /\ tracked' = {} /\ taken' = {} /\ pc' = "idle"
    BY <1>3 DEF Start, Step, voices, irq
  <2>2. Cardinality({}) = 0
    BY FS_EmptySet
  <2>3. tracked' \ listed' = {}
    BY <2>1
  <2> QED BY <2>1, <2>2, <2>3
<1>4. CASE Quiet
  BY <1>4 DEF Quiet, Step
<1>5. CASE Disconnect
  BY <1>5, <1>0 DEF Disconnect, Step, apu
<1>6. CASE Isr
  <2>1. CASE "FET" \in ists /\ \E v \in trapped : Unlist(v)
    <3>1. PICK v \in trapped : Unlist(v)
      BY <2>1
    <3>2. /\ connected /\ sectl' = sectl /\ pc' = pc /\ tracked' = tracked /\ taken' = taken
      BY <1>6 DEF Isr, apu
    <3>3. pc \notin {"alloc"} \cup Bringing
      \* At "start" no trap is pending.
      <4>1. pc # "start"
        BY <2>1 DEF PendingInv, NothingPending
      <4> QED BY <3>2, <4>1 DEF LifecycleInv, MemoryInv, HandlersAt
    <3>4. ASSUME sectl = 15 PROVE NothingListed'
      <4>1. inits > 0
        <5>1. inits # 0 /\ inits \in Nat
          BY <1>0, <1>b, <3>4 DEF TypeMem, LifecycleInv, MemoryInv, Places, UpIsIdle
        <5> QED BY <5>1
      <4>2. free # {}
        BY <1>b, <3>1, <3>4, <4>1, EntryLeft
      <4>3. PICK e \in free : dpc' /\ listed' = listed \ {v} /\ active' = active \cup {e}
        BY <3>1, <4>2 DEF Unlist
      <4>4. e \notin active /\ v \in listed
        BY <3>1, <3>4, <4>3 DEF EntriesSound
      <4>5. Cardinality(active') = Cardinality(active) + 1
        BY <1>c, <4>3, <4>4, FS_AddElement
      <4>6. tracked' \ listed' = (tracked \ listed) \cup {v} /\ v \notin tracked \ listed
        BY <3>2, <3>4, <4>3, <4>4
      <4>7. IsFiniteSet(tracked \ listed)
        BY <1>c, FS_Difference
      <4>8. Cardinality(tracked' \ listed') = Cardinality(tracked \ listed) + 1
        BY <4>6, <4>7, FS_AddElement
      <4>9. Cardinality(active) = Cardinality(tracked \ listed)
        BY <3>4
      <4>10. Cardinality(active') = Cardinality(tracked' \ listed')
        BY <4>5, <4>8, <4>9
      <4>11. listed' \subseteq tracked' /\ tracked' \subseteq taken'
        BY <3>2, <3>4, <4>3
      <4> QED BY <4>3, <4>10, <4>11
    <3> QED BY <3>2, <3>3, <3>4
  <2>2. CASE dpc' = (dpc \/ "FEV" \in ists) /\ UNCHANGED <<listed, free, active>>
    BY <1>6, <2>2 DEF Isr, apu
  <2> QED BY <1>6, <2>1, <2>2 DEF Isr
<1>7. CASE Dpc
  <2>1. active' = {} /\ tracked' = tracked \cap listed
        /\ listed' = listed /\ taken' = taken /\ sectl' = sectl /\ pc' = pc
    BY <1>7 DEF Dpc, apu
  <2>2. Cardinality({}) = 0
    BY FS_EmptySet
  <2>3. tracked' \ listed' = {}
    BY <2>1
  <2> QED BY <2>1, <2>2, <2>3
<1>8. CASE \E v \in Voices : Play(v)
  <2>1. PICK v \in Voices :
          /\ pc = "idle" /\ v \notin tracked /\ taken' = taken \cup {v}
          /\ tracked' = tracked \cup {v} /\ listed' = listed \cup {v}
          /\ active' = active /\ dpc' = dpc /\ sectl' = sectl /\ pc' = pc
    BY <1>8 DEF Play, irq, apu
  <2>2. tracked' \ listed' = tracked \ listed
    BY <2>1
  <2> QED BY <2>1, <2>2
<1>9. CASE \E v \in Voices : Destroy(v)
  <2>1. PICK v \in Voices :
          /\ pc = "idle" /\ v \notin tracked /\ taken' = taken \ {v}
          /\ tracked' = tracked /\ listed' = listed
          /\ active' = active /\ dpc' = dpc /\ sectl' = sectl /\ pc' = pc
    BY <1>9 DEF Destroy, irq, apu
  <2> QED BY <2>1
<1>10. CASE Allocate \/ OutOfMemory \/ GiveAddresses \/ CodecReady \/ PcmReset \/ SpdifReset
  BY <1>10 DEF Allocate, OutOfMemory, GiveAddresses, CodecReady, PcmReset, SpdifReset,
               Step, irq, voices, apu
<1>11. CASE ParseLine \/ StartGp \/ ShutdownBegin
  BY <1>11 DEF ParseLine, StartGp, ShutdownBegin, Step, irq, voices, apu
<1>12. CASE Connect
  BY <1>12, <1>0 DEF Connect, Step, voices
<1>13. CASE StopGp \/ FreeBlock \/ ShutdownDone
  BY <1>13 DEF StopGp, FreeBlock, ShutdownDone, Step, irq, voices, apu
<1>14. CASE Ac97
  BY <1>14 DEF Ac97, irq, voices, apu
<1>15. CASE Event \/ \E v \in Voices : Trap(v)
  BY <1>15 DEF Event, Trap, voices, apu
<1>16. CASE UNCHANGED vars
  BY <1>16 DEF vars, irq, voices, apu
<1> QED BY <1>1, <1>2, <1>3, <1>4, <1>5, <1>6, <1>7, <1>8, <1>9, <1>10, <1>11, <1>12,
           <1>13, <1>14, <1>15, <1>16 DEF Next, Driver

\* A session answers no interrupt and runs no DPC of the one before, and meets none
\* of its voices or idle entries, for any number of voices and of entries, as long
\* as there are as many of these: while the VP runs, an idle entry is in use for
\* every voice that has been unlinked and not yet retired, and no other.
THEOREM SessionsApart == Spec => []NothingOfAnEarlierSession
<1>1. Init => PendingInv
  BY DEF Init, PendingInv, NothingPending, Bringing
<1>2. Spec => []PendingInv
  BY <1>1, PendingStep, LifecycleInvariance, PTL DEF Spec
<1>3. Init => SessionInv /\ NothingListed
  BY DEF Init, SessionInv, NothingListed, Bringing
<1>4. Spec => [](SessionInv /\ NothingListed)
  BY <1>2, <1>3, SessionStep, LifecycleInvariance, EntriesKept, PTL DEF Spec
<1>5. PendingInv /\ NothingListed => NothingOfAnEarlierSession
  BY DEF PendingInv, NothingOfAnEarlierSession
<1> QED BY <1>2, <1>4, <1>5, PTL

-----------------------------------------------------------------------------
(* The DSP program. *)

Opcodes == {text[m].opcode : m \in 1 .. Len(text)}

\* gp_pmem is the eighth block of nxAudioInit; it is empty until the listing is
\* read, and holds the words of the lines read so far.
ProgramInv ==
  /\ text \in Listings /\ pmem \in Seq(Opcodes)
  /\ pc = "alloc" /\ k > 8 => pmem = <<>>
  /\ pc \in {"addresses", "codec", "pcm", "spdif"} => pmem = <<>>
  /\ pc = "program" => cursor \in 1 .. Len(text) + 1 /\ Loaded(cursor - 1)
  /\ ProgramLoaded

LEMMA ListingLines ==
  text \in Listings => Len(text) \in Nat /\ DOMAIN text = 1 .. Len(text)
BY LifecycleAssumption

\* The place of a line among the words: the count grows by one at each word.
LEMMA RankFacts ==
  /\ Rank(0) = 0
  /\ \A n \in Nat : Rank(n) \in Nat
  /\ \A n \in Nat : Rank(n + 1) = IF IsWord(text[n + 1]) THEN Rank(n) + 1 ELSE Rank(n)
  /\ \A n \in Nat : \A m \in 1 .. n :
       Rank(m) <= Rank(n) /\ (IsWord(text[m]) => Rank(m) >= 1)
<1> DEFINE W(n) == {m \in 1 .. n : IsWord(text[m])}
<1>1. \A n \in Nat : IsFiniteSet(W(n)) /\ Cardinality(W(n)) \in Nat
  <2> SUFFICES ASSUME NEW n \in Nat
               PROVE  IsFiniteSet(W(n)) /\ Cardinality(W(n)) \in Nat
    OBVIOUS
  <2>1. IsFiniteSet(1 .. n) /\ W(n) \in SUBSET (1 .. n)
    BY FS_Interval
  <2>2. IsFiniteSet(W(n))
    BY <2>1, FS_Subset
  <2> QED BY <2>2, FS_CardinalityType
<1>2. W(0) = {}
  OBVIOUS
<1>3. \A n \in Nat : W(n + 1) = IF IsWord(text[n + 1]) THEN W(n) \cup {n + 1} ELSE W(n)
  <2> SUFFICES ASSUME NEW n \in Nat
               PROVE W(n + 1) = IF IsWord(text[n + 1]) THEN W(n) \cup {n + 1} ELSE W(n)
    OBVIOUS
  <2>1. \A m : m \in 1 .. n + 1 <=> m \in 1 .. n \/ m = n + 1
    OBVIOUS
  <2> QED BY <2>1
<1>4. \A n \in Nat : n + 1 \notin W(n)
  OBVIOUS
<1>5. \A n \in Nat : \A m \in 1 .. n : W(m) \subseteq W(n) /\ (IsWord(text[m]) => m \in W(m))
  OBVIOUS
<1>6. \A n : Rank(n) = Cardinality(W(n))
  BY DEF Rank
<1> HIDE DEF W
<1>7. Rank(0) = 0
  BY <1>2, <1>6, FS_EmptySet
<1>8. ASSUME NEW n \in Nat
      PROVE  Rank(n + 1) = IF IsWord(text[n + 1]) THEN Rank(n) + 1 ELSE Rank(n)
  <2>1. Cardinality(W(n) \cup {n + 1}) = Cardinality(W(n)) + 1
    BY <1>1, <1>4, FS_AddElement
  <2> QED BY <1>3, <1>6, <2>1
<1>9. ASSUME NEW n \in Nat, NEW m \in 1 .. n
      PROVE  Rank(m) <= Rank(n) /\ (IsWord(text[m]) => Rank(m) >= 1)
  <2>1. m \in Nat
    OBVIOUS
  <2>2. Cardinality(W(m)) <= Cardinality(W(n))
    BY <1>1, <1>5, FS_Subset
  <2>3. IsWord(text[m]) => Cardinality(W(m)) # 0
    BY <1>1, <1>5, <2>1, FS_EmptySet
  <2> QED BY <1>1, <1>6, <2>1, <2>2, <2>3
<1> QED BY <1>1, <1>6, <1>7, <1>8, <1>9

\* One line of parse_a56_output.
LEMMA ParseLineLoads ==
  ASSUME ProgramInv, ParseLine
  PROVE  /\ pmem' \in Seq(Opcodes) /\ cursor' \in 1 .. Len(text) + 1
         /\ Loaded(cursor - 1)'
<1>a. cursor - 1 \in Nat
  BY ListingLines DEF ProgramInv, ParseLine
<1>b. PICK c \in Nat : c = cursor - 1
  BY <1>a
<1>0. /\ Len(text) \in Nat /\ cursor \in 1 .. Len(text) /\ cursor' = cursor + 1
      /\ cursor = c + 1 /\ cursor' - 1 = c + 1
      /\ text' = text /\ Loaded(c) /\ pmem \in Seq(Opcodes) /\ MaxWords \in Nat
  <2>1. cursor \in 1 .. Len(text) + 1 /\ cursor <= Len(text) /\ Len(text) \in Nat
        /\ cursor' = cursor + 1 /\ text' = text
    BY ListingLines DEF ProgramInv, ParseLine
  <2>2. Loaded(cursor - 1) /\ pmem \in Seq(Opcodes)
    BY DEF ProgramInv, ParseLine
  <2>3. Loaded(c)
    BY <1>b, <2>2
  <2>4. MaxWords \in Nat
    BY LifecycleAssumption
  <2> HIDE DEF Opcodes
  <2> QED BY <1>b, <2>1, <2>2, <2>3, <2>4
<1>1. pmem' = IF IsWord(text[c + 1]) /\ Len(pmem) < MaxWords
              THEN Append(pmem, text[c + 1].opcode) ELSE pmem
  BY <1>0 DEF ParseLine, Room
<1>2. text[c + 1].opcode \in Opcodes
  BY <1>0 DEF Opcodes
<1>3. pmem' \in Seq(Opcodes)
  BY <1>0, <1>1, <1>2
<1>4. /\ Rank(c) \in Nat /\ Rank(c + 1) \in Nat
      /\ Rank(c + 1) = IF IsWord(text[c + 1]) THEN Rank(c) + 1 ELSE Rank(c)
      /\ \A m \in 1 .. c : Rank(m) <= Rank(c) /\ (IsWord(text[m]) => Rank(m) >= 1)
      /\ \A m \in 1 .. c : Rank(m) \in Nat
  <2>1. \A m \in 1 .. c : m \in Nat
    OBVIOUS
  <2> QED BY SMTT(20), <2>1, RankFacts
<1>5. \A n : Rank(n)' = Rank(n)
  BY <1>0 DEF Rank
<1>6. Len(pmem') = IF Rank(c + 1) < MaxWords THEN Rank(c + 1) ELSE MaxWords
  BY <1>0, <1>1, <1>4 DEF Loaded
<1>7. ASSUME NEW m \in 1 .. c + 1, IsWord(text[m]), Rank(m) <= MaxWords
      PROVE  pmem'[Rank(m)] = text[m].opcode
  <2>1. CASE m \in 1 .. c
    <3>1. pmem[Rank(m)] = text[m].opcode /\ Rank(m) \in 1 .. Len(pmem)
      BY <1>0, <1>4, <1>7, <2>1 DEF Loaded
    <3> QED BY <1>0, <1>1, <3>1
  <2>2. CASE m = c + 1
    <3>1. Rank(c) < MaxWords /\ Len(pmem) = Rank(c) /\ Rank(m) = Len(pmem) + 1
      BY <1>0, <1>4, <1>7, <2>2 DEF Loaded
    <3>2. pmem' = Append(pmem, text[m].opcode)
      BY <1>1, <1>7, <2>2, <3>1
    <3> QED BY <1>0, <3>1, <3>2
  <2> QED BY <2>1, <2>2
<1>8. Loaded(c + 1)'
  BY <1>0, <1>5, <1>6, <1>7 DEF Loaded
<1> QED BY <1>0, <1>3, <1>8

LEMMA NothingLoaded ==
  ASSUME pmem = <<>>, MaxWords \in Nat PROVE Loaded(0)
BY RankFacts DEF Loaded

LEMMA ProgramStep == LifecycleInv /\ ProgramInv /\ [Next]_vars => ProgramInv'
<1> SUFFICES ASSUME LifecycleInv, ProgramInv, [Next]_vars PROVE ProgramInv'
  OBVIOUS
<1>0. gp = "running" => Session \/ pc \in {"interrupt", "start", "shutdown",
                                          "disconnect", "gp off"}
  BY Zenon DEF LifecycleInv, MemoryInv, UnitsAt
<1>a. UpIsIdle
  BY DEF LifecycleInv, MemoryInv
\* A step that leaves the program alone.
<1>1. ASSUME UNCHANGED <<text, pmem>>, gp' = "running" => gp = "running",
             pc' = "alloc" /\ k' > 8 => pc = "alloc" /\ k > 8,
             pc' \in {"addresses", "codec", "pcm", "spdif"} => pmem = <<>>,
             pc' = "program" => pc = "program" /\ cursor' = cursor
      PROVE  ProgramInv'
  <2>1. \A n : Loaded(n)' = Loaded(n)
    BY <1>1 DEF Loaded, Rank
  <2>2. Opcodes' = Opcodes
    BY <1>1 DEF Opcodes
  <2>3. ProgramLoaded'
    BY <1>1, <2>1 DEF ProgramInv, ProgramLoaded
  <2>4. pc' = "program" => cursor' \in 1 .. Len(text') + 1 /\ Loaded(cursor - 1)'
    BY <1>1 DEF ProgramInv, Loaded, Rank
  <2> QED BY <1>1, <2>2, <2>3, <2>4 DEF ProgramInv
<1> USE DEF Step
<1>2. CASE InitBegin
  BY <1>1, <1>2 DEF InitBegin, mem, apu
<1>3. CASE Allocate
  <2>1. pc = "alloc" /\ k \in 1 .. 10 /\ pc' = pc /\ k' = k + 1 /\ text' = text /\ gp' = gp
        /\ pmem' = IF Blocks[k] = "gp_pmem" THEN <<>> ELSE pmem
    BY <1>3, BlockOrder DEF Allocate, apu, LifecycleInv, MemoryInv, Places
  <2>2. Blocks[8] = "gp_pmem" /\ gp # "running"
    BY <1>0, <2>1 DEF Blocks, Session
  <2>3. k' > 8 => pmem' = <<>>
    BY <2>1, <2>2 DEF ProgramInv
  <2>4. <<>> \in Seq(Opcodes) /\ Opcodes' = Opcodes
    BY <2>1 DEF Opcodes
  <2>5. pmem' \in Seq(Opcodes')
    BY <2>1, <2>4 DEF ProgramInv
  <2> QED BY <2>1, <2>2, <2>3, <2>5 DEF ProgramInv, ProgramLoaded
<1>4. CASE OutOfMemory
  BY <1>1, <1>4 DEF OutOfMemory, mem, apu
<1>5. CASE Prepare
  <2>1. pmem = <<>>
    BY <1>5, BlockOrder DEF Prepare, ProgramInv, LifecycleInv, MemoryInv, Places
  <2> QED BY <1>1, <1>5, <2>1 DEF Prepare, mem
<1>6. CASE GiveAddresses \/ CodecReady \/ PcmReset
  BY <1>1, <1>6 DEF GiveAddresses, CodecReady, PcmReset, ProgramInv, mem, apu
<1>7. CASE SpdifReset
  <2>1. /\ UNCHANGED <<text, pmem>> /\ pmem = <<>> /\ cursor' = 1 /\ pc' = "program"
        /\ gp' = "powered"
    BY <1>7 DEF SpdifReset, ProgramInv
  <2>2. Opcodes' = Opcodes /\ Len(text) \in Nat /\ MaxWords \in Nat
    BY <2>1, ListingLines, LifecycleAssumption DEF Opcodes, ProgramInv
  <2>3. Loaded(0)
    BY <2>1, <2>2, NothingLoaded
  <2>4. Loaded(cursor - 1)'
    BY <2>1, <2>3 DEF Loaded, Rank
  <2> QED BY <2>1, <2>2, <2>4 DEF ProgramInv, ProgramLoaded
<1>8. CASE ParseLine
  <2>1. /\ pc = "program" /\ pc' = pc /\ gp' = gp /\ text' = text
    BY <1>8 DEF ParseLine, apu
  <2>2. gp # "running"
    BY <1>0, <2>1 DEF Session
  <2>3. Opcodes' = Opcodes
    BY <2>1 DEF Opcodes
  <2> QED BY <1>8, <2>1, <2>2, <2>3, ParseLineLoads DEF ProgramInv, ProgramLoaded
<1>9. CASE StartGp
  <2>1. /\ UNCHANGED <<text, pmem>> /\ cursor > Len(text) /\ pc' = "interrupt"
        /\ cursor \in 1 .. Len(text) + 1 /\ Loaded(cursor - 1)
    BY <1>9 DEF StartGp, ProgramInv
  <2>2. cursor - 1 = Len(text)
    BY <2>1, ListingLines DEF ProgramInv
  <2>3. Loaded(Len(text))
    BY <2>1, <2>2
  <2>4. Loaded(Len(text))'
    BY <2>1, <2>3 DEF Loaded, Rank
  <2>5. Opcodes' = Opcodes
    BY <2>1 DEF Opcodes
  <2> QED BY <2>1, <2>4, <2>5 DEF ProgramInv, ProgramLoaded
<1>10. CASE Connect \/ Start \/ ShutdownBegin \/ Quiet \/ Disconnect
  <2>1. /\ UNCHANGED <<text, pmem>> /\ gp' = gp
        /\ pc' \in {"start", "idle", "shutdown", "disconnect", "gp off"}
    BY <1>10 DEF Connect, Start, ShutdownBegin, Quiet, Disconnect, mem, apu
  <2> QED BY <1>1, <2>1
<1>11. CASE StopGp \/ FreeBlock \/ ShutdownDone
  <2>1. /\ UNCHANGED <<text, pmem>> /\ (gp' = gp \/ gp' = "reset")
        /\ pc' \in {"free", "idle"}
    BY <1>11 DEF StopGp, GpReset, FreeBlock, ShutdownDone, mem, apu
  <2> QED BY <1>1, <2>1
<1>12. CASE Event \/ Isr \/ Dpc \/ Ac97
  BY <1>1, <1>12 DEF Event, Isr, Unlist, Dpc, Ac97, ProgramInv, mem, apu
<1>13. CASE \E v \in Voices : Play(v) \/ Destroy(v) \/ Trap(v)
  BY <1>1, <1>13 DEF Play, Destroy, Trap, ProgramInv, mem, apu
<1>14. CASE UNCHANGED vars
  BY <1>1, <1>14 DEF vars, ProgramInv, mem, apu
<1> QED BY <1>2, <1>3, <1>4, <1>5, <1>6, <1>7, <1>8, <1>9, <1>10, <1>11, <1>12,
           <1>13, <1>14 DEF Next, Driver

\* Whatever the listing, its length and the size of the program memory, what
\* the GP runs is the listing's words in order, cut off at the memory's end;
\* and nothing writes to the program while the GP runs.
THEOREM ProgramIsLoaded == Spec => []ProgramLoaded
<1>1. Init => ProgramInv
  <2> SUFFICES ASSUME Init PROVE ProgramInv
    OBVIOUS
  <2>1. text \in Listings /\ pmem = <<>> /\ gp = "reset" /\ pc = "idle"
    BY DEF Init
  <2>2. <<>> \in Seq(Opcodes)
    OBVIOUS
  <2> QED BY <2>1, <2>2 DEF ProgramInv, ProgramLoaded
<1>2. ProgramInv => ProgramLoaded
  BY DEF ProgramInv
<1> QED BY <1>1, <1>2, ProgramStep, LifecycleInvariance, PTL DEF Spec
=============================================================================
