--------------------------- MODULE DriverLifecycle --------------------------
(***************************************************************************)
(* nxAudioInit and nxAudioShutdown (audio_core.c): ten blocks of memory    *)
(* the hardware is pointed at, the order in which the units are quieted,   *)
(* pointed and started, an allocation that fails half-way, the waits for   *)
(* the AC97 codec, the DSP program read from its listing, and apu_isr and  *)
(* apu_dpc, which may run at any moment at which they are connected.       *)
(* Interrupts that are not taken stay pending, over a shutdown too.        *)
(* Memory has a generation, so that an address kept from before a shutdown *)
(* is not one of the memory allocated after it.                            *)
(***************************************************************************)
EXTENDS Integers, Sequences, FiniteSets

CONSTANTS
  Entries,        \* g_idle_voice_entries
  Voices,         \* hardware voices
  MaxWords,       \* MAX_DSP_PAYLOAD / sizeof(uint32_t)
  Listings,       \* inputs: the text of passthrough.out
  MaxInits        \* bound: calls of nxAudioInit

\* The order of the allocations of nxAudioInit and of the releases of
\* nxAudioShutdown.
Blocks == <<"voices", "ssls", "notifiers", "gp_sges", "vp_sges", "gp_fifos",
            "ac97_buffer", "gp_pmem", "hrtf_targets", "hrtf_currents">>
FreeOrderForgets ==
  <<"ac97_buffer", "voices", "ssls", "notifiers", "gp_sges", "vp_sges",
    "gp_fifos", "gp_pmem", "hrtf_targets">>
FreeOrder == <<"ac97_buffer", "voices", "ssls", "notifiers", "gp_sges", "vp_sges",
               "gp_fifos", "gp_pmem", "hrtf_targets", "hrtf_currents">>
BlockNames == {Blocks[k] : k \in DOMAIN Blocks}
\* The blocks each unit reaches when it runs: the VP by its address registers,
\* the GP by its scatter-gather tables and the output FIFO, AC97 by descriptors.
Reached(unit) ==
  CASE unit = "VP"   -> {"voices", "ssls", "notifiers", "vp_sges", "hrtf_targets",
                         "hrtf_currents"}
    [] unit = "GP"   -> {"gp_sges", "gp_fifos", "gp_pmem", "ac97_buffer"}
    [] unit = "AC97" -> {"ac97_buffer"}

\* A line of the listing: a word of program memory ("P"), or anything else; a
\* line of 128 characters or more is skipped.
IsWord(line) == line.kind = "P" /\ ~line.long
ASSUME LifecycleAssumption ==
  /\ MaxWords \in Nat /\ MaxInits \in Nat
  /\ IsFiniteSet(Voices) /\ IsFiniteSet(Entries)
  /\ Cardinality(Voices) <= Cardinality(Entries)
  /\ \A t \in Listings :
       /\ Len(t) \in Nat /\ DOMAIN t = 1 .. Len(t)
       /\ \A k \in DOMAIN t :
            t[k].kind \in {"P", "other"} /\ t[k].long \in BOOLEAN

VARIABLES
  text,                  \* passthrough_text
  heap,                  \* memory allocated: pairs of a block and a generation
  ptr,                   \* the g_hw_ pointers: a generation, 0 for NULL
  given,                 \* the addresses the hardware was given, likewise
  free, active,          \* g_idle_voice_free_list and _active_list
  taken, tracked,        \* not in g_voice_allocation_mask; g_tracked_voices
  listed,                \* voices on the lists TVL, CVL and NVL start
  ien, sectl, gp,        \* IEN, SECTL and the GP's GPRST
  pcm, spdif, codec,     \* AC97: the two controls, and the codec is ready
  pmem,                  \* the program in g_hw_gp_pmem
  ists, trapped,         \* ISTS; the idle voice for which the front end waits
  connected, dpc,        \* g_isr_dpc_initialized; the DPC is queued
  up, inits,             \* the last Init succeeded; Inits made
  pc, k, cursor          \* the call under way: its step, block and line

apu  == <<ien, sectl, gp>>
ac97 == <<pcm, spdif, codec>>
mem  == <<heap, ptr, given, pmem>>
pend == <<ists, trapped>>
irq  == <<pend, connected, dpc, free, active>>
voices == <<taken, tracked, listed>>
vars == <<text, mem, irq, voices, apu, ac97, up, inits, pc, k, cursor>>

NoBlocks == [b \in BlockNames |-> 0]
Init ==
  /\ text \in Listings
  /\ heap = {} /\ ptr = NoBlocks /\ given = NoBlocks /\ pmem = <<>>
  /\ ists = {} /\ trapped = {} /\ connected = FALSE /\ dpc = FALSE
  /\ free = {} /\ active = {}
  /\ taken = {} /\ tracked = {} /\ listed = {}
  /\ ien = 0 /\ sectl = 0 /\ gp = "reset"
  /\ pcm = "stopped" /\ spdif = "stopped" /\ codec \in BOOLEAN
  /\ up = FALSE /\ inits = 0
  /\ pc = "idle" /\ k = 0 /\ cursor = 0

Step(from, to) == pc = from /\ pc' = to

(***************************************************************************)
(* nxAudioInit.                                                            *)
(***************************************************************************)
\* The list heads are reset, then every entry is pushed.
ListsReset == /\ active' = {} /\ free' = Entries
InitBegin ==
  /\ Step("idle", "alloc") /\ ~up /\ inits < MaxInits
  /\ inits' = inits + 1
  /\ ListsReset
  /\ k' = 1
  /\ UNCHANGED <<text, mem, pend, connected, dpc, voices, apu, ac97, up, cursor>>

\* APU_ALLOC: cleared memory, or a shutdown and false.
Allocate ==
  /\ pc = "alloc" /\ k <= Len(Blocks)
  /\ heap' = heap \cup {<<Blocks[k], inits>>}
  /\ ptr' = [ptr EXCEPT ![Blocks[k]] = inits]
  /\ pmem' = IF Blocks[k] = "gp_pmem" THEN <<>> ELSE pmem
  /\ k' = k + 1
  /\ UNCHANGED <<text, given, irq, voices, apu, ac97, up, inits, pc, cursor>>

OutOfMemory ==
  /\ pc = "alloc" /\ k <= Len(Blocks)
  /\ pc' = "shutdown"
  /\ UNCHANGED <<text, mem, irq, voices, apu, ac97, up, inits, k, cursor>>

\* The tables of the driver, the notifiers and the links; the APU is quieted,
\* with the trap its front end may wait for, and the voice lists are emptied.
\* SECTL 7 powers the VP up without frames.
ListsLeft == listed
ListsEmptied == {}
Prepare ==
  /\ Step("alloc", "addresses") /\ k > Len(Blocks)
  /\ taken' = {} /\ tracked' = {} /\ listed' = ListsEmptied
  /\ ien' = 0 /\ trapped' = {} /\ sectl' = 7 /\ gp' = "reset"
  /\ UNCHANGED <<text, mem, ists, connected, dpc, free, active, ac97, up, inits, k, cursor>>

Addressed == Reached("VP") \cup {"gp_sges"}
GiveAddresses ==
  /\ Step("addresses", "codec")
  /\ given' = [b \in BlockNames |-> IF b \in Addressed \cup {"gp_fifos"}
                                    THEN ptr[b] ELSE given[b]]
  /\ codec' \in BOOLEAN             \* AC97_GLOBAL_CR_RESET
  /\ UNCHANGED <<text, heap, ptr, pmem, irq, voices, apu, pcm, spdif, up, inits, k, cursor>>

\* The waits for the codec and for the two resets have no limit.
CodecReady ==
  /\ Step("codec", "pcm") /\ codec
  /\ pcm' = "reset" /\ spdif' = "reset"
  /\ UNCHANGED <<text, mem, irq, voices, apu, codec, up, inits, k, cursor>>
ResetSeen(control) == control = "reset"
ResetDone(control) == control # "reset"
PcmReset ==
  /\ Step("pcm", "spdif") /\ ResetDone(pcm)
  /\ spdif' = "reset"
  /\ UNCHANGED <<text, mem, irq, voices, apu, pcm, codec, up, inits, k, cursor>>
\* The descriptors' base; the GP FIFO's table is pointed at the AC97 buffer.
SpdifReset ==
  /\ Step("spdif", "program") /\ ResetDone(spdif)
  /\ given' = [given EXCEPT !["ac97_buffer"] = ptr["ac97_buffer"]]
  /\ gp' = "powered"
  /\ cursor' = 1
  /\ UNCHANGED <<text, heap, ptr, pmem, irq, voices, ien, sectl, ac97, up, inits, k>>

\* parse_a56_output, one line at a time.
RoomNot(n) == n <= MaxWords
Room(n) == n < MaxWords
ParseLine ==
  /\ pc = "program" /\ cursor <= Len(text)
  /\ pmem' = IF IsWord(text[cursor]) /\ Room(Len(pmem))
             THEN Append(pmem, text[cursor].opcode) ELSE pmem
  /\ cursor' = cursor + 1
  /\ UNCHANGED <<text, heap, ptr, given, irq, voices, apu, ac97, up, inits, pc, k>>

\* The scatter-gather entries of the program; the GP reads it and starts.
StartGp ==
  /\ Step("program", "interrupt") /\ cursor > Len(text)
  /\ given' = [given EXCEPT !["gp_pmem"] = ptr["gp_pmem"]]
  /\ gp' = "running"
  /\ UNCHANGED <<text, heap, ptr, pmem, irq, voices, ien, sectl, ac97, up, inits, k, cursor>>

\* Latent interrupts are cleared first.
PendingLeft == ists
PendingCleared == {}
Connect ==
  /\ Step("interrupt", "start")
  /\ ists' = PendingCleared /\ trapped' = {}
  /\ ien' = 1 /\ connected' = TRUE
  /\ UNCHANGED <<text, mem, dpc, free, active, voices, sectl, gp, ac97, up, inits, k, cursor>>

Start ==
  /\ Step("start", "idle")
  /\ sectl' = 15 /\ pcm' = "running" /\ spdif' = "running"
  /\ up' = TRUE
  /\ UNCHANGED <<text, mem, irq, voices, ien, gp, codec, inits, k, cursor>>

(***************************************************************************)
(* nxAudioShutdown, by the application or by a failing nxAudioInit.        *)
(***************************************************************************)
ShutdownBegin ==
  /\ Step("idle", "shutdown") /\ up
  /\ up' = FALSE
  /\ UNCHANGED <<text, mem, irq, voices, apu, ac97, inits, k, cursor>>

\* FECTL is written before the VP stops, which may trap once more in between.
Quiet ==
  /\ Step("shutdown", "disconnect")
  /\ pcm' = "reset" /\ spdif' = "reset"
  /\ ien' = 0 /\ trapped' \in {{}, trapped} /\ sectl' = 0
  /\ UNCHANGED <<text, mem, ists, connected, dpc, free, active, voices, gp, codec,
                 up, inits, k, cursor>>

DpcKept == dpc' = dpc
DpcRemoved == dpc' = FALSE
Disconnect ==
  /\ Step("disconnect", "gp off")
  /\ IF connected THEN connected' = FALSE /\ DpcRemoved
     ELSE UNCHANGED <<connected, dpc>>
  /\ UNCHANGED <<text, mem, pend, free, active, voices, apu, ac97, up, inits, k, cursor>>

GpKept == gp
GpReset == "reset"
StopGp ==
  /\ Step("gp off", "free")
  /\ gp' = GpReset /\ k' = 1
  /\ UNCHANGED <<text, mem, irq, voices, ien, sectl, ac97, up, inits, cursor>>

NotNull(b) == ptr[b] # 0
FreeBlock ==
  /\ pc = "free" /\ k <= Len(FreeOrder)
  /\ LET b == FreeOrder[k]
     IN IF NotNull(b)
        THEN heap' = heap \ {<<b, ptr[b]>>} /\ ptr' = [ptr EXCEPT ![b] = 0]
        ELSE UNCHANGED <<heap, ptr>>
  /\ k' = k + 1
  /\ UNCHANGED <<text, given, pmem, irq, voices, apu, ac97, up, inits, pc, cursor>>

ShutdownDone ==
  /\ Step("free", "idle") /\ k > Len(FreeOrder)
  /\ UNCHANGED <<text, mem, irq, voices, apu, ac97, up, inits, k, cursor>>

(***************************************************************************)
(* Interrupt, DPC and AC97, between any two steps.                         *)
(***************************************************************************)
\* A voice is started; the voice, stopped and off the lists, is destroyed.
Play(v) ==
  /\ up /\ pc = "idle" /\ v \notin tracked
  /\ taken' = taken \cup {v} /\ tracked' = tracked \cup {v}
  /\ listed' = listed \cup {v}
  /\ UNCHANGED <<text, mem, irq, apu, ac97, up, inits, pc, k, cursor>>
Destroy(v) ==
  /\ up /\ pc = "idle" /\ v \in taken \ tracked
  /\ taken' = taken \ {v}
  /\ UNCHANGED <<text, mem, irq, tracked, listed, apu, ac97, up, inits, pc, k, cursor>>

\* A running VP completes a buffer, or traps on an idle voice of its lists.
Event ==
  /\ sectl = 15 /\ listed # {}
  /\ ists' = ists \cup {"FEV"}
  /\ UNCHANGED <<text, mem, trapped, connected, dpc, free, active, voices, apu, ac97,
                 up, inits, pc, k, cursor>>
Trap(v) ==
  /\ sectl = 15 /\ v \in listed /\ trapped = {}
  /\ ists' = ists \cup {"FET"} /\ trapped' = {v}
  /\ UNCHANGED <<text, mem, connected, dpc, free, active, voices, apu, ac97,
                 up, inits, pc, k, cursor>>

\* apu_isr takes what is pending.  An idle voice that does not persist is taken
\* off its list and queued, if there is an entry for it.
Unlist(v) ==
  /\ listed' = listed \ {v}
  /\ IF free = {} THEN dpc' = (dpc \/ "FEV" \in ists) /\ UNCHANGED <<free, active>>
     ELSE /\ dpc' = TRUE
          /\ \E e \in free : free' = free \ {e} /\ active' = active \cup {e}
Isr ==
  /\ ien = 1 /\ connected /\ ists # {} /\ ists' = {}
  /\ trapped' = IF "FET" \in ists THEN {} ELSE trapped
  /\ \/ "FET" \in ists /\ \E v \in trapped : Unlist(v)
     \/ dpc' = (dpc \/ "FEV" \in ists) /\ UNCHANGED <<listed, free, active>>
  /\ UNCHANGED <<text, mem, connected, taken, tracked, apu, ac97, up, inits, pc, k, cursor>>

Dpc ==
  /\ dpc
  /\ dpc' = FALSE /\ free' = free \cup active /\ active' = {}
  /\ tracked' = tracked \cap listed
  /\ UNCHANGED <<text, mem, pend, connected, taken, listed, apu, ac97, up, inits, pc, k, cursor>>

Ac97 ==
  /\ \/ ~codec /\ codec' = TRUE /\ UNCHANGED <<pcm, spdif>>
     \/ pcm = "reset" /\ pcm' = "stopped" /\ UNCHANGED <<spdif, codec>>
     \/ spdif = "reset" /\ spdif' = "stopped" /\ UNCHANGED <<pcm, codec>>
  /\ UNCHANGED <<text, mem, irq, voices, apu, up, inits, pc, k, cursor>>

Driver ==
  \/ Allocate \/ OutOfMemory \/ Prepare \/ GiveAddresses \/ CodecReady
  \/ PcmReset \/ SpdifReset \/ ParseLine \/ StartGp \/ Connect \/ Start
  \/ Quiet \/ Disconnect \/ StopGp \/ FreeBlock \/ ShutdownDone
Next ==
  \/ InitBegin \/ ShutdownBegin \/ Driver \/ Event \/ Isr \/ Dpc \/ Ac97
  \/ \E v \in Voices : Play(v) \/ Destroy(v) \/ Trap(v)
Spec == Init /\ [][Next]_vars
FairSpec == Spec /\ WF_vars(Driver) /\ WF_vars(Ac97)

-----------------------------------------------------------------------------
TypeOK ==
  /\ heap \subseteq BlockNames \X (1 .. MaxInits)
  /\ ptr \in [BlockNames -> 0 .. MaxInits] /\ given \in [BlockNames -> 0 .. MaxInits]
  /\ taken \subseteq Voices /\ tracked \subseteq Voices /\ listed \subseteq Voices
  /\ free \subseteq Entries /\ active \subseteq Entries
  /\ ists \subseteq {"FET", "FEV"} /\ trapped \subseteq Voices
  /\ ien \in {0, 1} /\ sectl \in {0, 7, 15} /\ gp \in {"reset", "powered", "running"}
  /\ pcm \in {"stopped", "reset", "running"} /\ spdif \in {"stopped", "reset", "running"}
  /\ {codec, connected, dpc, up} \subseteq BOOLEAN
  /\ inits \in 0 .. MaxInits /\ k \in 0 .. Len(Blocks) + 1

\* No unit runs over memory that has been given back, or over an address of an
\* earlier session: memory comes before the start, and the stop before the
\* release, whichever step an allocation fails at.
Running(unit) ==
  CASE unit = "VP" -> sectl = 15
    [] unit = "GP" -> gp = "running"
    [] unit = "AC97" -> "running" \in {pcm, spdif}
RunningUnitsHaveMemory ==
  \A unit \in {"VP", "GP", "AC97"} :
    Running(unit) => \A b \in Reached(unit) : <<b, given[b]>> \in heap

\* apu_isr and apu_dpc dereference g_hw_voices and g_hw_notifiers: neither can
\* run once a block has been freed, not even a DPC queued before the shutdown.
HandlersHaveMemory ==
  connected \/ dpc => \A b \in {"voices", "notifiers"} : <<b, ptr[b]>> \in heap

\* After a shutdown, or an Init that failed anywhere, nothing is left allocated;
\* while the system is up, nothing is allocated but what the pointers name.
NothingLeaks ==
  pc = "idle" => heap = {<<b, ptr[b]>> : b \in {c \in BlockNames : up /\ NotNull(c)}}

\* No idle entry is lost or used twice, over shutdowns with voices still queued.
EntriesSound ==
  /\ free \cap active = {}
  /\ inits > 0 => free \cup active = Entries

\* What a session left behind is not found by the next.  Before the VP starts,
\* the handlers, already connected, have no interrupt and no DPC to answer; when
\* it runs, a trap is of a listed voice, a listed voice is tracked and taken, so
\* every trap has its voice, and an idle entry is active only for a voice that is
\* tracked.
NothingPending == pc = "start" => ists = {} /\ ~dpc
NothingListed ==
  sectl = 15 => /\ trapped \subseteq listed
                /\ listed \subseteq tracked /\ tracked \subseteq taken
                /\ Cardinality(active) = Cardinality(tracked \ listed)
                /\ active # {} => dpc
NothingOfAnEarlierSession == NothingPending /\ NothingListed

\* What the GP runs is the program of the listing, as much as fits: the words
\* of its lines, each at its place, and nothing after them.
Rank(n) == Cardinality({m \in 1 .. n : IsWord(text[m])})
Loaded(n) ==
  /\ Len(pmem) = IF Rank(n) < MaxWords THEN Rank(n) ELSE MaxWords
  /\ \A m \in 1 .. n : IsWord(text[m]) /\ Rank(m) <= MaxWords =>
       pmem[Rank(m)] = text[m].opcode
ProgramLoaded == gp = "running" => Loaded(Len(text))

\* Once AC97 answers, Init and Shutdown return.
CallReturns == pc # "idle" ~> pc = "idle"
=============================================================================
