----------------------------- MODULE VoiceList ------------------------------
(***************************************************************************)
(* The processing lists of the voice processor and their repair in apu_isr *)
(* (audio_core.c).  Each class of voices has a singly linked list through  *)
(* the NEXT_VOICE_HANDLE of tar_pitch_link and three registers: TVL the    *)
(* top, CVL the voice being processed, NVL the one after it.  The VP puts  *)
(* a voice on top at VOICE_ON and never takes one off: it traps on an idle *)
(* voice and stays trapped, with the front end, until apu_isr has unlinked *)
(* the voice and reset FECTL.  The walk and the traps of the VP are        *)
(* external: as loose as the driver's own code allows them to be.          *)
(***************************************************************************)
EXTENDS Integers, Sequences, FiniteSets

CONSTANTS
  NumHw, Max3D,    \* MCPX_HW_MAX_VOICES, MCPX_HW_MAX_3D_VOICES
  End              \* the handle 0xFFFF

ASSUME ListAssumption ==
  /\ NumHw \in Nat /\ Max3D \in 0 .. NumHw
  /\ End \notin 0 .. NumHw - 1

HwVoices   == 0 .. NumHw - 1
Handles    == HwVoices \cup {End}
NoWork     == [idle |-> End, next |-> End, current |-> End, prev |-> End]

VARIABLES
  next,            \* NEXT_VOICE_HANDLE of every hardware voice
  tvl, cvl, nvl,   \* the registers of each class
  persist,         \* voices with PERSIST in the cfg_fmt apu_isr reads
  off,             \* voices the VP finds inactive
  trapped,         \* an idle trap: VP and front end stopped
  pc, work,        \* apu_isr: where it is, and its locals
  order            \* history: the listed voices of each class, top first

device == <<next, tvl, cvl, nvl, persist, off, trapped>>
vars == <<device, pc, work, order>>

PL == INSTANCE ProcessingList WITH list <- order
Classes    == PL!Classes
ClassOf(i) == PL!ClassOf(i)
On(c)      == PL!On(c)

\* The voices of a class as the search of apu_isr meets them: from the top along
\* the links, up to the End; a cycle is cut off after NumHw steps.
Visited(c) ==
  LET at[k \in 0 .. NumHw] ==
        IF k = 0 THEN tvl[c]
        ELSE LET i == at[k - 1] IN IF i = End THEN End ELSE next[i]
  IN at
WalkedFrom(at) ==
  [k \in 1 .. Cardinality({j \in 0 .. NumHw : at[j] # End}) |-> at[k - 1]]
Walked == [c \in Classes |-> WalkedFrom(Visited(c))]
Links  == INSTANCE ProcessingList WITH list <- Walked

Init ==
  /\ next = [i \in HwVoices |-> i]             \* voices link to themselves
  /\ tvl = [c \in Classes |-> End]
  /\ cvl = [c \in Classes |-> End]
  /\ nvl = [c \in Classes |-> End]
  /\ persist = {} /\ off = HwVoices /\ trapped = FALSE
  /\ pc = "out" /\ work = NoWork
  /\ order = [c \in Classes |-> <<>>]

(***************************************************************************)
(* The front end and the VP.                                               *)
(***************************************************************************)
\* VOICE_ON with the antecedent 0xFFFF and the top of the voice's class, sent
\* by nxAudioVoiceStart for a voice that has stopped: one that is not listed.
MayStartAgain(i) == ~trapped /\ i \in off
MayStart(i)      == ~trapped /\ i \notin Links!On(ClassOf(i))
VoiceOn(i, p) ==
  LET c == ClassOf(i)
  IN /\ MayStart(i)
     /\ next' = [next EXCEPT ![i] = tvl[c]]
     /\ tvl' = [tvl EXCEPT ![c] = i]
     /\ order' = [order EXCEPT ![c] = <<i>> \o @]
     /\ persist' = IF p THEN persist \cup {i} ELSE persist \ {i}
     /\ off' = off \ {i}
     /\ UNCHANGED <<cvl, nvl, trapped, pc, work>>

\* Stop or Release clears PERSIST; the voice becomes inactive at some point.
VoiceEnds(i) ==
  /\ ~trapped /\ i \notin off
  /\ off' = off \cup {i}
  /\ persist' \in {persist, persist \ {i}}
  /\ UNCHANGED <<next, tvl, cvl, nvl, trapped, pc, work, order>>

\* The VP starts a pass over a class, or goes on to the next voice of it.
NextOf(c, i) == IF i = End THEN End ELSE next[i]
Wrapped(c, i) == IF i = End THEN tvl[c] ELSE i
Walk(c) ==
  \E i \in {tvl[c], NextOf(c, cvl[c])} :
    /\ ~trapped
    /\ cvl' = [cvl EXCEPT ![c] = i]
    /\ nvl' = [nvl EXCEPT ![c] = Wrapped(c, NextOf(c, i))]
    /\ UNCHANGED <<next, tvl, persist, off, trapped, pc, work, order>>

\* A trap on an idle voice; stale VP state may name one that is not listed.
IdleTrap(i) ==
  /\ ~trapped /\ i \in off
  /\ trapped' = TRUE
  /\ pc' = "enter" /\ work' = [NoWork EXCEPT !.idle = i]
  /\ UNCHANGED <<next, tvl, cvl, nvl, persist, off, order>>

(***************************************************************************)
(* apu_isr.                                                                *)
(***************************************************************************)
\* A persistent voice is left alone.
IsrPersistent ==
  /\ pc = "enter" /\ work.idle \in persist
  /\ pc' = "out" /\ work' = NoWork /\ trapped' = FALSE
  /\ UNCHANGED <<next, tvl, cvl, nvl, persist, off, order>>

Successor(i) == IF next[i] = i THEN End ELSE next[i]
IsrEnter ==
  /\ pc = "enter" /\ work.idle \notin persist
  /\ pc' = "search"
  /\ work' = [work EXCEPT !.next = Successor(work.idle),
                          !.current = tvl[ClassOf(work.idle)]]
  /\ UNCHANGED <<device, order>>

Searching == pc = "search" /\ work.current \notin {End, work.idle}
IsrSearch ==
  /\ Searching
  /\ work' = [work EXCEPT !.prev = work.current, !.current = next[work.current]]
  /\ UNCHANGED <<device, pc, order>>

\* The links after the unlinking: around the idle voice, which then points to
\* itself.
RelinkedIdleOnly == [next EXCEPT ![work.idle] = work.idle]
Relinked ==
  LET around == IF work.current # End /\ work.prev # End
                THEN [next EXCEPT ![work.prev] = work.next] ELSE next
  IN [around EXCEPT ![work.idle] = work.idle]
NewTopKept(c) == tvl[c]
NewTop(c) ==
  IF work.current # End /\ work.prev = End /\ tvl[c] = work.idle
  THEN work.next ELSE tvl[c]
\* CVL and NVL, when they point to the idle voice: cvl_2d and nvl_2d are the
\* values read on entry, tvl_2d the top as just written.
NewCurrentAgain(c) == IF cvl[c] = work.idle THEN NewTop(c) ELSE cvl[c]
NewCurrent(c) == IF cvl[c] = work.idle THEN work.next ELSE cvl[c]
NewNextOfCurrent(c) ==
  IF work.next = End \/ Relinked[work.next] = End THEN NewTop(c)
  ELSE Relinked[work.next]
NewNext(c) ==
  IF nvl[c] = work.idle THEN (IF work.next = End THEN NewTop(c) ELSE work.next)
  ELSE IF cvl[c] = work.idle THEN NewNextOfCurrent(c) ELSE nvl[c]

IsrUnlink ==
  LET c == ClassOf(work.idle)
  IN /\ pc = "search" /\ ~Searching
     /\ next' = Relinked
     /\ tvl' = [tvl EXCEPT ![c] = NewTop(c)]
     /\ cvl' = [cvl EXCEPT ![c] = NewCurrent(c)]
     /\ nvl' = [nvl EXCEPT ![c] = NewNext(c)]
     /\ order' = [order EXCEPT ![c] = PL!Without(@, work.idle)]
     /\ pc' = "out" /\ work' = NoWork /\ trapped' = FALSE
     /\ UNCHANGED <<persist, off>>

Isr == IsrPersistent \/ IsrEnter \/ IsrSearch \/ IsrUnlink
Next ==
  \/ \E i \in HwVoices, p \in BOOLEAN : VoiceOn(i, p)
  \/ \E i \in HwVoices : VoiceEnds(i)
  \/ \E c \in Classes : Walk(c)
  \/ \E i \in HwVoices : IdleTrap(i)
  \/ IsrPersistent
  \/ IsrEnter
  \/ IsrSearch
  \/ IsrUnlink
Spec == Init /\ [][Next]_vars
FairSpec == Spec /\ WF_vars(Isr)

-----------------------------------------------------------------------------
TypeOK ==
  /\ next \in [HwVoices -> Handles]
  /\ tvl \in [Classes -> Handles] /\ cvl \in [Classes -> Handles]
  /\ nvl \in [Classes -> Handles]
  /\ persist \subseteq HwVoices /\ off \subseteq HwVoices
  /\ trapped \in BOOLEAN /\ pc \in {"out", "enter", "search"}
  /\ work \in [idle : Handles, next : Handles, current : Handles, prev : Handles]
  /\ order \in [Classes -> Seq(HwVoices)]

\* The links, followed from the top of a class, visit exactly its listed
\* voices, each once, and end: apu_isr cuts no voice off and makes no cycle.
LinksSound ==
  \A c \in Classes :
    /\ tvl[c] = IF order[c] = <<>> THEN End ELSE order[c][1]
    /\ \A k \in DOMAIN order[c] :
         /\ ClassOf(order[c][k]) = c
         /\ next[order[c][k]] = IF k = Len(order[c]) THEN End ELSE order[c][k + 1]
         /\ \A j \in DOMAIN order[c] : order[c][j] = order[c][k] => j = k

\* The VP's own pointers never refer to a voice that has been taken off: the
\* next voice it processes is listed (audio_core.c:162).
PointersListed ==
  \A c \in Classes : {cvl[c], nvl[c]} \subseteq On(c) \cup {End}

\* Where the search of apu_isr stands: no voice before current is the idle
\* one, prev is the voice just before current.
SearchSound ==
  /\ trapped <=> pc # "out"
  /\ pc # "out" => work.idle \in HwVoices
  /\ pc = "enter" => work.prev = End
  /\ pc = "search" =>
       LET s == order[ClassOf(work.idle)]
       IN /\ work.next = Successor(work.idle)
          /\ \E k \in 1 .. Len(s) + 1 :
               /\ work.current = IF k = Len(s) + 1 THEN End ELSE s[k]
               /\ work.prev = IF k = 1 THEN End ELSE s[k - 1]
               /\ \A j \in 1 .. k - 1 : s[j] # work.idle

IInv == TypeOK /\ LinksSound /\ PointersListed /\ SearchSound

\* The lists that the links and the tops make are the abstract ones: a voice
\* goes on at the top, and the surgery of apu_isr takes one voice off where it
\* is and changes nothing else, whatever the VP's pointers were at the trap.
ImplementsList == Links!Spec

\* Taking a voice off does not cost another voice its turn, or give it a second
\* one: the voices the VP has still to process in this pass stay the same.
Remaining(c) ==
  {order[c][k] : k \in {n \in DOMAIN order[c] :
     \E m \in 1 .. n : order[c][m] = cvl[c]}}
TurnsKept ==
  [][pc = "search" /\ pc' = "out" =>
       \A c \in Classes : Remaining(c)' = Remaining(c) \ {work.idle}]_vars

\* The search ends and the VP is released from every trap.
TrapReturns == trapped ~> ~trapped
=============================================================================
