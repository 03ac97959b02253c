----------------------------- MODULE SgeAllocator -----------------------------
(***************************************************************************)
(* apu_sge_alloc and apu_sge_free (audio_buffer.c): the bitmap of the      *)
(* voice processor's scatter-gather entries, searched word by word.  Each  *)
(* iteration of a loop is a step.  Both run at PASSIVE_LEVEL on the one    *)
(* application thread, for nxAudioBufferSubmit and nxAudioVoiceDestroy.    *)
(***************************************************************************)
EXTENDS Integers

CONSTANTS
  Owners,     \* nxAudioVoice objects
  NoOwner,    \* no call under way
  Words,      \* MCPX_HW_MAX_BUFFER_SGES / 32
  Width,      \* bits of a word of g_sge_bitmap
  MaxCount    \* bound: the most entries one buffer may need

ASSUME SgeAssumption ==
  /\ NoOwner \notin Owners
  /\ Words \in Nat /\ Width \in Nat \ {0} /\ MaxCount \in Nat

VARIABLES
  used,               \* the bits of g_sge_bitmap that are set
  held,               \* sge_base and sge_count of each voice
  refused,            \* whether the last search returned -1
  pc, owner,          \* the loop under way, and the voice it runs for
  count,              \* needed_sges (0: the call only releases)
  dword, start, run,  \* dword_index, start_bit, consecutive_free
  at, left,           \* the bit the next mask starts at, bits_left
  lost                \* history: the entries of voices that a shutdown left
                      \* undestroyed; nothing clears their bits any more

searchVars == <<dword, start, run>>
markVars   == <<at, left>>
vars == <<used, held, refused, pc, owner, count, searchVars, markVars, lost>>

Entries == 0 .. Words * Width - 1
Counts  == 1 .. MaxCount
Nothing == [base |-> 0, count |-> 0]
Span(r) == r.base .. r.base + r.count - 1
First(d) == d * Width
Last(d)  == d * Width + Width - 1
WordBits(d) == First(d) .. Last(d)

TypeOK ==
  /\ used \subseteq Entries /\ lost \subseteq Entries
  /\ held \in [Owners -> [base : Nat, count : Nat]]
  /\ refused \in BOOLEAN
  /\ pc \in {"idle", "clear", "scan", "extend", "mark"}
  /\ owner \in Owners \cup {NoOwner} /\ count \in Nat
  /\ dword \in 0 .. Words /\ start \in Nat /\ run \in Nat
  /\ at \in Nat /\ left \in Nat

Init ==
  /\ used = {}
  /\ held = [v \in Owners |-> Nothing]
  /\ refused = FALSE
  /\ pc = "idle" /\ owner = NoOwner /\ count = 0
  /\ dword = 0 /\ start = 0 /\ run = 0
  /\ at = 0 /\ left = 0
  /\ lost = {}

Return ==
  /\ pc' = "idle" /\ owner' = NoOwner /\ count' = 0
  /\ dword' = 0 /\ start' = 0 /\ run' = 0
  /\ at' = 0 /\ left' = 0

-----------------------------------------------------------------------------
(* The callers: nxAudioBufferSubmit and nxAudioVoiceDestroy *)

\* Submit gives back what the voice holds, then asks for n entries; it only
\* gives back (n = 0) if the buffer holds no sample block.  So does Destroy.
Submit(v, n) ==
  /\ pc = "idle"
  /\ owner' = v /\ count' = n
  /\ \/ /\ held[v].count > 0
        /\ pc' = "clear" /\ at' = held[v].base /\ left' = held[v].count
     \/ /\ held[v].count = 0 /\ n > 0
        /\ pc' = "scan" /\ UNCHANGED markVars
  /\ UNCHANGED <<used, held, refused, searchVars>>

\* nxAudioShutdown and nxAudioInit leave g_sge_bitmap alone, and
\* nxAudioVoiceCreate clears the voice.
Restart ==
  /\ pc = "idle"
  /\ lost' = lost \cup UNION {Span(held[v]) : v \in Owners}
  /\ held' = [v \in Owners |-> Nothing]
  /\ UNCHANGED <<used, refused, pc, owner, count, searchVars, markVars>>

-----------------------------------------------------------------------------
(* apu_sge_free: one mask per word *)

\* The bits of one mask: from `at` to the end of its word, or fewer.
RestOfWord == Width - (at % Width)
MaskLength == IF RestOfWord > left THEN left ELSE RestOfWord

\* Faulty: the mask always reaches the end of its word.
MaskToTheEnd == at .. at + RestOfWord - 1
Mask == at .. at + MaskLength - 1

Clear ==
  /\ pc = "clear"
  /\ used' = used \ Mask
  /\ \/ /\ left > MaskLength
        /\ at' = at + MaskLength /\ left' = left - MaskLength
        /\ UNCHANGED <<held, pc, owner, count, searchVars>>
     \/ /\ left = MaskLength
        /\ held' = [held EXCEPT ![owner] = Nothing]
        /\ \/ count = 0 /\ Return
           \/ /\ count > 0
              /\ pc' = "scan" /\ at' = 0 /\ left' = 0
              /\ UNCHANGED <<owner, count, searchVars>>
  /\ UNCHANGED refused

-----------------------------------------------------------------------------
(* apu_sge_alloc: the search, then one mask per word *)

\* Faulty: the run is not cut where the word has a used entry.
RunIgnoresUsed(s, e, d) == s \notin used /\ e = Last(d)
\* The entries s .. e are free, and the run ends at e within word d.
RunEnds(s, e, d) ==
  /\ e \in WordBits(d)
  /\ s .. e \cap used = {}
  /\ e = Last(d) \/ e + 1 \in used

\* enough entries: leave both loops and mark them
Found(s) ==
  /\ pc' = "mark" /\ at' = s /\ left' = count
  /\ UNCHANGED dword

GiveUp ==
  /\ refused' = TRUE
  /\ Return
  /\ UNCHANGED <<used, held>>

\* Faulty: a full word ends the search.
FullGivesUp ==
  /\ pc = "scan" /\ dword < Words
  /\ WordBits(dword) \subseteq used
  /\ GiveUp
ScanFull ==
  /\ pc = "scan" /\ dword < Words
  /\ WordBits(dword) \subseteq used
  /\ run' = 0 /\ dword' = dword + 1
  /\ UNCHANGED <<used, held, refused, pc, owner, count, start, markVars>>

\* The first run of the word: long enough, or touching the next word, or not.
ScanWord ==
  /\ pc = "scan" /\ dword < Words
  /\ \E s, e \in WordBits(dword) :
       /\ s \notin used /\ First(dword) .. s - 1 \subseteq used
       /\ s <= e /\ RunEnds(s, e, dword)
       /\ start' = s /\ run' = e - s + 1
       /\ \/ run' >= count /\ Found(s)
          \/ /\ run' < count /\ e = Last(dword)
             /\ pc' = "extend"
             /\ UNCHANGED <<dword, markVars>>
          \/ /\ run' < count /\ e # Last(dword)
             /\ dword' = dword + 1
             /\ UNCHANGED <<pc, markVars>>
  /\ UNCHANGED <<used, held, refused, owner, count>>
ScanFails == pc = "scan" /\ dword = Words /\ GiveUp

\* The inner loop: a run that reached the end of its word goes on in the next.
ExtendFails ==
  /\ pc = "extend" /\ dword + 1 >= Words
  /\ GiveUp
\* Faulty: the outer loop starts again at the word it came from.
BlockedRescans ==
  /\ pc = "extend" /\ dword + 1 < Words
  /\ First(dword + 1) \in used
  /\ run' = 0 /\ pc' = "scan"
  /\ UNCHANGED <<used, held, refused, owner, count, dword, start, markVars>>
ExtendBlocked ==
  /\ pc = "extend" /\ dword + 1 < Words
  /\ First(dword + 1) \in used
  /\ run' = 0 /\ dword' = dword + 1 /\ pc' = "scan"
  /\ UNCHANGED <<used, held, refused, owner, count, start, markVars>>

ExtendWord ==
  /\ pc = "extend" /\ dword + 1 < Words
  /\ dword' = dword + 1
  /\ \E e \in WordBits(dword + 1) :
       /\ RunEnds(First(dword + 1), e, dword + 1)
       /\ \/ /\ e - start + 1 >= count /\ run' = e - start + 1
             /\ pc' = "mark" /\ at' = start /\ left' = count
          \/ /\ e - start + 1 < count /\ e = Last(dword + 1)
             /\ run' = e - start + 1
             /\ UNCHANGED <<pc, markVars>>
          \/ /\ e - start + 1 < count /\ e # Last(dword + 1)
             /\ run' = 0 /\ pc' = "scan"
             /\ UNCHANGED markVars
  /\ UNCHANGED <<used, held, refused, owner, count, start>>

Mark ==
  /\ pc = "mark"
  /\ used' = used \cup Mask
  /\ \/ /\ left > MaskLength
        /\ at' = at + MaskLength /\ left' = left - MaskLength
        /\ UNCHANGED <<held, refused, pc, owner, count, searchVars>>
     \/ /\ left = MaskLength
        /\ held' = [held EXCEPT ![owner] = [base |-> start, count |-> count]]
        /\ refused' = FALSE
        /\ Return

Call ==
  \/ \E v \in Owners, n \in Counts \cup {0} : Submit(v, n)
  \/ Clear \/ ScanFull \/ ScanWord \/ ScanFails
  \/ ExtendFails \/ ExtendBlocked \/ ExtendWord \/ Mark
Next == Restart \/ (Call /\ UNCHANGED lost)

Spec == Init /\ [][Next]_vars
\* A loop the application is in goes on; nothing makes it call again.
FairSpec == Spec /\ WF_vars(pc # "idle" /\ Next)

-----------------------------------------------------------------------------
(* Properties *)

\* The entries of v that are marked now, also while they are being cleared.
Kept(v) == IF pc = "clear" /\ v = owner THEN at .. at + left - 1
                                        ELSE Span(held[v])
\* Two voices never share an entry: neither's sound is read through a page
\* that apu_sge_alloc gave to the other.
NoSharing ==
  \A v, w \in Owners : v # w => Kept(v) \cap Kept(w) = {}

\* But for what a shutdown has lost, the bitmap is exactly the entries of the
\* voices, and those marked so far for the voice being served: apu_sge_free and
\* apu_sge_alloc lose none, and give none of the lost ones out again.
EntriesAccounted ==
  used \ lost = (UNION {Kept(v) : v \in Owners})
                \cup (IF pc = "mark" THEN start .. at - 1 ELSE {})

\* The call in progress has a voice; a voice being served holds nothing, and
\* the masks of a release cover what is left of the range it holds.
CallSound ==
  /\ pc = "idle" <=> owner = NoOwner
  /\ pc \in {"scan", "extend", "mark"} => held[owner].count = 0 /\ count > 0
  /\ pc = "clear" =>
       /\ left > 0 /\ held[owner].base <= at
       /\ at + left = held[owner].base + held[owner].count

\* The run being extended is free up to the end of its word; of the run being
\* marked, what is left is free, and what is marked belongs to nobody else.
SearchSound ==
  /\ pc = "extend" =>
       /\ dword < Words /\ start <= Last(dword)
       /\ start .. Last(dword) \cap used = {}
  /\ pc = "mark" =>
       /\ left > 0 /\ start <= at /\ at + left = start + count
       /\ at .. at + left - 1 \subseteq Entries \ used
       /\ start .. at - 1 \subseteq used
       /\ \A v \in Owners : start .. at - 1 \cap Kept(v) = {}

\* The inductive invariant behind NoSharing (SgeAllocatorProofs).
SgeInv ==
  /\ TypeOK
  /\ NoSharing
  /\ \A v \in Owners : Kept(v) \subseteq used
  /\ CallSound /\ SearchSound

\* The loops implement SgePool: a request is granted the first word whose
\* first free run is long enough, and refused only if there is none.
Pool == INSTANCE SgePool WITH
  asking <- IF pc \in {"scan", "extend", "mark"}
              THEN [owner |-> owner, count |-> count]
              ELSE [owner |-> NoOwner, count |-> 0]
ImplementsPool == Pool!Spec

\* No entry below i could have been the answer of SgePool.
NoneFitsBefore(i) == \A s \in 0 .. i - 1 : ~Pool!Fits(s, count)

\* What the search has passed over could not have been granted, and what it has
\* settled on is what SgePool grants.
SearchComplete ==
  /\ pc \in {"idle", "clear"} => dword = 0
  /\ pc = "scan" => NoneFitsBefore(First(dword))
  /\ pc = "extend" =>
       /\ Pool!FirstFreeOfWord(start) /\ Last(dword) - start + 1 < count
       /\ NoneFitsBefore(start)
  /\ pc = "mark" => Pool!Fits(start, count) /\ NoneFitsBefore(start)

\* A voice holds a range, or nothing at all.
HoldsOrNothing ==
  /\ count \in Counts \cup {0}
  /\ \A v \in Owners : held[v] = Nothing \/ held[v].count > 0

\* The inductive invariant behind ImplementsPool (SgeAllocatorProofs).
PoolInv ==
  SgeInv /\ EntriesAccounted /\ lost \subseteq used
  /\ HoldsOrNothing /\ SearchComplete

\* Every call returns.
CallReturns == pc # "idle" ~> pc = "idle"

\* include/nxaudio.h:184: nxAudioShutdown "releases associated resources", so
\* when no voice holds an entry, every entry can be given out.
EntriesComeBack ==
  pc = "idle" /\ (\A v \in Owners : held[v] = Nothing) => used = {}
=============================================================================
