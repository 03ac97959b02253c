------------------------------- MODULE SgePool -------------------------------
(***************************************************************************)
(* What the scatter-gather entry (SGE) allocator of the voice processor    *)
(* promises, seen from nxAudioBufferSubmit and nxAudioVoiceDestroy: a      *)
(* request is answered in one step, with a range nobody holds or with a    *)
(* refusal.  SgeAllocator is the code that does it.                        *)
(***************************************************************************)
EXTENDS Integers

CONSTANTS
  Owners,     \* voices
  NoOwner,
  Words,      \* 32-bit words of g_sge_bitmap
  Width,      \* bits of a word
  MaxCount    \* the most entries one buffer may need

VARIABLES
  held,       \* the range of entries of each voice (count 0: none)
  asking,     \* the request under way
  refused,    \* whether the last request was answered with -1
  lost        \* entries of voices that a shutdown left undestroyed

Entries == 0 .. Words * Width - 1
Counts  == 1 .. MaxCount
Nothing == [base |-> 0, count |-> 0]
NoRequest == [owner |-> NoOwner, count |-> 0]
Span(r) == r.base .. r.base + r.count - 1
Taken    == lost \cup UNION {Span(held[v]) : v \in Owners}

\* The allocator considers one start per word: its first free entry.
FirstFreeOfWord(s) ==
  /\ s \in Entries \ Taken
  /\ \A t \in Entries \ Taken : t \div Width = s \div Width => s <= t
Fits(s, n) ==
  FirstFreeOfWord(s) /\ s .. s + n - 1 \subseteq Entries \ Taken

Init ==
  /\ held = [v \in Owners |-> Nothing]
  /\ asking = NoRequest
  /\ refused = FALSE
  /\ lost = {}

\* nxAudioBufferSubmit gives back what the voice holds, then asks.
Ask(v, n) ==
  /\ asking = NoRequest
  /\ held' = [held EXCEPT ![v] = Nothing]
  /\ asking' = [owner |-> v, count |-> n]
  /\ UNCHANGED <<refused, lost>>
Grant ==
  /\ asking # NoRequest
  /\ \E s \in Entries :
       /\ Fits(s, asking.count)
       /\ \A t \in Entries : Fits(t, asking.count) => s <= t
       /\ held' = [held EXCEPT ![asking.owner] =
                     [base |-> s, count |-> asking.count]]
  /\ asking' = NoRequest
  /\ refused' = FALSE
  /\ UNCHANGED lost
Refuse ==
  /\ asking # NoRequest
  /\ \A s \in Entries : ~Fits(s, asking.count)
  /\ asking' = NoRequest
  /\ refused' = TRUE
  /\ UNCHANGED <<held, lost>>
GiveBack(v) ==
  /\ asking = NoRequest
  /\ held[v] # Nothing
  /\ held' = [held EXCEPT ![v] = Nothing]
  /\ UNCHANGED <<asking, refused, lost>>
\* nxAudioShutdown, which knows nothing of the voices or the bitmap.
Shutdown ==
  /\ asking = NoRequest
  /\ lost' = Taken
  /\ held' = [v \in Owners |-> Nothing]
  /\ UNCHANGED <<asking, refused>>

Next == \/ \E v \in Owners, n \in Counts : Ask(v, n)
        \/ \E v \in Owners : GiveBack(v)
        \/ Grant \/ Refuse \/ Shutdown
Spec == Init /\ [][Next]_<<held, asking, refused, lost>>
=============================================================================
