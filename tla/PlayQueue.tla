----------------------------- MODULE PlayQueue -----------------------------
(***************************************************************************)
(* What a streaming voice promises, as nxaudio.h:206-215 describes         *)
(* nxAudioBufferQueue: a queue of two places whose buffers are played one  *)
(* after the other.  The samples of a wave file, cut into chunks and taken *)
(* round and round, are heard in the order of the file.                    *)
(***************************************************************************)
EXTENDS Naturals, Sequences

CONSTANTS Chunks, Places

VARIABLES
  queue,      \* the chunks queued, the one that plays at the head
  next        \* the chunk of the file that is queued next

Init ==
  /\ queue = [i \in 1 .. Places |-> (i - 1) % Chunks]
  /\ next = Places % Chunks

Enqueue ==
  /\ Len(queue) < 2
  /\ queue' = Append(queue, next)
  /\ next' = (next + 1) % Chunks
Finish ==
  /\ queue # <<>>
  /\ queue' = Tail(queue)
  /\ UNCHANGED next

Next == Enqueue \/ Finish
Spec == Init /\ [][Next]_<<queue, next>>
=============================================================================
