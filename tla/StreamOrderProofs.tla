------------------------- MODULE StreamOrderProofs -------------------------
(***************************************************************************)
(* For a wave file of any number of chunks: the example's count of         *)
(* completions never runs ahead of the free sides, is exact where the      *)
(* decrement is one instruction, and a voice processor that goes on with   *)
(* the first side it is given plays the file in order (PlayQueue).         *)
(***************************************************************************)
EXTENDS StreamOrder, FiniteSetTheorems, SequenceTheorems, TLAPS

FreeCount == (IF slots[0] = NoBuffer THEN 1 ELSE 0)
             + (IF slots[1] = NoBuffer THEN 1 ELSE 0)
InHand == IF appPc \in {"fill", "queue"} THEN 1 ELSE 0

\* The count is at most the free sides, less the one main is about to use; a
\* count read and not yet written back has not grown since by less than one.
CountSound ==
  /\ completed + InHand <= FreeCount
  /\ appPc = "store" => 1 <= seen /\ seen <= completed
CountInv == TypeOK /\ CountSound

\* No side is free by the number that FreeCount adds up.
LEMMA FreeSidesCounted ==
  ASSUME slots \in [Sides -> Buffers \cup {NoBuffer}]
  PROVE  FreeCount = Cardinality(FreeSides) /\ (FreeSides = {} <=> FreeCount = 0)
<1>1. CASE slots[0] = NoBuffer /\ slots[1] = NoBuffer
  <2>1. FreeSides = {0} \cup {1}
    BY <1>1 DEF FreeSides, Sides
  <2>2. IsFiniteSet({0}) /\ Cardinality({0}) = 1 /\ 1 \notin {0}
    BY FS_Singleton
  <2>3. Cardinality({0} \cup {1}) = 2
    BY <2>2, FS_AddElement
  <2> QED
    BY <1>1, <2>1, <2>3 DEF FreeCount
<1>2. CASE slots[0] = NoBuffer /\ slots[1] # NoBuffer
  <2>1. FreeSides = {0}
    BY <1>2 DEF FreeSides, Sides
  <2> QED
    BY <1>2, <2>1, FS_Singleton DEF FreeCount
<1>3. CASE slots[0] # NoBuffer /\ slots[1] = NoBuffer
  <2>1. FreeSides = {1}
    BY <1>3 DEF FreeSides, Sides
  <2> QED
    BY <1>3, <2>1, FS_Singleton DEF FreeCount
<1>4. CASE slots[0] # NoBuffer /\ slots[1] # NoBuffer
  <2>1. FreeSides = {}
    BY <1>4 DEF FreeSides, Sides
  <2> QED
    BY <1>4, <2>1, FS_EmptySet DEF FreeCount
<1> QED
  BY <1>1, <1>2, <1>3, <1>4

\* The side nxAudioBufferQueue takes is a free one.
LEMMA ChosenIsFree ==
  ASSUME FreeSides # {}
  PROVE  Chosen(FreeSides) \in FreeSides /\ Chosen(FreeSides) \in Sides
<1>1. \E j \in FreeSides : \A i \in FreeSides : j <= i
  BY DEF FreeSides, Sides
<1> QED
  BY <1>1 DEF Chosen, FreeSides

LEMMA NextBufferOther ==
  ASSUME NEW b \in Buffers
  PROVE  NextBuffer(b) \in Buffers /\ NextBuffer(b) = 1 - b
<1>1. (0 + 1) % 2 = 1 /\ (1 + 1) % 2 = 0
  OBVIOUS
<1> QED
  BY <1>1 DEF NextBuffer, Buffers

LEMMA ChunkTypes ==
  ASSUME NEW n \in Nat
  PROVE  n % Chunks \in 0 .. Chunks - 1
BY StreamAssumption

LEMMA InitCount == Init => CountInv
<1> SUFFICES ASSUME Init PROVE CountInv
  OBVIOUS
<1>1. slots = [j \in Sides |-> j] /\ slots[0] # NoBuffer /\ slots[1] # NoBuffer
  BY StreamAssumption DEF Init, Sides
<1>2. /\ \A b \in Buffers : b % Chunks \in 0 .. Chunks - 1
      /\ 2 % Chunks \in 0 .. Chunks - 1
  BY ChunkTypes DEF Buffers
<1>3. data \in [Buffers -> 0 .. Chunks - 1] /\ pos \in 0 .. Chunks - 1
  BY <1>2 DEF Init
<1>4. slots \in [Sides -> Buffers] /\ loaded = slots
  BY DEF Init, Sides, Buffers
<1>5. done \in [Sides -> BOOLEAN] /\ dpcQueued \in BOOLEAN /\ atomic \in BOOLEAN
  BY DEF Init
<1>6. /\ turn \in Sides /\ dpcSide \in 0 .. 2 /\ completed \in 0 .. 2
      /\ nextFill \in Buffers /\ seen \in 0 .. 2
      /\ appPc \in {"poll", "store", "fill", "queue", "sleep"}
  BY DEF Init, Sides, Buffers
<1>7. TypeOK
  BY <1>3, <1>4, <1>5, <1>6 DEF TypeOK
<1> QED
  BY <1>1, <1>7 DEF Init, CountInv, CountSound, FreeCount, InHand

LEMMA CountStep == CountInv /\ [Next]_vars => CountInv'
<1> SUFFICES ASSUME CountInv, [Next]_vars PROVE CountInv'
  OBVIOUS
<1> USE DEF CountInv
<1>0. atomic' = atomic
  BY DEF Next, vars
<1> USE <1>0
<1>1. CASE TakeCompletion
  BY <1>1 DEF TakeCompletion, AppRunsAt, TypeOK, CountSound, FreeCount, InHand,
              deviceVars
<1>2. CASE PollEvents
  BY <1>2 DEF PollEvents, AppRunsAt, TypeOK, CountSound, FreeCount, InHand,
              deviceVars
<1>3. CASE FillChunk
  <2>1. pos' \in 0 .. Chunks - 1
    BY <1>3, ChunkTypes DEF FillChunk, LoopBack, TypeOK
  <2> QED
    BY <1>3, <2>1 DEF FillChunk, AppRunsAt, TypeOK, CountSound, FreeCount,
                      InHand, deviceVars
<1>4. CASE BufferQueue
  <2>1. FreeSides # {}
    BY <1>4, FreeSidesCounted DEF BufferQueue, AppRunsAt, TypeOK, CountSound,
                                  InHand, FreeCount
  <2> DEFINE j == Chosen(FreeSides)
  <2>2. j \in Sides /\ slots[j] = NoBuffer
    BY <2>1, ChosenIsFree DEF FreeSides
  <2>3. /\ Load(j, nextFill) /\ slots' = [slots EXCEPT ![j] = nextFill]
        /\ nextFill' = NextBuffer(nextFill) /\ appPc' = "poll"
        /\ appPc = "queue"
        /\ UNCHANGED <<dpcQueued, dpcSide, completed, data, pos, seen>>
    BY <1>4, <2>1 DEF BufferQueue, AppRunsAt
  <2>4. nextFill \in Buffers /\ nextFill # NoBuffer /\ nextFill' \in Buffers
    BY <2>3, NextBufferOther, StreamAssumption DEF TypeOK, Buffers
  <2> HIDE DEF j
  <2>5. TypeOK'
    <3>1. turn' \in Sides
      BY <2>2, <2>3 DEF Load, TypeOK
    <3>2. /\ slots' \in [Sides -> Buffers \cup {NoBuffer}]
          /\ loaded' \in [Sides -> Buffers \cup {NoBuffer}]
          /\ done' \in [Sides -> BOOLEAN]
      BY <2>2, <2>3, <2>4 DEF Load, TypeOK
    <3> QED
      BY <2>3, <2>4, <3>1, <3>2 DEF TypeOK
  <2>6. FreeCount' = FreeCount - 1
    BY <2>2, <2>3, <2>4 DEF TypeOK, FreeCount, Sides
  <2>7. InHand = 1 /\ InHand' = 0 /\ FreeCount \in Nat
    BY <2>3 DEF InHand, FreeCount
  <2>8. completed + 1 <= FreeCount /\ completed' = completed /\ completed \in Nat
    BY <2>3, <2>7 DEF CountSound, TypeOK
  <2>9. completed' + InHand' <= FreeCount'
    BY <2>6, <2>7, <2>8
  <2>10. appPc' # "store"
    BY <2>3
  <2> QED
    BY <2>5, <2>9, <2>10 DEF CountSound
<1>5. CASE DpcStart
  <2>1. /\ dpcQueued' \in BOOLEAN /\ dpcSide' = 0
        /\ UNCHANGED <<slots, loaded, done, turn, completed, nextFill, data, pos,
                        appPc, seen>>
    BY <1>5 DEF DpcStart, appVars, deviceVars
  <2> QED
    BY <2>1 DEF TypeOK, CountSound, FreeCount, InHand
<1>6. CASE DpcSide
  <2>1. CASE Finished(dpcSide)
    <3>1. /\ dpcSide \in Sides /\ slots[dpcSide] # NoBuffer
          /\ slots' = [slots EXCEPT ![dpcSide] = NoBuffer]
          /\ completed' = completed + 1 /\ dpcSide' = dpcSide + 1
          /\ UNCHANGED <<deviceVars, dpcQueued, appVars>>
      BY <1>6, <2>1 DEF DpcSide, Finished, TypeOK, Sides
    <3>2. FreeCount' = FreeCount + 1
      BY <3>1 DEF TypeOK, FreeCount, Sides
    <3>3. FreeCount' \in 0 .. 2
      BY DEF FreeCount
    <3>4. CountSound'
      BY <3>1, <3>2 DEF CountSound, TypeOK, InHand, FreeCount, appVars
    <3>5. completed' \in 0 .. 2
      BY <3>1, <3>3, <3>4 DEF CountSound, InHand, TypeOK
    <3>6. TypeOK'
      BY <3>1, <3>5 DEF TypeOK, deviceVars, appVars, Sides
    <3> QED
      BY <3>4, <3>6
  <2>2. CASE ~Finished(dpcSide)
    BY <1>6, <2>2 DEF DpcSide, appVars, deviceVars, TypeOK, CountSound,
                      FreeCount, InHand
  <2> QED
    BY <2>1, <2>2
<1>7. CASE SslEnds
  BY <1>7 DEF SslEnds, appVars, TypeOK, CountSound, FreeCount, InHand, Sides
<1>8. CASE UNCHANGED vars
  BY <1>8 DEF vars, moving, appVars, deviceVars, TypeOK, CountSound, FreeCount, InHand
<1> QED
  BY <1>1, <1>2, <1>3, <1>4, <1>5, <1>6, <1>7, <1>8 DEF Next

-----------------------------------------------------------------------------
(* The count.                                                              *)

\* Types, whether or not the count loses completions.
THEOREM TypeCorrect == Spec => []TypeOK
<1>1. CountInv => TypeOK
  BY DEF CountInv
<1> QED
  BY InitCount, CountStep, <1>1, PTL DEF Spec

\* nxAudioBufferQueue never refuses the example's buffer, whether or not the
\* decrement is one instruction.
THEOREM NeverRefused == Spec => []NeverFull
<1>1. CountInv => NeverFull
  BY FreeSidesCounted DEF CountInv, CountSound, NeverFull, TypeOK, InHand,
                          FreeCount
<1> QED
  BY InitCount, CountStep, <1>1, PTL DEF Spec

\* With a decrement of one instruction no completion is ever lost.
ExactInv ==
  atomic => completed + InHand = FreeCount /\ appPc # "store"
THEOREM NoCompletionLost == Spec => []EveryFreeSideCounted
<1>1. Init => ExactInv
  <2> SUFFICES ASSUME Init PROVE ExactInv
    OBVIOUS
  <2>2. slots[0] # NoBuffer /\ slots[1] # NoBuffer
    BY StreamAssumption DEF Init, Sides
  <2> QED
    BY <2>2 DEF Init, ExactInv, InHand, FreeCount
<1>2. CountInv /\ ExactInv /\ [Next]_vars => ExactInv'
  <2> SUFFICES ASSUME CountInv, ExactInv, [Next]_vars PROVE ExactInv'
    OBVIOUS
  <2>1. atomic' = atomic
    BY DEF Next, vars
  <2> SUFFICES ASSUME atomic
               PROVE  completed' + InHand' = FreeCount' /\ appPc' # "store"
    BY <2>1 DEF ExactInv
  <2>2. /\ completed + InHand = FreeCount /\ appPc # "store" /\ TypeOK
        /\ InHand \in Nat /\ FreeCount \in Nat /\ completed \in Nat
    BY DEF ExactInv, CountInv, InHand, FreeCount, TypeOK
  <2>3. CASE TakeCompletion
    <3>1. /\ appPc = "poll" /\ completed' = completed - 1 /\ appPc' = "fill"
          /\ slots' = slots
      BY <2>2, <2>3 DEF TakeCompletion, AppRunsAt
    <3>2. InHand = 0 /\ InHand' = 1 /\ FreeCount' = FreeCount
      BY <3>1 DEF InHand, FreeCount
    <3> QED
      BY <2>2, <3>1, <3>2
  <2>4. CASE PollEvents \/ FillChunk \/ DpcStart \/ SslEnds \/ UNCHANGED vars
    <3>1. completed' = completed /\ slots' = slots
      BY <2>4 DEF PollEvents, FillChunk, DpcStart, SslEnds, vars, moving, appVars
    <3>2. InHand' = InHand /\ appPc' # "store"
      BY <2>2, <2>4 DEF PollEvents, FillChunk, DpcStart, SslEnds, vars, moving, appVars,
                        AppRunsAt, InHand
    <3>3. FreeCount' = FreeCount
      BY <3>1 DEF FreeCount
    <3> QED
      BY <2>2, <3>1, <3>2, <3>3
  <2>5. CASE BufferQueue
    <3>1. FreeSides # {}
      <4>1. InHand = 1
        BY <2>5 DEF BufferQueue, AppRunsAt, InHand
      <4> QED
        BY <2>2, <4>1, FreeSidesCounted DEF TypeOK
    <3> DEFINE j == Chosen(FreeSides)
    <3>2. j \in Sides /\ slots[j] = NoBuffer
      BY <3>1, ChosenIsFree DEF FreeSides
    <3>3. /\ slots' = [slots EXCEPT ![j] = nextFill] /\ appPc' = "poll"
          /\ appPc = "queue" /\ completed' = completed
      BY <2>5, <3>1 DEF BufferQueue, AppRunsAt
    <3>4. nextFill # NoBuffer
      BY <2>2, StreamAssumption DEF TypeOK, Buffers
    <3> HIDE DEF j
    <3>5. FreeCount' = FreeCount - 1
      BY <2>2, <3>2, <3>3, <3>4 DEF TypeOK, FreeCount, Sides
    <3>6. InHand = 1 /\ InHand' = 0
      BY <3>3 DEF InHand
    <3> QED
      BY <2>2, <3>3, <3>5, <3>6
  <2>6. CASE DpcSide
    <3>0. /\ appPc' = appPc /\ dpcSide \in Sides
      BY <2>2, <2>6 DEF DpcSide, appVars, TypeOK, Sides
    <3>1. InHand' = InHand
      BY <3>0 DEF InHand
    <3>2. CASE Finished(dpcSide)
      <4>1. /\ slots[dpcSide] # NoBuffer
            /\ slots' = [slots EXCEPT ![dpcSide] = NoBuffer]
            /\ completed' = completed + 1
        BY <2>6, <3>2 DEF DpcSide, Finished
      <4>2. FreeCount' = FreeCount + 1
        BY <2>2, <3>0, <4>1 DEF TypeOK, FreeCount, Sides
      <4> QED
        BY <2>2, <3>0, <3>1, <4>1, <4>2
    <3>3. CASE ~Finished(dpcSide)
      <4>1. slots' = slots /\ completed' = completed
        BY <2>6, <3>3 DEF DpcSide
      <4>2. FreeCount' = FreeCount
        BY <4>1 DEF FreeCount
      <4> QED
        BY <2>2, <3>0, <3>1, <4>1, <4>2
    <3> QED
      BY <3>2, <3>3
  <2> QED
    BY <2>3, <2>4, <2>5, <2>6 DEF Next
<1>3. CountInv /\ ExactInv => EveryFreeSideCounted
  BY FreeSidesCounted DEF CountInv, ExactInv, EveryFreeSideCounted, TypeOK, InHand
<1> QED
  BY InitCount, CountStep, <1>1, <1>2, <1>3, PTL DEF Spec

-----------------------------------------------------------------------------
(* The order.                                                              *)

\* An SSL describes a buffer only while the driver holds it and before its
\* notifier is set; a VP that has something to play is at it; the buffer that
\* was queued last is the one before nextFill; a chunk waits to be queued.
OrderSound ==
  /\ \A j \in Sides : loaded[j] # NoBuffer => slots[j] # NoBuffer /\ ~done[j]
  /\ loaded[turn] = NoBuffer => loaded[1 - turn] = NoBuffer
  /\ loaded[turn] # NoBuffer =>
       loaded[turn] = IF loaded[1 - turn] = NoBuffer THEN 1 - nextFill
                                                     ELSE nextFill
  /\ loaded[1 - turn] # NoBuffer => loaded[1 - turn] = 1 - nextFill
  /\ appPc = "queue" => pos = (data[nextFill] + 1) % Chunks
OrderInv == CountInv /\ OrderSound

LEMMA InitOrder == Init => OrderInv
<1> SUFFICES ASSUME Init PROVE OrderInv
  OBVIOUS
<1>1. CountInv
  BY InitCount
<1>2. /\ loaded[0] = 0 /\ loaded[1] = 1 /\ slots[0] = 0 /\ slots[1] = 1
      /\ turn = 0 /\ nextFill = 0 /\ appPc = "poll"
      /\ \A j \in Sides : ~done[j]
  BY DEF Init, Sides
<1>3. OrderSound
  BY <1>2, StreamAssumption DEF OrderSound, Sides
<1> QED
  BY <1>1, <1>3 DEF OrderInv

\* While main fills and queues, an SSL at most describes the other buffer.
LEMMA NextFillIsIdle ==
  ASSUME OrderInv, appPc \in {"fill", "queue"}
  PROVE  /\ \A j \in Sides : loaded[j] # nextFill
         /\ loaded[1 - turn] = NoBuffer
         /\ FreeSides # {}
<1>1. TypeOK /\ FreeCount \in Nat /\ FreeCount >= 1 /\ nextFill # NoBuffer
  BY StreamAssumption DEF OrderInv, CountInv, CountSound, InHand, FreeCount,
                          TypeOK, Buffers
<1>2. FreeSides # {}
  BY <1>1, FreeSidesCounted DEF TypeOK
<1>3. PICK j \in Sides : slots[j] = NoBuffer
  BY <1>2 DEF FreeSides
<1>4. loaded[j] = NoBuffer /\ turn \in Sides /\ (j = turn \/ j = 1 - turn)
  BY <1>1, <1>3 DEF OrderInv, OrderSound, TypeOK, Sides
<1>5. loaded[1 - turn] = NoBuffer
  BY <1>4 DEF OrderInv, OrderSound
<1>6. loaded[turn] # nextFill
  BY <1>1, <1>5 DEF OrderInv, OrderSound, TypeOK, Buffers
<1> QED
  BY <1>1, <1>2, <1>4, <1>5, <1>6 DEF Sides

LEMMA OrderStep ==
  ASSUME KeepsTurn = FALSE, OrderInv, [Next]_vars
  PROVE  OrderInv'
<1>1. CountInv'
  BY CountStep DEF OrderInv
<1>2. TypeOK /\ TypeOK'
  BY <1>1 DEF OrderInv, CountInv
<1> SUFFICES OrderSound'
  BY <1>1 DEF OrderInv
<1>3. CASE TakeCompletion \/ PollEvents \/ DpcStart \/ UNCHANGED vars
  <2>1. /\ UNCHANGED <<slots, loaded, done, turn, nextFill, data, pos>>
        /\ appPc' = "queue" => appPc = "queue"
    BY <1>3 DEF TakeCompletion, PollEvents, DpcStart, vars, moving, appVars, deviceVars
  <2> QED
    BY <2>1 DEF OrderInv, OrderSound
<1>4. CASE FillChunk
  <2>1. /\ UNCHANGED <<slots, loaded, done, turn, nextFill>>
        /\ pos' = (pos + 1) % Chunks
        /\ data' = [data EXCEPT ![nextFill] = pos]
    BY <1>4 DEF FillChunk, LoopBack, deviceVars
  <2>2. data'[nextFill'] = pos
    BY <1>2, <2>1 DEF TypeOK
  <2> QED
    BY <2>1, <2>2 DEF OrderInv, OrderSound
<1>5. CASE BufferQueue
  <2>1. /\ FreeSides # {} /\ loaded[1 - turn] = NoBuffer
        /\ nextFill # NoBuffer /\ nextFill \in Buffers
        /\ nextFill' = 1 - nextFill
    BY <1>2, <1>5, NextFillIsIdle, NextBufferOther, StreamAssumption
       DEF BufferQueue, AppRunsAt, TypeOK, Buffers
  <2> DEFINE j == Chosen(FreeSides)
  <2>2. j \in Sides /\ slots[j] = NoBuffer
    BY <2>1, ChosenIsFree DEF FreeSides
  <2>3. /\ Load(j, nextFill) /\ slots' = [slots EXCEPT ![j] = nextFill]
        /\ appPc' = "poll"
    BY <1>5, <2>1 DEF BufferQueue
  <2> HIDE DEF j
  <2>4. loaded[j] = NoBuffer
    BY <2>2 DEF OrderInv, OrderSound
  <2>5. /\ loaded' = [loaded EXCEPT ![j] = nextFill]
        /\ done' = [done EXCEPT ![j] = FALSE]
        /\ turn' = IF Silent THEN j ELSE turn
    BY <2>3 DEF Load
  <2>6. \A i \in Sides : loaded'[i] # NoBuffer => slots'[i] # NoBuffer /\ ~done'[i]
    <3> TAKE i \in Sides
    <3>1. CASE i = j
      BY <1>2, <2>1, <2>2, <2>3, <2>5, <3>1 DEF TypeOK
    <3>2. CASE i # j
      <4>1. loaded'[i] = loaded[i] /\ slots'[i] = slots[i] /\ done'[i] = done[i]
        BY <1>2, <2>2, <2>3, <2>5, <3>2 DEF TypeOK
      <4> QED
        BY <4>1 DEF OrderInv, OrderSound
    <3> QED
      BY <3>1, <3>2
  <2>7. CASE loaded[turn] = NoBuffer
    <3>1. Silent
      BY <1>2, <2>1, <2>7 DEF Silent, TypeOK, Sides
    <3>2. /\ turn' = j /\ loaded'[turn'] = nextFill
          /\ loaded'[1 - turn'] = NoBuffer
      BY <1>2, <2>2, <2>5, <3>1 DEF TypeOK, Silent, Sides
    <3> QED
      BY <2>1, <2>3, <2>6, <3>2 DEF OrderSound, Buffers
  <2>8. CASE loaded[turn] # NoBuffer
    <3>1. ~Silent /\ j = 1 - turn
      BY <1>2, <2>2, <2>4, <2>8 DEF Silent, TypeOK, Sides
    <3>2. loaded[turn] = 1 - nextFill
      BY <2>1, <2>8 DEF OrderInv, OrderSound
    <3>3. /\ turn' = turn /\ loaded'[turn'] = 1 - nextFill
          /\ loaded'[1 - turn'] = nextFill
      BY <1>2, <2>2, <2>5, <3>1, <3>2 DEF TypeOK, Sides
    <3>4. 1 - nextFill # NoBuffer
      BY <2>8, <3>2
    <3> QED
      BY <2>1, <2>3, <2>6, <3>3, <3>4 DEF OrderSound, Buffers
  <2> QED
    BY <2>7, <2>8
<1>6. CASE DpcSide
  <2>1. UNCHANGED <<loaded, done, turn, nextFill, data, pos, appPc>>
    BY <1>6 DEF DpcSide, deviceVars, appVars
  <2>2. \A i \in Sides : loaded'[i] # NoBuffer => slots'[i] # NoBuffer
    <3> SUFFICES ASSUME NEW i \in Sides, loaded[i] # NoBuffer
                 PROVE  slots'[i] # NoBuffer
      BY <2>1
    <3>1. slots[i] # NoBuffer /\ ~done[i]
      BY DEF OrderInv, OrderSound
    <3>2. CASE Finished(dpcSide)
      BY <1>2, <1>6, <3>1, <3>2 DEF DpcSide, Finished, TypeOK
    <3>3. CASE ~Finished(dpcSide)
      BY <1>6, <3>1, <3>3 DEF DpcSide
    <3> QED
      BY <3>2, <3>3
  <2>3. \A i \in Sides : loaded'[i] # NoBuffer => ~done'[i]
    BY <2>1 DEF OrderInv, OrderSound
  <2> QED
    BY <2>1, <2>2, <2>3 DEF OrderInv, OrderSound
<1>7. CASE SslEnds
  <2>1. /\ loaded[turn] # NoBuffer
        /\ loaded' = [loaded EXCEPT ![turn] = NoBuffer]
        /\ done' = [done EXCEPT ![turn] = TRUE]
        /\ turn' = 1 - turn
        /\ UNCHANGED <<slots, nextFill, data, pos, appPc>>
    BY <1>7 DEF SslEnds, appVars
  <2>2. /\ turn \in Sides /\ turn' \in Sides /\ 1 - turn' = turn
        /\ loaded'[turn] = NoBuffer /\ loaded'[turn'] = loaded[1 - turn]
    BY <1>2, <2>1 DEF TypeOK, Sides
  <2>3. \A i \in Sides : loaded'[i] # NoBuffer => slots'[i] # NoBuffer /\ ~done'[i]
    <3> TAKE i \in Sides
    <3>1. CASE i = turn
      BY <2>2, <3>1
    <3>2. CASE i # turn
      <4>1. loaded'[i] = loaded[i] /\ done'[i] = done[i] /\ slots'[i] = slots[i]
        BY <1>2, <2>1, <3>2 DEF TypeOK
      <4> QED
        BY <4>1 DEF OrderInv, OrderSound
    <3> QED
      BY <3>1, <3>2
  <2> QED
    BY <2>1, <2>2, <2>3 DEF OrderInv, OrderSound
<1> QED
  BY <1>3, <1>4, <1>5, <1>6, <1>7 DEF Next

\* A buffer an SSL still describes is never written into, for a VP that goes
\* on with the first side it is given, even where completions are lost.
THEOREM NeverOverwritten ==
  ASSUME KeepsTurn = FALSE
  PROVE  Spec => []NoOverwritePlaying
<1>1. OrderInv => NoOverwritePlaying
  BY NextFillIsIdle DEF NoOverwritePlaying
<1>2. OrderInv /\ [Next]_vars => OrderInv'
  BY OrderStep
<1> QED
  BY InitOrder, <1>1, <1>2, PTL DEF Spec

-----------------------------------------------------------------------------
(* The refinement.  Outcomes of the mapping, by what the SSLs hold.        *)

Waiting == Heard(turn) \o Heard(1 - turn)
Following == IF appPc = "queue" THEN data[nextFill] ELSE pos

LEMMA PairAppended == ASSUME NEW a, NEW b PROVE Append(<<a>>, b) = <<a, b>>
<1> DEFINE S == {a, b}  s == <<a>>  r == Append(s, b)  u == <<a, b>>
<1>1. s \in Seq(S) /\ Len(s) = 1 /\ s[1] = a /\ b \in S
  OBVIOUS
<1>2. r \in Seq(S) /\ Len(r) = 2 /\ r[1] = a /\ r[2] = b
  BY <1>1, AppendProperties
<1>3. u \in Seq(S) /\ Len(u) = 2 /\ u[1] = a /\ u[2] = b
  OBVIOUS
<1> HIDE DEF S, s, r, u
<1>4. \A i \in 1 .. Len(r) : r[i] = u[i]
  BY <1>2, <1>3
<1>5. r = u
  BY <1>2, <1>3, <1>4, SeqEqual
<1> QED
  BY <1>5 DEF r, u, s

LEMMA PairConcatenated == ASSUME NEW a, NEW b PROVE <<a>> \o <<b>> = <<a, b>>
<1> DEFINE S == {a, b}  s == <<a>>  t == <<b>>  r == s \o t  u == <<a, b>>
<1>1. /\ s \in Seq(S) /\ Len(s) = 1 /\ s[1] = a
      /\ t \in Seq(S) /\ Len(t) = 1 /\ t[1] = b
  OBVIOUS
<1>2. r \in Seq(S) /\ Len(r) = 2 /\ r[1] = a /\ r[2] = b
  BY <1>1, ConcatProperties
<1>3. u \in Seq(S) /\ Len(u) = 2 /\ u[1] = a /\ u[2] = b
  OBVIOUS
<1> HIDE DEF S, s, r, u
<1>4. \A i \in 1 .. Len(r) : r[i] = u[i]
  BY <1>2, <1>3
<1>5. r = u
  BY <1>2, <1>3, <1>4, SeqEqual
<1> QED
  BY <1>5 DEF r, u, s

LEMMA Concatenated ==
  /\ <<>> \o <<>> = <<>>
  /\ \A a : <<a>> \o <<>> = <<a>> /\ <<>> \o <<a>> = <<a>>
  /\ \A a, b : <<a>> \o <<b>> = <<a, b>>
<1>1. <<>> \o <<>> = <<>>
  OBVIOUS
<1>2. ASSUME NEW a PROVE <<a>> \o <<>> = <<a>> /\ <<>> \o <<a>> = <<a>>
  OBVIOUS
<1> QED
  BY <1>1, <1>2, PairConcatenated

LEMMA Ends ==
  /\ \A a : Append(<<>>, a) = <<a>> /\ Tail(<<a>>) = <<>> /\ <<a>> # <<>>
  /\ \A a, b : /\ Append(<<a>>, b) = <<a, b>>
               /\ Tail(<<a, b>>) = <<b>> /\ <<a, b>> # <<>>
  /\ Len(<<>>) = 0 /\ \A a : Len(<<a>>) = 1
<1>1. ASSUME NEW a
      PROVE  /\ Append(<<>>, a) = <<a>> /\ Tail(<<a>>) = <<>> /\ <<a>> # <<>>
             /\ Len(<<>>) = 0 /\ Len(<<a>>) = 1
  OBVIOUS
<1>2. ASSUME NEW a, NEW b PROVE Tail(<<a, b>>) = <<b>> /\ <<a, b>> # <<>>
  OBVIOUS
<1> QED
  BY <1>1, <1>2, PairAppended

\* The end of an SSL takes the head of the queue.
LEMMA EndIsFinish ==
  ASSUME OrderInv, SslEnds
  PROVE  Queue!Finish
<1>1. /\ loaded[turn] # NoBuffer
      /\ loaded' = [loaded EXCEPT ![turn] = NoBuffer] /\ turn' = 1 - turn
      /\ UNCHANGED <<data, nextFill, pos, appPc>>
  BY DEF SslEnds, appVars
<1>2. /\ loaded'[turn'] = loaded[1 - turn] /\ loaded'[1 - turn'] = NoBuffer
  BY <1>1 DEF OrderInv, CountInv, TypeOK, Sides
<1> DEFINE a == data[loaded[turn]]  b == data[loaded[1 - turn]]
<1>5. Following' = Following
  BY <1>1 DEF Following
<1>3. CASE loaded[1 - turn] = NoBuffer
  <2>1. Heard(turn) = <<a>> /\ Heard(1 - turn) = <<>>
    BY <1>1, <1>3 DEF Heard
  <2>2. Heard(turn)' = <<>> /\ Heard(1 - turn)' = <<>>
    BY <1>2, <1>3 DEF Heard
  <2>3. Waiting = <<a>> /\ Waiting' = <<>>
    BY <2>1, <2>2, Concatenated DEF Waiting
  <2> QED
    BY <1>5, <2>3, Ends DEF Queue!Finish, Waiting, Following
<1>4. CASE loaded[1 - turn] # NoBuffer
  <2>1. Heard(turn) = <<a>> /\ Heard(1 - turn) = <<b>>
    BY <1>1, <1>4 DEF Heard
  <2>2. Heard(turn)' = <<b>> /\ Heard(1 - turn)' = <<>>
    BY <1>1, <1>2, <1>4 DEF Heard
  <2>3. Waiting = <<a, b>> /\ Waiting' = <<b>>
    BY <2>1, <2>2, Concatenated DEF Waiting
  <2> QED
    BY <1>5, <2>3, Ends DEF Queue!Finish, Waiting, Following
<1> QED
  BY <1>3, <1>4

\* nxAudioBufferQueue appends the chunk that follows.
LEMMA QueueIsEnqueue ==
  ASSUME KeepsTurn = FALSE, OrderInv, BufferQueue
  PROVE  Queue!Enqueue
<1>1. /\ FreeSides # {} /\ loaded[1 - turn] = NoBuffer /\ appPc = "queue"
      /\ nextFill # NoBuffer /\ TypeOK
  BY NextFillIsIdle, StreamAssumption
     DEF BufferQueue, AppRunsAt, OrderInv, CountInv, TypeOK, Buffers
<1> DEFINE j == Chosen(FreeSides)
           a == data[loaded[turn]]
           b == data[nextFill]
<1>2. j \in Sides /\ slots[j] = NoBuffer
  BY <1>1, ChosenIsFree DEF FreeSides
<1>3. Load(j, nextFill) /\ appPc' = "poll" /\ UNCHANGED <<data, pos>>
  BY <1>1 DEF BufferQueue
<1> HIDE DEF j
<1>4. /\ loaded[j] = NoBuffer
      /\ loaded' = [loaded EXCEPT ![j] = nextFill]
      /\ turn' = IF Silent THEN j ELSE turn
  BY <1>2, <1>3 DEF OrderInv, OrderSound, Load
<1>5. (Following = b /\ Following' = (b + 1) % Chunks)
  BY <1>1, <1>3 DEF Following, OrderInv, OrderSound
<1> SUFFICES /\ Len(Waiting) < 2 /\ Waiting' = Append(Waiting, Following)
             /\ Following' = (Following + 1) % Chunks
  BY DEF Queue!Enqueue, Waiting, Following
<1>6. CASE loaded[turn] = NoBuffer
  <2>1. Silent
    BY <1>1, <1>6 DEF Silent, TypeOK, Sides
  <2>2. loaded'[turn'] = nextFill /\ loaded'[1 - turn'] = NoBuffer
    BY <1>1, <1>2, <1>4, <2>1 DEF TypeOK, Silent, Sides
  <2>3. Heard(turn) = <<>> /\ Heard(1 - turn) = <<>>
    BY <1>1, <1>6 DEF Heard
  <2>4. Heard(turn)' = <<b>> /\ Heard(1 - turn)' = <<>>
    BY <1>1, <1>3, <2>2 DEF Heard
  <2>5. Waiting = <<>> /\ Waiting' = <<b>>
    BY <2>3, <2>4, Concatenated DEF Waiting
  <2> QED
    BY <1>5, <2>5, Ends
<1>7. CASE loaded[turn] # NoBuffer
  <2>1. ~Silent /\ j = 1 - turn
    BY <1>1, <1>2, <1>4, <1>7 DEF Silent, TypeOK, Sides
  <2>2. /\ loaded'[turn'] = loaded[turn] /\ loaded'[1 - turn'] = nextFill
    BY <1>1, <1>2, <1>4, <2>1 DEF TypeOK, Sides
  <2>3. Heard(turn) = <<a>> /\ Heard(1 - turn) = <<>>
    BY <1>1, <1>7 DEF Heard
  <2>4. Heard(turn)' = <<a>> /\ Heard(1 - turn)' = <<b>>
    BY <1>1, <1>3, <1>7, <2>2 DEF Heard
  <2>5. Waiting = <<a>> /\ Waiting' = <<a, b>>
    BY <2>3, <2>4, Concatenated DEF Waiting
  <2> QED
    BY <1>5, <2>5, Ends
<1> QED
  BY <1>6, <1>7

\* No other step touches what waits or what follows; a chunk is filled into a
\* buffer nobody hears.
LEMMA OthersStutter ==
  ASSUME OrderInv,
         TakeCompletion \/ PollEvents \/ FillChunk \/ DpcStart \/ DpcSide
           \/ UNCHANGED vars
  PROVE  Waiting' = Waiting /\ Following' = Following
<1>1. CASE FillChunk
  <2>1. /\ appPc = "fill" /\ appPc' = "queue" /\ UNCHANGED <<loaded, turn, nextFill>>
        /\ data' = [data EXCEPT ![nextFill] = pos]
    BY <1>1 DEF FillChunk, AppRunsAt, deviceVars
  <2>2. TypeOK /\ \A j \in Sides : loaded[j] # nextFill
    BY <2>1, NextFillIsIdle DEF OrderInv, CountInv
  <2>3. \A j \in Sides : loaded[j] # NoBuffer => data'[loaded[j]] = data[loaded[j]]
    BY <2>1, <2>2 DEF TypeOK
  <2>4. turn \in Sides /\ 1 - turn \in Sides
    BY <2>2 DEF TypeOK, Sides
  <2>5. Heard(turn)' = Heard(turn) /\ Heard(1 - turn)' = Heard(1 - turn)
    BY <2>1, <2>3, <2>4 DEF Heard
  <2>6. data'[nextFill] = pos
    BY <2>1, <2>2 DEF TypeOK
  <2> QED
    BY <2>1, <2>5, <2>6 DEF Waiting, Following
<1>2. CASE TakeCompletion \/ PollEvents \/ DpcStart \/ DpcSide \/ UNCHANGED vars
  <2>1. /\ UNCHANGED <<loaded, turn, data, pos, nextFill>>
        /\ appPc' = "queue" <=> appPc = "queue"
    BY <1>2 DEF TakeCompletion, AppRunsAt, PollEvents, DpcStart, DpcSide, vars, moving,
                appVars, deviceVars
  <2> QED
    BY <2>1 DEF Waiting, Following, Heard
<1> QED
  BY <1>1, <1>2

\* For a VP that goes on with the first side it is given, the application, the
\* driver and the VP together play the file in order, however often both sides
\* run out and even where completions are lost.
THEOREM FileIsPlayedInOrder ==
  ASSUME KeepsTurn = FALSE
  PROVE  Spec => PlaysInOrder
<1>1. Init => Queue!Init
  <2> SUFFICES ASSUME Init PROVE Queue!Init
    OBVIOUS
  <2>1. /\ loaded[0] = 0 /\ loaded[1] = 1 /\ turn = 0 /\ appPc = "poll"
        /\ data[0] = 0 % Chunks /\ data[1] = 1 % Chunks /\ pos = 2 % Chunks
    BY DEF Init, Sides, Buffers
  <2>2. Waiting = <<0 % Chunks, 1 % Chunks>> /\ Following = 2 % Chunks
    <3>1. Heard(turn) = <<0 % Chunks>> /\ Heard(1 - turn) = <<1 % Chunks>>
      BY <2>1, StreamAssumption DEF Heard
    <3> QED
      BY <2>1, <3>1, Concatenated DEF Waiting, Following
  <2>3. [i \in 1 .. 2 |-> (i - 1) % Chunks] = <<0 % Chunks, 1 % Chunks>>
    OBVIOUS
  <2> QED
    BY <2>2, <2>3 DEF Queue!Init, Waiting, Following
<1>2. OrderInv /\ [Next]_vars =>
        [Queue!Next]_<<Heard(turn) \o Heard(1 - turn),
                       IF appPc = "queue" THEN data[nextFill] ELSE pos>>
  BY EndIsFinish, QueueIsEnqueue, OthersStutter
     DEF Next, Queue!Next, Waiting, Following
<1>3. OrderInv /\ [Next]_vars => OrderInv'
  BY OrderStep
<1> QED
  BY InitOrder, <1>1, <1>2, <1>3, PTL DEF Spec, PlaysInOrder, Queue!Spec
=============================================================================
