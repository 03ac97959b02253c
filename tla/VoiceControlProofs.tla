------------------------ MODULE VoiceControlProofs ------------------------
(***************************************************************************)
(* Proofs about VoiceControl, for every number of voices, buffers and      *)
(* hardware indices.  IInv is inductive: it holds initially (InitIInv) and *)
(* every action keeps it (one lemma <Action>Step per action, with one step *)
(* for the conjuncts the action cannot disturb and one for each conjunct   *)
(* it can).  The theorems follow; then come the buffers.                   *)
(*                                                                         *)
(* SlowHardware = FALSE is assumed where nxAudioVoiceDestroy is involved:  *)
(* if the VP can outlast the wait of Destroy, TrackedSound is lost (see    *)
(* DestroyedIsGone).                                                       *)
(***************************************************************************)
EXTENDS VoiceControl, FiniteSetTheorems, TLAPS

USE DEF voiceVars, driverVars, idleVars, deviceVars, appVars, dpcVars

-----------------------------------------------------------------------------
(* Facts about the operators the model is built from *)

\* An index of the voice table is never the "no index" value.
LEMMA NotNoHw == ASSUME NEW i \in HwVoices PROVE i # NoHw
BY DEF HwVoices, NoHw

\* Locking and unlocking pages keeps the counts natural numbers.
LEMMA LockTypes ==
  ASSUME NEW L \in [Buffers -> Nat], NEW b
  PROVE  /\ b \in Buffers => Lock(L, b) \in [Buffers -> Nat]
         /\ Unlock(L, b) \in [Buffers -> Nat]
         /\ UnlockIf(L, b) \in [Buffers -> Nat]
<1>1. b \in Buffers => Lock(L, b) \in [Buffers -> Nat]
  BY DEF Lock
<1>2. ASSUME NEW c \in Buffers
      PROVE  (IF L[c] > 0 THEN L[c] - 1 ELSE 0) \in Nat
  OBVIOUS
<1>3. Unlock(L, b) \in [Buffers -> Nat]
  BY <1>2 DEF Unlock
<1>. QED  BY <1>1, <1>3 DEF UnlockIf

\* A sequence with one more element at its end.
LEMMA AppendFacts ==
  ASSUME NEW S, NEW s \in Seq(S), NEW x \in S
  PROVE  /\ Append(s, x) \in Seq(S)
         /\ Append(s, x) # <<>>
         /\ Len(Append(s, x)) = Len(s) + 1
         /\ \A k \in DOMAIN Append(s, x) :
              \/ k \in DOMAIN s /\ Append(s, x)[k] = s[k]
              \/ k = Len(s) + 1 /\ Append(s, x)[k] = x
OBVIOUS

\* What remains of a sequence when its last element is taken.
LEMMA PopFacts ==
  ASSUME NEW s \in Seq(HwVoices), s # <<>>
  PROVE  LET t == SubSeq(s, 1, Len(s) - 1)
         IN  /\ t \in Seq(HwVoices)
             /\ Len(s) \in DOMAIN s /\ s[Len(s)] \in HwVoices
             /\ Len(t) + 1 = Len(s)
             /\ \A k \in DOMAIN t :
                  k \in DOMAIN s /\ k # Len(s) /\ t[k] = s[k]
<1>. DEFINE t == SubSeq(s, 1, Len(s) - 1)
<1>1. Len(s) \in Nat /\ Len(s) > 0 /\ DOMAIN s = 1 .. Len(s)
  OBVIOUS
<1>2. Len(t) = Len(s) - 1 /\ t \in Seq(HwVoices)
  BY <1>1
<1>3. DOMAIN t = 1 .. Len(s) - 1
  BY <1>2
<1>4. \A k \in 1 .. Len(s) - 1 : t[k] = s[k]
  BY <1>1
<1>5. s[Len(s)] \in HwVoices
  BY <1>1
<1>. HIDE DEF t
<1>6. \A k \in DOMAIN t : k \in DOMAIN s /\ k # Len(s) /\ t[k] = s[k]
  BY <1>1, <1>3, <1>4
<1>. QED  BY <1>1, <1>2, <1>5, <1>6

\* A voice that goes off leaves the device state well-typed.
LEMMA GoesOffTypes ==
  ASSUME DeviceTypes, NEW i \in HwVoices, GoesOff(i)
  PROVE  /\ phase' \in [HwVoices -> {"off", "on", "release"}]
         /\ done' \in [HwVoices -> [Sides -> BOOLEAN]]
         /\ fev' \in BOOLEAN
<1>1. phase' \in [HwVoices -> {"off", "on", "release"}]
  BY DEF DeviceTypes, GoesOff
<1>2. ASSUME NEW j \in Sides, done' = [done EXCEPT ![i][j] = TRUE]
      PROVE  done' \in [HwVoices -> [Sides -> BOOLEAN]]
  BY <1>2 DEF DeviceTypes
<1>3. done' \in [HwVoices -> [Sides -> BOOLEAN]] /\ fev' \in BOOLEAN
  BY <1>2 DEF DeviceTypes, GoesOff
<1>. QED  BY <1>1, <1>3

\* The first part of nxAudioBufferQueue, whoever runs it, keeps the types.
LEMMA QueueBeginTypes ==
  ASSUME VoiceTypes, DriverTypes, DeviceTypes, NEW v \in Voices,
         NEW b \in Buffers, QueueBegin(v, b) \/ QueueReject(v)
  PROVE  VoiceTypes' /\ DriverTypes' /\ DeviceTypes'
<1>1. VoiceTypes'
  BY DEF VoiceTypes, QueueBegin, QueueReject
<1>2. DriverTypes'
  BY LockTypes DEF DriverTypes, QueueBegin, QueueReject
<1>3. hwFmt' \in [HwVoices -> Fmts]
  <2>1. [persist |-> persist[v], stream |-> TRUE] \in Fmts
    BY DEF VoiceTypes, Fmts
  <2>. QED  BY <2>1 DEF DeviceTypes, QueueBegin, QueueReject
<1>4. done' \in [HwVoices -> [Sides -> BOOLEAN]]
  <2>1. ASSUME NEW i, NEW j \in Sides, done' = [done EXCEPT ![i][j] = FALSE]
        PROVE  done' \in [HwVoices -> [Sides -> BOOLEAN]]
    BY <2>1 DEF DeviceTypes
  <2>. QED  BY <2>1 DEF DeviceTypes, QueueBegin, QueueReject, Rearmed
<1>. QED  BY <1>1, <1>2, <1>3, <1>4 DEF DeviceTypes, QueueBegin, QueueReject

-----------------------------------------------------------------------------
(* Invariance *)

\* Each part of the invariant holds while the variables it reads keep their
\* values: what an action leaves alone needs no argument of its own.
LEMMA Frame ==
  ASSUME IInv
  PROVE  /\ UNCHANGED <<live, state, index, streaming, persist, buffers, sge>>
              => VoiceTypes'
         /\ UNCHANGED <<tracked, free, locks, idleFree, idleActive>>
              => DriverTypes'
         /\ UNCHANGED <<done, hwFmt, onList, phase, paused, ssl, trap, fev>>
              => DeviceTypes'
         /\ UNCHANGED <<appPc, appVoice, destroying, dpcQueued, dpcPc, scan,
                        dpcVoice, inHand, queueing>>
              => ThreadTypes'
         /\ UNCHANGED <<live, state, index, tracked>>
              => TrackedSound'
         /\ UNCHANGED <<tracked, onList>>
              => ListedIsTracked'
         /\ UNCHANGED <<live, index, free>>
              => IndexOwnership'
         /\ UNCHANGED <<tracked, idleFree, idleActive, onList, inHand>>
              => IdleEntriesSound'
         /\ UNCHANGED <<idleActive, dpcQueued, dpcPc, inHand>>
              => IdleVoicesGetDrained'
         /\ UNCHANGED <<live, state, index, tracked, idleActive, onList, appPc,
                        appVoice>>
              => CallSound'
         /\ UNCHANGED <<onList, trap, appPc, dpcPc, inHand>>
              => LevelsSound'
<1>1. UNCHANGED <<live, state, index, streaming, persist, buffers, sge>>
        => VoiceTypes'
  BY DEF IInv, TypeOK, VoiceTypes
<1>2. UNCHANGED <<tracked, free, locks, idleFree, idleActive>>
        => DriverTypes'
  BY DEF IInv, TypeOK, DriverTypes
<1>3. UNCHANGED <<done, hwFmt, onList, phase, paused, ssl, trap, fev>>
        => DeviceTypes'
  BY DEF IInv, TypeOK, DeviceTypes
<1>4. UNCHANGED <<appPc, appVoice, destroying, dpcQueued, dpcPc, scan,
                  dpcVoice, inHand, queueing>>
        => ThreadTypes'
  BY DEF IInv, TypeOK, ThreadTypes
<1>5. UNCHANGED <<live, state, index, tracked>>
        => TrackedSound'
  BY DEF IInv, TrackedSound
<1>6. UNCHANGED <<tracked, onList>>
        => ListedIsTracked'
  BY DEF IInv, ListedIsTracked
<1>7. UNCHANGED <<live, index, free>>
        => IndexOwnership'
  BY DEF IInv, IndexOwnership
<1>8. UNCHANGED <<tracked, idleFree, idleActive, onList, inHand>>
        => IdleEntriesSound'
  BY DEF IInv, IdleEntriesSound
<1>9. UNCHANGED <<idleActive, dpcQueued, dpcPc, inHand>>
        => IdleVoicesGetDrained'
  BY DEF IInv, IdleVoicesGetDrained
<1>10. UNCHANGED <<live, state, index, tracked, idleActive, onList, appPc,
                  appVoice>>
        => CallSound'
  BY DEF IInv, CallSound
<1>11. UNCHANGED <<onList, trap, appPc, dpcPc, inHand>>
        => LevelsSound'
  BY DEF IInv, LevelsSound
<1>. QED  BY <1>1, <1>2, <1>3, <1>4, <1>5, <1>6, <1>7, <1>8, <1>9, <1>10,
             <1>11

-----------------------------------------------------------------------------
(* The calls of the application *)

\* nxAudioVoiceCreate: the index comes from the free set, so no voice has it.
LEMMA VoiceCreateStep ==
  ASSUME IInv, NEW v \in Voices, NEW is3d \in BOOLEAN, VoiceCreate(v, is3d)
  PROVE  IInv'
<1>1. ListedIsTracked' /\ IdleEntriesSound' /\ IdleVoicesGetDrained'
      /\ LevelsSound'
  BY Frame DEF VoiceCreate
<1>2. VoiceTypes'
  BY DEF IInv, TypeOK, VoiceTypes, VoiceCreate, States
<1>3. DriverTypes'
  BY DEF IInv, TypeOK, DriverTypes, VoiceCreate
<1>4. DeviceTypes'
  BY DEF IInv, TypeOK, DeviceTypes, VoiceCreate, Fmts
<1>5. ThreadTypes'
  BY DEF IInv, TypeOK, ThreadTypes, VoiceCreate
<1>6. TrackedSound'
  BY DEF IInv, TrackedSound, VoiceCreate
<1>7. IndexOwnership'
  <2>1. PICK i \in HwVoices : /\ i \in free /\ free' = free \ {i}
                              /\ index' = [index EXCEPT ![v] = i]
    BY DEF VoiceCreate, Allocatable
  <2>2. live' = live \cup {v} /\ v \notin live
    BY DEF VoiceCreate
  <2>3. index'[v] = i /\ \A w \in live : index'[w] = index[w]
    BY <2>1, <2>2 DEF IInv, TypeOK, VoiceTypes
  <2>4. \A w \in live : index[w] # i
    BY <2>1 DEF IInv, IndexOwnership
  <2>5. {index'[w] : w \in live'} = {index[w] : w \in live} \cup {i}
    BY <2>2, <2>3
  <2>. QED  BY <2>1, <2>2, <2>3, <2>4, <2>5 DEF IInv, IndexOwnership
<1>8. CallSound'
  BY DEF IInv, CallSound, VoiceCreate
<1>. QED  BY <1>1, <1>2, <1>3, <1>4, <1>5, <1>6, <1>7, <1>8 DEF IInv, TypeOK

\* nxAudioVoiceSetFormat: the voice is stopped, hence tracked nowhere, and may
\* trade its index for a free one.
LEMMA VoiceSetFormatStep ==
  ASSUME IInv, NEW v \in Voices, NEW is3d \in BOOLEAN, VoiceSetFormat(v, is3d)
  PROVE  IInv'
<1>1. ListedIsTracked' /\ IdleEntriesSound' /\ IdleVoicesGetDrained'
      /\ LevelsSound'
  BY Frame DEF VoiceSetFormat
<1>2. VoiceTypes'
  BY DEF IInv, TypeOK, VoiceTypes, VoiceSetFormat
<1>3. DriverTypes'
  BY DEF IInv, TypeOK, DriverTypes, IndexOwnership, VoiceSetFormat
<1>4. DeviceTypes'
  BY DEF IInv, TypeOK, DeviceTypes, VoiceTypes, VoiceSetFormat, CfgFmt, Fmts
<1>5. ThreadTypes'
  BY DEF IInv, TypeOK, ThreadTypes, VoiceSetFormat
<1>6. TrackedSound'
  BY DEF IInv, TrackedSound, VoiceSetFormat
<1>7. IndexOwnership'
  <2>1. PICK i \in HwVoices : /\ i = index[v] \/ i \in free
                              /\ free' = (free \cup {index[v]}) \ {i}
                              /\ index' = [index EXCEPT ![v] = i]
    BY DEF VoiceSetFormat, Allocatable
  <2>2. live' = live /\ v \in live
    BY DEF VoiceSetFormat
  <2>3. index'[v] = i /\ \A w \in live \ {v} : index'[w] = index[w]
    BY <2>1, <2>2 DEF IInv, TypeOK, VoiceTypes
  <2>4. \A w \in live : index[w] \in HwVoices /\ (w # v => index[w] # i)
    BY <2>1, <2>2 DEF IInv, IndexOwnership
  <2>5. {index'[w] : w \in live'}
          = ({index[w] : w \in live} \ {index[v]}) \cup {i}
    BY <2>2, <2>3 DEF IInv, IndexOwnership
  <2>. QED  BY <2>1, <2>2, <2>3, <2>4, <2>5 DEF IInv, IndexOwnership
<1>8. CallSound'
  BY DEF CallSound, VoiceSetFormat, AppRunsAt
<1>. QED  BY <1>1, <1>2, <1>3, <1>4, <1>5, <1>6, <1>7, <1>8 DEF IInv, TypeOK

\* nxAudioBufferQueue, called by the application.
LEMMA BufferQueueStep ==
  ASSUME IInv, NEW v \in Voices, NEW b \in Buffers, BufferQueue(v, b)
  PROVE  IInv'
<1>1. TrackedSound' /\ ListedIsTracked' /\ IndexOwnership' /\ IdleEntriesSound'
      /\ IdleVoicesGetDrained'
  BY Frame DEF BufferQueue, QueueBegin, QueueReject
<1>2. VoiceTypes'
  BY QueueBeginTypes DEF IInv, TypeOK, BufferQueue
<1>3. DriverTypes'
  BY QueueBeginTypes DEF IInv, TypeOK, BufferQueue
<1>4. DeviceTypes'
  BY QueueBeginTypes DEF IInv, TypeOK, BufferQueue
<1>5. ThreadTypes'
  BY DEF IInv, TypeOK, ThreadTypes, BufferQueue, RaisedPcs, QueueBegin,
     AppGoto, QueueReject
<1>6. CallSound'
  BY DEF CallSound, BufferQueue, AppRunsAt, AppGoto
<1>7. LevelsSound'
  BY DEF IInv, LevelsSound, BufferQueue, AppRunsAt, QueueBegin, QueueReject
<1>. QED  BY <1>1, <1>2, <1>3, <1>4, <1>5, <1>6, <1>7 DEF IInv, TypeOK

LEMMA BufferQueueSslStep ==
  ASSUME IInv, BufferQueueSsl
  PROVE  IInv'
<1>1. VoiceTypes' /\ DriverTypes' /\ TrackedSound' /\ ListedIsTracked'
      /\ IndexOwnership' /\ IdleEntriesSound' /\ IdleVoicesGetDrained'
  BY Frame DEF BufferQueueSsl, QueueSsl
<1>2. DeviceTypes'
  BY DEF IInv, TypeOK, DeviceTypes, ThreadTypes, BufferQueueSsl, QueueSsl
<1>3. ThreadTypes'
  BY DEF IInv, TypeOK, ThreadTypes, BufferQueueSsl, RaisedPcs, QueueSsl,
     AppGoto
<1>4. CallSound'
  BY DEF CallSound, BufferQueueSsl, AppGoto
<1>5. LevelsSound'
  BY DEF IInv, LevelsSound, BufferQueueSsl, AppRunsAt, QueueSsl
<1>. QED  BY <1>1, <1>2, <1>3, <1>4, <1>5 DEF IInv, TypeOK

LEMMA BufferQueueSlotStep ==
  ASSUME IInv, BufferQueueSlot
  PROVE  IInv'
<1>1. DriverTypes' /\ DeviceTypes' /\ TrackedSound' /\ ListedIsTracked'
      /\ IndexOwnership' /\ IdleEntriesSound' /\ IdleVoicesGetDrained'
  BY Frame DEF BufferQueueSlot, QueueSlot
<1>2. VoiceTypes'
  BY DEF IInv, TypeOK, VoiceTypes, ThreadTypes, BufferQueueSlot, QueueSlot
<1>3. ThreadTypes'
  BY DEF IInv, TypeOK, ThreadTypes, BufferQueueSlot, QueueSlot, NotQueueing,
     AppGoto, PassivePcs, Sides
<1>4. CallSound'
  BY DEF CallSound, BufferQueueSlot, AppGoto
<1>5. LevelsSound'
  BY DEF IInv, LevelsSound, BufferQueueSlot, AppRunsAt, QueueSlot
<1>. QED  BY <1>1, <1>2, <1>3, <1>4, <1>5 DEF IInv, TypeOK

\* nxAudioBufferSubmit.
LEMMA BufferSubmitStep ==
  ASSUME IInv, NEW v \in Voices, NEW b \in Buffers, BufferSubmit(v, b)
  PROVE  IInv'
<1>1. ThreadTypes' /\ TrackedSound' /\ ListedIsTracked' /\ IndexOwnership'
      /\ IdleEntriesSound' /\ IdleVoicesGetDrained' /\ CallSound'
      /\ LevelsSound'
  BY Frame DEF BufferSubmit
<1>2. VoiceTypes'
  <2>1. SubmitBuffers(v, b) \in [Sides -> Buffers \cup {NoBuffer}]
    <3>1. \A j \in Sides : buffers[v][j] \in Buffers \cup {NoBuffer}
      BY DEF IInv, TypeOK, VoiceTypes
    <3>. QED  BY <3>1, Zenon DEF SubmitBuffers
  <2>2. buffers' \in [Voices -> [Sides -> Buffers \cup {NoBuffer}]]
    BY SMTT(20), <2>1 DEF IInv, TypeOK, VoiceTypes, BufferSubmit
  <2>. QED  BY <2>2 DEF IInv, TypeOK, VoiceTypes, BufferSubmit
<1>3. DriverTypes'
  <2>1. ReleasedBySubmit(v) \in [Buffers -> Nat]
    BY LockTypes DEF IInv, TypeOK, DriverTypes, ReleasedBySubmit
  <2>2. locks' \in [Buffers -> Nat]
    BY <2>1, LockTypes DEF BufferSubmit
  <2>. QED  BY <2>2 DEF IInv, TypeOK, DriverTypes, BufferSubmit
<1>4. DeviceTypes'
  BY DEF IInv, TypeOK, DeviceTypes, VoiceTypes, BufferSubmit, Fmts
<1>. QED  BY <1>1, <1>2, <1>3, <1>4 DEF IInv, TypeOK

\* nxAudioVoiceStart: the two tests, the resuming branch, and the raised body.  The
\* voice was stopped, so until VOICE_ON it is tracked, unlisted and unqueued.
LEMMA VoiceStartStep ==
  ASSUME IInv, NEW v \in Voices, VoiceStart(v)
  PROVE  IInv'
<1>1. VoiceTypes' /\ DriverTypes' /\ DeviceTypes' /\ TrackedSound'
      /\ ListedIsTracked' /\ IndexOwnership' /\ IdleEntriesSound'
      /\ IdleVoicesGetDrained'
  BY Frame DEF VoiceStart
<1>2. ThreadTypes'
  BY DEF IInv, TypeOK, ThreadTypes, VoiceStart, AppEnter, PassivePcs
<1>3. CallSound'
  BY DEF CallSound, VoiceStart, AppEnter
<1>4. LevelsSound'
  BY DEF IInv, LevelsSound, VoiceStart, AppRunsAt
<1>. QED  BY <1>1, <1>2, <1>3, <1>4 DEF IInv, TypeOK

LEMMA VoiceStartTestStep ==
  ASSUME IInv, VoiceStartTest
  PROVE  IInv'
<1>1. VoiceTypes' /\ DriverTypes' /\ DeviceTypes' /\ TrackedSound'
      /\ ListedIsTracked' /\ IndexOwnership' /\ IdleEntriesSound'
      /\ IdleVoicesGetDrained'
  BY Frame DEF VoiceStartTest
<1>2. ThreadTypes'
  BY DEF IInv, TypeOK, ThreadTypes, VoiceStartTest, AppGoto, AppReturn, PassivePcs
<1>3. CallSound'
  BY DEF IInv, CallSound, VoiceStartTest, AppRunsAt, AppGoto, AppReturn
<1>4. LevelsSound'
  BY DEF IInv, LevelsSound, VoiceStartTest, AppRunsAt
<1>. QED  BY <1>1, <1>2, <1>3, <1>4 DEF IInv, TypeOK

LEMMA VoiceUnpauseSetStep ==
  ASSUME IInv, VoiceUnpauseSet
  PROVE  IInv'
<1>1. DriverTypes' /\ DeviceTypes' /\ ListedIsTracked' /\ IndexOwnership'
      /\ IdleEntriesSound' /\ IdleVoicesGetDrained'
  BY Frame DEF VoiceUnpauseSet
<1>2. VoiceTypes'
  BY DEF IInv, TypeOK, VoiceTypes, VoiceUnpauseSet, States
<1>3. ThreadTypes'
  BY DEF IInv, TypeOK, ThreadTypes, VoiceUnpauseSet, AppGoto, PassivePcs
<1>4. TrackedSound'
  BY DEF IInv, TrackedSound, VoiceUnpauseSet
<1>5. CallSound'
  BY DEF IInv, CallSound, VoiceUnpauseSet, AppRunsAt, AppGoto
<1>6. LevelsSound'
  BY DEF IInv, LevelsSound, VoiceUnpauseSet, AppRunsAt
<1>. QED  BY <1>1, <1>2, <1>3, <1>4, <1>5, <1>6 DEF IInv, TypeOK

LEMMA VoiceUnpauseStep ==
  ASSUME IInv, VoiceUnpause
  PROVE  IInv'
<1>1. VoiceTypes' /\ DriverTypes' /\ TrackedSound' /\ ListedIsTracked'
      /\ IndexOwnership' /\ IdleEntriesSound' /\ IdleVoicesGetDrained'
  BY Frame DEF VoiceUnpause
<1>2. DeviceTypes'
  BY DEF IInv, TypeOK, DeviceTypes, VoiceUnpause
<1>3. ThreadTypes'
  BY DEF IInv, TypeOK, ThreadTypes, VoiceUnpause, AppReturn, PassivePcs
<1>4. CallSound'
  BY DEF IInv, CallSound, VoiceUnpause, AppRunsAt, AppReturn
<1>5. LevelsSound'
  BY DEF IInv, LevelsSound, VoiceUnpause, AppRunsAt
<1>. QED  BY <1>1, <1>2, <1>3, <1>4, <1>5 DEF IInv, TypeOK

LEMMA VoiceStartTrackStep ==
  ASSUME IInv, VoiceStartTrack
  PROVE  IInv'
<1>1. IndexOwnership' /\ IdleVoicesGetDrained'
  BY Frame DEF VoiceStartTrack
<1>2. VoiceTypes'
  BY DEF IInv, TypeOK, VoiceTypes, VoiceStartTrack, States
<1>3. DriverTypes'
  BY DEF IInv, TypeOK, DriverTypes, ThreadTypes, VoiceStartTrack
<1>4. DeviceTypes'
  BY DEF IInv, TypeOK, DeviceTypes, VoiceStartTrack
<1>5. ThreadTypes'
  BY DEF IInv, TypeOK, ThreadTypes, VoiceStartTrack, RaisedPcs, AppGoto
<1>6. TrackedSound'
  BY DEF IInv, TypeOK, TrackedSound, CallSound, VoiceTypes, VoiceStartTrack,
     AppRunsAt
<1>7. ListedIsTracked'
  BY VoicesAssumption DEF IInv, TypeOK, ListedIsTracked, CallSound, VoiceTypes,
     VoiceStartTrack, AppRunsAt
<1>8. IdleEntriesSound'
  BY VoicesAssumption DEF IInv, TypeOK, IdleEntriesSound, CallSound,
     VoiceTypes, VoiceStartTrack, AppRunsAt
<1>9. CallSound'
  BY DEF IInv, TypeOK, CallSound, TrackedSound, ListedIsTracked,
     IdleEntriesSound, IndexOwnership, DriverTypes, VoiceStartTrack, AppRunsAt,
     AppGoto
<1>10. LevelsSound'
  BY DEF IInv, LevelsSound, VoiceStartTrack, AppRunsAt
<1>. QED  BY <1>1, <1>2, <1>3, <1>4, <1>5, <1>6, <1>7, <1>8, <1>9, <1>10
             DEF IInv, TypeOK

LEMMA VoiceStartOnStep ==
  ASSUME IInv, VoiceStartOn
  PROVE  IInv'
<1>1. VoiceTypes' /\ DriverTypes' /\ TrackedSound' /\ IndexOwnership'
      /\ IdleVoicesGetDrained'
  BY Frame DEF VoiceStartOn
<1>2. DeviceTypes'
  BY DEF IInv, TypeOK, DeviceTypes, VoiceTypes, CallSound, IndexOwnership,
     VoiceStartOn, AppRunsAt, CfgFmt, Fmts
<1>3. ThreadTypes'
  BY DEF IInv, TypeOK, ThreadTypes, VoiceStartOn, AppReturn, PassivePcs
<1>4. ListedIsTracked'
  BY VoicesAssumption DEF IInv, TypeOK, ListedIsTracked, CallSound, VoiceTypes,
     VoiceStartOn, AppRunsAt
<1>5. IdleEntriesSound'
  BY DEF IInv, CallSound, LevelsSound, IdleEntriesSound, VoiceStartOn,
     AppRunsAt
<1>6. CallSound'
  BY DEF IInv, CallSound, VoiceStartOn, AppRunsAt, AppReturn
<1>7. LevelsSound'
  BY DEF IInv, LevelsSound, VoiceStartOn, AppRunsAt
<1>. QED  BY <1>1, <1>2, <1>3, <1>4, <1>5, <1>6, <1>7 DEF IInv, TypeOK

\* nxAudioVoiceRelease.
LEMMA VoiceReleaseStep ==
  ASSUME IInv, NEW v \in Voices, VoiceRelease(v)
  PROVE  IInv'
<1>1. VoiceTypes' /\ DriverTypes' /\ DeviceTypes' /\ TrackedSound'
      /\ ListedIsTracked' /\ IndexOwnership' /\ IdleEntriesSound'
      /\ IdleVoicesGetDrained'
  BY Frame DEF VoiceRelease
<1>2. ThreadTypes'
  BY DEF IInv, TypeOK, ThreadTypes, VoiceRelease, AppEnter, PassivePcs
<1>3. CallSound'
  BY DEF CallSound, VoiceRelease, AppEnter
<1>4. LevelsSound'
  BY DEF IInv, LevelsSound, VoiceRelease, AppRunsAt
<1>. QED  BY <1>1, <1>2, <1>3, <1>4 DEF IInv, TypeOK

LEMMA VoiceReleaseSetStep ==
  ASSUME IInv, VoiceReleaseSet
  PROVE  IInv'
<1>1. DriverTypes' /\ ListedIsTracked' /\ IndexOwnership' /\ IdleEntriesSound'
      /\ IdleVoicesGetDrained'
  BY Frame DEF VoiceReleaseSet
<1>2. VoiceTypes'
  BY DEF IInv, TypeOK, VoiceTypes, VoiceReleaseSet, States
<1>3. DeviceTypes'
  BY DEF IInv, TypeOK, DeviceTypes, VoiceReleaseSet
<1>4. ThreadTypes'
  BY DEF IInv, TypeOK, ThreadTypes, VoiceReleaseSet, RaisedPcs, AppGoto
<1>5. TrackedSound'
  BY DEF IInv, TrackedSound, VoiceReleaseSet
<1>6. CallSound'
  BY DEF IInv, CallSound, VoiceReleaseSet, AppRunsAt, AppGoto
<1>7. LevelsSound'
  BY DEF IInv, LevelsSound, VoiceReleaseSet, AppRunsAt
<1>. QED  BY <1>1, <1>2, <1>3, <1>4, <1>5, <1>6, <1>7 DEF IInv, TypeOK

LEMMA VoiceReleaseCmdStep ==
  ASSUME IInv, VoiceReleaseCmd
  PROVE  IInv'
<1>1. VoiceTypes' /\ DriverTypes' /\ TrackedSound' /\ ListedIsTracked'
      /\ IndexOwnership' /\ IdleEntriesSound' /\ IdleVoicesGetDrained'
  BY Frame DEF VoiceReleaseCmd
<1>2. DeviceTypes'
  BY DEF IInv, TypeOK, DeviceTypes, VoiceTypes, CallSound, VoiceReleaseCmd,
     AppRunsAt, CfgFmt, Fmts
<1>3. ThreadTypes'
  BY DEF IInv, TypeOK, ThreadTypes, VoiceReleaseCmd, AppReturn, PassivePcs
<1>4. CallSound'
  BY DEF IInv, CallSound, VoiceReleaseCmd, AppRunsAt, AppReturn
<1>5. LevelsSound'
  BY DEF IInv, LevelsSound, VoiceReleaseCmd, AppRunsAt
<1>. QED  BY <1>1, <1>2, <1>3, <1>4, <1>5 DEF IInv, TypeOK

\* nxAudioVoiceStop.
LEMMA VoiceStopStep ==
  ASSUME IInv, NEW v \in Voices, VoiceStop(v)
  PROVE  IInv'
<1>1. VoiceTypes' /\ DriverTypes' /\ DeviceTypes' /\ TrackedSound'
      /\ ListedIsTracked' /\ IndexOwnership' /\ IdleEntriesSound'
      /\ IdleVoicesGetDrained'
  BY Frame DEF VoiceStop
<1>2. ThreadTypes'
  BY DEF IInv, TypeOK, ThreadTypes, VoiceStop, AppEnter, PassivePcs
<1>3. CallSound'
  BY DEF CallSound, VoiceStop, AppEnter
<1>4. LevelsSound'
  BY DEF IInv, LevelsSound, VoiceStop, AppRunsAt
<1>. QED  BY <1>1, <1>2, <1>3, <1>4 DEF IInv, TypeOK

LEMMA VoiceStopSetStep ==
  ASSUME IInv, VoiceStopSet
  PROVE  IInv'
<1>1. DriverTypes' /\ ListedIsTracked' /\ IndexOwnership' /\ IdleEntriesSound'
      /\ IdleVoicesGetDrained'
  BY Frame DEF VoiceStopSet
<1>2. VoiceTypes'
  BY DEF IInv, TypeOK, VoiceTypes, VoiceStopSet, States
<1>3. DeviceTypes'
  BY DEF IInv, TypeOK, DeviceTypes, VoiceStopSet
<1>4. ThreadTypes'
  BY DEF IInv, TypeOK, ThreadTypes, VoiceStopSet, RaisedPcs, AppGoto
<1>5. TrackedSound'
  BY DEF IInv, TrackedSound, VoiceStopSet
<1>6. CallSound'
  BY DEF IInv, CallSound, VoiceStopSet, AppRunsAt, AppGoto
<1>7. LevelsSound'
  BY DEF IInv, LevelsSound, VoiceStopSet, AppRunsAt
<1>. QED  BY <1>1, <1>2, <1>3, <1>4, <1>5, <1>6, <1>7 DEF IInv, TypeOK

LEMMA VoiceStopCmdStep ==
  ASSUME IInv, VoiceStopCmd
  PROVE  IInv'
<1>1. VoiceTypes' /\ DriverTypes' /\ TrackedSound' /\ ListedIsTracked'
      /\ IndexOwnership' /\ IdleEntriesSound' /\ IdleVoicesGetDrained'
  BY Frame DEF VoiceStopCmd
<1>2. DeviceTypes'
  <2>1. appVoice \in Voices /\ index[appVoice] \in HwVoices
    BY DEF IInv, TypeOK, VoiceTypes, CallSound, IndexOwnership, VoiceStopCmd,
       AppRunsAt
  <2>2. hwFmt' \in [HwVoices -> Fmts]
    BY <2>1 DEF IInv, TypeOK, VoiceTypes, DeviceTypes, Fmts, VoiceStopCmd,
       CfgFmt
  <2>. QED  BY <2>1, <2>2, GoesOffTypes DEF IInv, TypeOK, DeviceTypes,
               VoiceStopCmd
<1>3. ThreadTypes'
  BY DEF IInv, TypeOK, ThreadTypes, VoiceStopCmd, AppReturn, PassivePcs
<1>4. CallSound'
  BY DEF IInv, CallSound, VoiceStopCmd, AppRunsAt, AppReturn
<1>5. LevelsSound'
  BY DEF IInv, LevelsSound, VoiceStopCmd, AppRunsAt
<1>. QED  BY <1>1, <1>2, <1>3, <1>4, <1>5 DEF IInv, TypeOK

\* nxAudioVoicePause.
LEMMA VoicePauseStep ==
  ASSUME IInv, NEW v \in Voices, VoicePause(v)
  PROVE  IInv'
<1>1. VoiceTypes' /\ DriverTypes' /\ DeviceTypes' /\ TrackedSound'
      /\ ListedIsTracked' /\ IndexOwnership' /\ IdleEntriesSound'
      /\ IdleVoicesGetDrained'
  BY Frame DEF VoicePause
<1>2. ThreadTypes'
  BY DEF IInv, TypeOK, ThreadTypes, VoicePause, AppEnter, PassivePcs
<1>3. CallSound'
  BY DEF CallSound, VoicePause, AppEnter
<1>4. LevelsSound'
  BY DEF IInv, LevelsSound, VoicePause, AppRunsAt
<1>. QED  BY <1>1, <1>2, <1>3, <1>4 DEF IInv, TypeOK

LEMMA VoicePauseSetStep ==
  ASSUME IInv, VoicePauseSet
  PROVE  IInv'
<1>1. DriverTypes' /\ DeviceTypes' /\ ListedIsTracked' /\ IndexOwnership'
      /\ IdleEntriesSound' /\ IdleVoicesGetDrained'
  BY Frame DEF VoicePauseSet
<1>2. VoiceTypes'
  BY DEF IInv, TypeOK, VoiceTypes, VoicePauseSet, States
<1>3. ThreadTypes'
  BY DEF IInv, TypeOK, ThreadTypes, VoicePauseSet, RaisedPcs, AppGoto
<1>4. TrackedSound'
  BY DEF IInv, TrackedSound, VoicePauseSet
<1>5. CallSound'
  BY DEF IInv, CallSound, VoicePauseSet, AppRunsAt, AppGoto
<1>6. LevelsSound'
  BY DEF IInv, LevelsSound, VoicePauseSet, AppRunsAt
<1>. QED  BY <1>1, <1>2, <1>3, <1>4, <1>5, <1>6 DEF IInv, TypeOK

LEMMA VoicePauseCmdStep ==
  ASSUME IInv, VoicePauseCmd
  PROVE  IInv'
<1>1. VoiceTypes' /\ DriverTypes' /\ TrackedSound' /\ ListedIsTracked'
      /\ IndexOwnership' /\ IdleEntriesSound' /\ IdleVoicesGetDrained'
  BY Frame DEF VoicePauseCmd
<1>2. DeviceTypes'
  BY DEF IInv, TypeOK, DeviceTypes, CallSound, IndexOwnership, VoicePauseCmd,
     AppRunsAt
<1>3. ThreadTypes'
  BY DEF IInv, TypeOK, ThreadTypes, VoicePauseCmd, AppReturn, PassivePcs
<1>4. CallSound'
  BY DEF IInv, CallSound, VoicePauseCmd, AppRunsAt, AppReturn
<1>5. LevelsSound'
  BY DEF IInv, LevelsSound, VoicePauseCmd, AppRunsAt
<1>. QED  BY <1>1, <1>2, <1>3, <1>4, <1>5 DEF IInv, TypeOK

\* nxAudioVoiceDestroy: when the wait ends the voice is stopped or untracked,
\* so freeing its index leaves no pointer to it.
LEMMA VoiceDestroyStep ==
  ASSUME IInv, NEW v \in Voices, VoiceDestroy(v)
  PROVE  IInv'
<1>1. VoiceTypes' /\ DriverTypes' /\ DeviceTypes' /\ TrackedSound'
      /\ ListedIsTracked' /\ IndexOwnership' /\ IdleEntriesSound'
      /\ IdleVoicesGetDrained'
  BY Frame DEF VoiceDestroy
<1>2. ThreadTypes'
  BY DEF IInv, TypeOK, ThreadTypes, VoiceDestroy, PassivePcs
<1>3. CallSound'
  BY DEF CallSound, VoiceDestroy
<1>4. LevelsSound'
  BY DEF IInv, LevelsSound, VoiceDestroy, AppRunsAt
<1>. QED  BY <1>1, <1>2, <1>3, <1>4 DEF IInv, TypeOK

LEMMA DestroyWaitedStep ==
  ASSUME IInv, DestroyWaited, SlowHardware = FALSE
  PROVE  IInv'
<1>1. VoiceTypes' /\ DriverTypes' /\ DeviceTypes' /\ TrackedSound'
      /\ ListedIsTracked' /\ IndexOwnership' /\ IdleEntriesSound'
      /\ IdleVoicesGetDrained'
  BY Frame DEF DestroyWaited
<1>2. ThreadTypes'
  BY DEF IInv, TypeOK, ThreadTypes, DestroyWaited, AppGoto, PassivePcs
<1>3. CallSound'
  <2>1. appVoice' = appVoice /\ appPc' = "slot0" /\ appVoice \in live
    BY DEF IInv, CallSound, DestroyWaited, AppGoto, AppRunsAt
  <2>2. state[appVoice] = "STOPPED" \/ tracked[index[appVoice]] # appVoice
    BY SlowHardware = FALSE DEF DestroyWaited, NeverStops
  <2>3. \A i \in HwVoices : tracked[i] # appVoice
    BY <2>1, <2>2, VoicesAssumption DEF IInv, TypeOK, VoiceTypes,
       TrackedSound
  <2>. QED  BY <2>1, <2>3 DEF CallSound, DestroyWaited
<1>4. LevelsSound'
  BY DEF IInv, LevelsSound, DestroyWaited, AppRunsAt
<1>. QED  BY <1>1, <1>2, <1>3, <1>4 DEF IInv, TypeOK

LEMMA DestroySlotStep ==
  ASSUME IInv, NEW j \in Sides, DestroySlot(j)
  PROVE  IInv'
<1>1. DeviceTypes' /\ TrackedSound' /\ ListedIsTracked' /\ IndexOwnership'
      /\ IdleEntriesSound' /\ IdleVoicesGetDrained'
  BY Frame DEF DestroySlot
<1>2. VoiceTypes'
  BY DEF IInv, TypeOK, VoiceTypes, DestroySlot
<1>3. DriverTypes'
  BY LockTypes DEF IInv, TypeOK, DriverTypes, DestroySlot
<1>4. ThreadTypes'
  BY DEF IInv, TypeOK, ThreadTypes, DestroySlot, AppGoto, PassivePcs
<1>5. CallSound'
  BY DEF IInv, CallSound, DestroySlot, AppRunsAt, AppGoto
<1>6. LevelsSound'
  BY DEF IInv, LevelsSound, DestroySlot, AppRunsAt
<1>. QED  BY <1>1, <1>2, <1>3, <1>4, <1>5, <1>6 DEF IInv, TypeOK

LEMMA DestroyFreeStep ==
  ASSUME IInv, DestroyFree
  PROVE  IInv'
<1>1. DeviceTypes' /\ ListedIsTracked' /\ IdleEntriesSound'
      /\ IdleVoicesGetDrained'
  BY Frame DEF DestroyFree
<1>2. VoiceTypes'
  BY DEF IInv, TypeOK, VoiceTypes, DestroyFree
<1>3. DriverTypes'
  BY DEF IInv, TypeOK, DriverTypes, CallSound, IndexOwnership, DestroyFree,
     AppRunsAt
<1>4. ThreadTypes'
  BY DEF IInv, TypeOK, ThreadTypes, DestroyFree, PassivePcs
<1>5. TrackedSound'
  BY DEF IInv, TrackedSound, CallSound, DestroyFree, AppRunsAt
<1>6. IndexOwnership'
  BY DEF IInv, IndexOwnership, CallSound, DestroyFree, AppRunsAt
<1>7. CallSound'
  BY DEF CallSound, DestroyFree
<1>8. LevelsSound'
  BY DEF IInv, LevelsSound, DestroyFree, AppRunsAt
<1>. QED  BY <1>1, <1>2, <1>3, <1>4, <1>5, <1>6, <1>7, <1>8 DEF IInv, TypeOK

-----------------------------------------------------------------------------
(* apu_isr and apu_dpc *)

\* apu_isr, idle voice: it was listed, hence tracked and in no idle entry yet.
LEMMA IsrIdleVoiceStep ==
  ASSUME IInv, NEW i \in HwVoices, IsrIdleVoice(i)
  PROVE  IInv'
<1>1. VoiceTypes' /\ TrackedSound' /\ IndexOwnership'
  BY Frame DEF IsrIdleVoice
<1>2. DriverTypes'
  <2>1. idleFree' \in Nat /\ idleActive' \in Seq(HwVoices)
    BY AppendFacts DEF IInv, TypeOK, DriverTypes, IsrIdleVoice
  <2>. QED  BY <2>1 DEF IInv, TypeOK, DriverTypes, IsrIdleVoice
<1>3. DeviceTypes'
  BY DEF IInv, TypeOK, DeviceTypes, IsrIdleVoice, Unlinked
<1>4. ThreadTypes'
  BY DEF IInv, TypeOK, ThreadTypes, IsrIdleVoice
<1>5. ListedIsTracked'
  BY DEF IInv, ListedIsTracked, IsrIdleVoice, Unlinked
<1>6. IdleEntriesSound'
  <2>1. /\ i \in onList /\ tracked[i] # NoVoice /\ onList' = onList \ {i}
        /\ UNCHANGED <<tracked, inHand>>
    BY NotNoHw DEF IInv, LevelsSound, ListedIsTracked, IsrIdleVoice,
       Unlinked
  <2>2. idleActive \in Seq(HwVoices) /\ idleFree \in Nat
    BY DEF IInv, TypeOK, DriverTypes
  <2>3. CASE idleFree > 0
    <3>1. idleFree' = idleFree - 1 /\ idleActive' = Append(idleActive, i)
      BY <2>3 DEF IsrIdleVoice
    <3>2. /\ Len(idleActive') = Len(idleActive) + 1
          /\ \A k \in DOMAIN idleActive' :
               \/ k \in DOMAIN idleActive /\ idleActive'[k] = idleActive[k]
               \/ k = Len(idleActive) + 1 /\ idleActive'[k] = i
      BY <2>2, <3>1
    <3>3. idleFree' + Len(idleActive') + (IF inHand' = NoHw THEN 0 ELSE 1)
            = IdleQueueSize
      BY <2>1, <2>2, <3>1, <3>2 DEF IInv, IdleEntriesSound
    <3>4. \A k \in DOMAIN idleActive' :
            /\ idleActive'[k] \notin onList'
            /\ tracked'[idleActive'[k]] # NoVoice
            /\ idleActive'[k] # inHand'
      <4>1. i # inHand
        BY <2>1, NotNoHw DEF IInv, IdleEntriesSound
      <4>. QED  BY <2>1, <3>2, <4>1 DEF IInv, IdleEntriesSound
    <3>5. \A k, l \in DOMAIN idleActive' :
            idleActive'[k] = idleActive'[l] => k = l
      BY <2>1, <3>2 DEF IInv, IdleEntriesSound
    <3>6. inHand' # NoHw
            => inHand' \notin onList' /\ tracked'[inHand'] # NoVoice
      BY <2>1 DEF IInv, IdleEntriesSound
    <3>. QED  BY <3>3, <3>4, <3>5, <3>6 DEF IdleEntriesSound
  <2>4. CASE ~(idleFree > 0)
    BY <2>1, <2>4 DEF IInv, IdleEntriesSound, IsrIdleVoice
  <2>. QED  BY <2>3, <2>4
<1>7. IdleVoicesGetDrained'
  BY DEF IInv, IdleVoicesGetDrained, IsrIdleVoice
<1>8. CallSound'
  <2>1. i \in onList /\ onList' = onList \ {i}
    BY NotNoHw DEF IInv, LevelsSound, IsrIdleVoice, Unlinked
  <2>2. \A k \in DOMAIN idleActive' :
          \/ k \in DOMAIN idleActive /\ idleActive'[k] = idleActive[k]
          \/ idleActive'[k] = i
    BY DEF IsrIdleVoice
  <2>3. appPc = "start_on" =>
          /\ index[appVoice] \notin onList'
          /\ \A k \in DOMAIN idleActive' : idleActive'[k] # index[appVoice]
    BY <2>1, <2>2 DEF IInv, CallSound
  <2>. QED  BY <2>3 DEF IInv, CallSound, IsrIdleVoice
<1>9. LevelsSound'
  BY DEF IInv, LevelsSound, IsrIdleVoice
<1>. QED  BY <1>1, <1>2, <1>3, <1>4, <1>5, <1>6, <1>7, <1>8, <1>9 DEF IInv,
             TypeOK

\* apu_isr, the branches that leave the lists alone.
LEMMA IsrPersistentVoiceStep ==
  ASSUME IInv, NEW i \in HwVoices, IsrPersistentVoice(i)
  PROVE  IInv'
<1>1. VoiceTypes' /\ DriverTypes' /\ TrackedSound' /\ ListedIsTracked'
      /\ IndexOwnership' /\ IdleEntriesSound' /\ CallSound'
  BY Frame DEF IsrPersistentVoice
<1>2. DeviceTypes'
  BY DEF IInv, TypeOK, DeviceTypes, IsrPersistentVoice
<1>3. ThreadTypes'
  BY DEF IInv, TypeOK, ThreadTypes, IsrPersistentVoice
<1>4. IdleVoicesGetDrained'
  BY DEF IInv, IdleVoicesGetDrained, IsrPersistentVoice
<1>5. LevelsSound'
  BY DEF IInv, LevelsSound, IsrPersistentVoice
<1>. QED  BY <1>1, <1>2, <1>3, <1>4, <1>5 DEF IInv, TypeOK

LEMMA IsrNotificationStep ==
  ASSUME IInv, IsrNotification
  PROVE  IInv'
<1>1. VoiceTypes' /\ DriverTypes' /\ TrackedSound' /\ ListedIsTracked'
      /\ IndexOwnership' /\ IdleEntriesSound' /\ CallSound' /\ LevelsSound'
  BY Frame DEF IsrNotification
<1>2. DeviceTypes'
  BY DEF IInv, TypeOK, DeviceTypes, IsrNotification
<1>3. ThreadTypes'
  BY DEF IInv, TypeOK, ThreadTypes, IsrNotification
<1>4. IdleVoicesGetDrained'
  BY DEF IdleVoicesGetDrained, IsrNotification
<1>. QED  BY <1>1, <1>2, <1>3, <1>4 DEF IInv, TypeOK

\* apu_dpc, the scan of the notifiers and the callback.
LEMMA DpcStartStep ==
  ASSUME IInv, DpcStart
  PROVE  IInv'
<1>1. VoiceTypes' /\ DriverTypes' /\ DeviceTypes' /\ TrackedSound'
      /\ ListedIsTracked' /\ IndexOwnership' /\ IdleEntriesSound' /\ CallSound'
  BY Frame DEF DpcStart
<1>2. ThreadTypes'
  BY DEF IInv, TypeOK, ThreadTypes, DpcStart, DpcPcs
<1>3. IdleVoicesGetDrained'
  BY DEF IdleVoicesGetDrained, DpcStart
<1>4. LevelsSound'
  BY DEF IInv, LevelsSound, DpcStart, PassivePcs, RaisedPcs
<1>. QED  BY <1>1, <1>2, <1>3, <1>4 DEF IInv, TypeOK

LEMMA DpcReleaseStep ==
  ASSUME IInv, NEW i \in HwVoices, NEW j \in Sides, DpcRelease(i, j)
  PROVE  IInv'
<1>1. DeviceTypes' /\ TrackedSound' /\ ListedIsTracked' /\ IndexOwnership'
      /\ IdleEntriesSound' /\ CallSound'
  BY Frame DEF DpcRelease
<1>2. VoiceTypes'
  BY VoicesAssumption, SizesAssumption DEF IInv, TypeOK, VoiceTypes,
     DpcRelease, ScanAt, Sides
<1>3. DriverTypes'
  BY LockTypes DEF IInv, TypeOK, DriverTypes, DpcRelease
<1>4. ThreadTypes'
  BY DEF IInv, TypeOK, ThreadTypes, DriverTypes, DpcRelease, DpcPcs
<1>5. IdleVoicesGetDrained'
  BY DEF IInv, IdleVoicesGetDrained, DpcRelease
<1>6. LevelsSound'
  BY DEF IInv, LevelsSound, DpcRelease, ScanAt
<1>. QED  BY <1>1, <1>2, <1>3, <1>4, <1>5, <1>6 DEF IInv, TypeOK

LEMMA DpcSkipStep ==
  ASSUME IInv, NEW i \in HwVoices, NEW j \in Sides, DpcSkip(i, j)
  PROVE  IInv'
<1>1. VoiceTypes' /\ DriverTypes' /\ DeviceTypes' /\ TrackedSound'
      /\ ListedIsTracked' /\ IndexOwnership' /\ IdleEntriesSound'
      /\ IdleVoicesGetDrained' /\ CallSound' /\ LevelsSound'
  BY Frame DEF DpcSkip
<1>2. ThreadTypes'
  BY DEF IInv, TypeOK, ThreadTypes, DpcSkip
<1>. QED  BY <1>1, <1>2 DEF IInv, TypeOK

LEMMA DpcCallbackQueueStep ==
  ASSUME IInv, NEW b \in Buffers, DpcCallbackQueue(b)
  PROVE  IInv'
<1>1. TrackedSound' /\ ListedIsTracked' /\ IndexOwnership' /\ IdleEntriesSound'
      /\ CallSound'
  BY Frame DEF DpcCallbackQueue, QueueBegin, QueueReject
<1>2. VoiceTypes'
  BY VoicesAssumption, QueueBeginTypes DEF IInv, TypeOK, DpcCallbackQueue
<1>3. DriverTypes'
  BY VoicesAssumption, QueueBeginTypes DEF IInv, TypeOK, DpcCallbackQueue
<1>4. DeviceTypes'
  BY VoicesAssumption, QueueBeginTypes DEF IInv, TypeOK, DpcCallbackQueue
<1>5. ThreadTypes'
  BY DEF IInv, TypeOK, ThreadTypes, DpcCallbackQueue, QueueBegin, QueueReject,
     DpcPcs
<1>6. IdleVoicesGetDrained'
  BY DEF IdleVoicesGetDrained, DpcCallbackQueue
<1>7. LevelsSound'
  BY DEF IInv, LevelsSound, DpcCallbackQueue, QueueBegin, QueueReject
<1>. QED  BY <1>1, <1>2, <1>3, <1>4, <1>5, <1>6, <1>7 DEF IInv, TypeOK

LEMMA DpcCallbackSslStep ==
  ASSUME IInv, DpcCallbackSsl
  PROVE  IInv'
<1>1. VoiceTypes' /\ DriverTypes' /\ TrackedSound' /\ ListedIsTracked'
      /\ IndexOwnership' /\ IdleEntriesSound' /\ CallSound'
  BY Frame DEF DpcCallbackSsl, QueueSsl
<1>2. DeviceTypes'
  BY DEF IInv, TypeOK, DeviceTypes, ThreadTypes, DpcCallbackSsl, QueueSsl
<1>3. ThreadTypes'
  BY DEF IInv, TypeOK, ThreadTypes, DpcCallbackSsl, QueueSsl, DpcPcs
<1>4. IdleVoicesGetDrained'
  BY DEF IdleVoicesGetDrained, DpcCallbackSsl
<1>5. LevelsSound'
  BY DEF IInv, LevelsSound, DpcCallbackSsl, QueueSsl
<1>. QED  BY <1>1, <1>2, <1>3, <1>4, <1>5 DEF IInv, TypeOK

LEMMA DpcCallbackSlotStep ==
  ASSUME IInv, DpcCallbackSlot
  PROVE  IInv'
<1>1. DriverTypes' /\ DeviceTypes' /\ TrackedSound' /\ ListedIsTracked'
      /\ IndexOwnership' /\ IdleEntriesSound' /\ CallSound'
  BY Frame DEF DpcCallbackSlot, QueueSlot
<1>2. VoiceTypes'
  BY DEF IInv, TypeOK, VoiceTypes, ThreadTypes, DpcCallbackSlot, QueueSlot
<1>3. ThreadTypes'
  BY DEF IInv, TypeOK, ThreadTypes, DpcCallbackSlot, QueueSlot, NotQueueing,
     DpcPcs, Sides
<1>4. IdleVoicesGetDrained'
  BY DEF IdleVoicesGetDrained, DpcCallbackSlot
<1>5. LevelsSound'
  BY DEF IInv, LevelsSound, DpcCallbackSlot, QueueSlot
<1>. QED  BY <1>1, <1>2, <1>3, <1>4, <1>5 DEF IInv, TypeOK

LEMMA DpcCallbackReturnStep ==
  ASSUME IInv, DpcCallbackReturn
  PROVE  IInv'
<1>1. VoiceTypes' /\ DriverTypes' /\ DeviceTypes' /\ TrackedSound'
      /\ ListedIsTracked' /\ IndexOwnership' /\ IdleEntriesSound' /\ CallSound'
  BY Frame DEF DpcCallbackReturn
<1>2. ThreadTypes'
  BY DEF IInv, TypeOK, ThreadTypes, DpcCallbackReturn, DpcPcs
<1>3. IdleVoicesGetDrained'
  BY DEF IdleVoicesGetDrained, DpcCallbackReturn
<1>4. LevelsSound'
  BY DEF IInv, LevelsSound, DpcCallbackReturn
<1>. QED  BY <1>1, <1>2, <1>3, <1>4 DEF IInv, TypeOK

LEMMA DpcScannedStep ==
  ASSUME IInv, DpcScanned
  PROVE  IInv'
<1>1. VoiceTypes' /\ DriverTypes' /\ DeviceTypes' /\ TrackedSound'
      /\ ListedIsTracked' /\ IndexOwnership' /\ IdleEntriesSound' /\ CallSound'
  BY Frame DEF DpcScanned
<1>2. ThreadTypes'
  BY DEF IInv, TypeOK, ThreadTypes, DpcScanned, DpcPcs
<1>3. IdleVoicesGetDrained'
  BY DEF IdleVoicesGetDrained, DpcScanned
<1>4. LevelsSound'
  BY DEF IInv, LevelsSound, DpcScanned
<1>. QED  BY <1>1, <1>2, <1>3, <1>4 DEF IInv, TypeOK

\* apu_dpc, the drain of the idle list.  A voice it pops is unlisted, so it may
\* be forgotten, and it was the only entry for that voice.
LEMMA DpcPopStep ==
  ASSUME IInv, DpcPop
  PROVE  IInv'
<1>1. VoiceTypes' /\ DeviceTypes' /\ TrackedSound' /\ ListedIsTracked'
      /\ IndexOwnership'
  BY Frame DEF DpcPop
<1>2. DriverTypes'
  BY SizesAssumption DEF IInv, TypeOK, DriverTypes, DpcPop
<1>3. ThreadTypes'
  BY SizesAssumption DEF IInv, TypeOK, ThreadTypes, DriverTypes, DpcPop,
     DpcPcs
<1>4. IdleEntriesSound'
  <2>1. /\ idleActive \in Seq(HwVoices) /\ idleActive # <<>>
        /\ idleActive' = SubSeq(idleActive, 1, Len(idleActive) - 1)
        /\ inHand' = idleActive[Len(idleActive)]
    BY DEF IInv, TypeOK, DriverTypes, DpcPop
  <2>2. /\ Len(idleActive) \in DOMAIN idleActive /\ inHand' \in HwVoices
        /\ Len(idleActive') + 1 = Len(idleActive)
        /\ \A k \in DOMAIN idleActive' :
             /\ k \in DOMAIN idleActive /\ k # Len(idleActive)
             /\ idleActive'[k] = idleActive[k]
    BY <2>1, PopFacts
  <2>3. /\ inHand = NoHw /\ inHand' # NoHw
        /\ UNCHANGED <<onList, tracked, idleFree>>
    BY <2>2, NotNoHw DEF IInv, LevelsSound, DpcPop
  <2>4. idleFree' + Len(idleActive') + 1 = IdleQueueSize
    BY <2>1, <2>2, <2>3 DEF IInv, TypeOK, DriverTypes, IdleEntriesSound
  <2>5. \A k \in DOMAIN idleActive' :
          /\ idleActive'[k] \notin onList /\ tracked[idleActive'[k]] # NoVoice
          /\ idleActive'[k] # inHand'
          /\ \A l \in DOMAIN idleActive' :
               idleActive'[k] = idleActive'[l] => k = l
    BY <2>1, <2>2 DEF IInv, IdleEntriesSound
  <2>6. inHand' \notin onList /\ tracked[inHand'] # NoVoice
    BY <2>1, <2>2 DEF IInv, IdleEntriesSound
  <2>. QED  BY <2>3, <2>4, <2>5, <2>6 DEF IdleEntriesSound
<1>5. IdleVoicesGetDrained'
  BY DEF IdleVoicesGetDrained, DpcPop
<1>6. CallSound'
  BY DEF IInv, CallSound, DpcPop
<1>7. LevelsSound'
  BY SizesAssumption DEF IInv, TypeOK, LevelsSound, DriverTypes, DpcPop, NoHw,
     HwVoices
<1>. QED  BY <1>1, <1>2, <1>3, <1>4, <1>5, <1>6, <1>7 DEF IInv, TypeOK

LEMMA DpcRetireStep ==
  ASSUME IInv, DpcRetire
  PROVE  IInv'
<1>1. DeviceTypes' /\ IndexOwnership'
  BY Frame DEF DpcRetire
<1>2. VoiceTypes'
  BY DEF IInv, TypeOK, VoiceTypes, DpcRetire, States
<1>3. DriverTypes'
  <2>1. tracked' \in [HwVoices -> Voices \cup {NoVoice}]
    BY DEF IInv, TypeOK, DriverTypes, DpcRetire
  <2>2. idleFree' \in Nat
    BY DEF IInv, TypeOK, DriverTypes, DpcRetire
  <2>. QED  BY <2>1, <2>2 DEF IInv, TypeOK, DriverTypes, DpcRetire
<1>4. ThreadTypes'
  BY DEF IInv, TypeOK, ThreadTypes, DpcRetire, DpcPcs
<1>5. TrackedSound'
  <2>1. inHand \in HwVoices /\ tracked[inHand] \in live
    BY DEF IInv, TypeOK, ThreadTypes, LevelsSound, IdleEntriesSound,
       TrackedSound, DpcRetire
  <2>2. /\ tracked'[inHand] = NoVoice
        /\ \A i \in HwVoices \ {inHand} : tracked'[i] = tracked[i]
    BY <2>1 DEF IInv, TypeOK, DriverTypes, DpcRetire
  <2>3. \A i \in HwVoices \ {inHand} :
          tracked[i] # NoVoice => tracked[i] # tracked[inHand]
    BY <2>1 DEF IInv, TrackedSound
  <2>4. \A v \in live : v # tracked[inHand] => state'[v] = state[v]
    BY DEF DpcRetire
  <2>5. UNCHANGED <<live, index>>
    BY DEF DpcRetire
  <2>. QED  BY <2>2, <2>3, <2>4, <2>5 DEF IInv, TrackedSound
<1>6. ListedIsTracked'
  BY DEF IInv, ListedIsTracked, IdleEntriesSound, LevelsSound, DpcRetire
<1>7. IdleEntriesSound'
  BY SizesAssumption DEF IInv, TypeOK, IdleEntriesSound, DriverTypes,
     LevelsSound, DpcRetire, NoHw, HwVoices
<1>8. IdleVoicesGetDrained'
  BY DEF IdleVoicesGetDrained, DpcRetire
<1>9. CallSound'
  <2>1. appPc \notin RaisedPcs
    BY DEF IInv, LevelsSound, DpcRetire
  <2>2. appVoice \in live /\ state[appVoice] = "STOPPED"
          => state'[appVoice] = "STOPPED"
    BY DEF DpcRetire
  <2>3. (\A i \in HwVoices : tracked[i] # appVoice) /\ appVoice \in live
          => \A i \in HwVoices : tracked'[i] # appVoice
    BY VoicesAssumption DEF IInv, TypeOK, VoiceTypes, DpcRetire
  <2>. QED  BY <2>1, <2>2, <2>3 DEF IInv, CallSound, RaisedPcs, DpcRetire
<1>10. LevelsSound'
  BY DEF IInv, LevelsSound, DpcRetire
<1>. QED  BY <1>1, <1>2, <1>3, <1>4, <1>5, <1>6, <1>7, <1>8, <1>9, <1>10
             DEF IInv, TypeOK

LEMMA DpcEndStep ==
  ASSUME IInv, DpcEnd
  PROVE  IInv'
<1>1. VoiceTypes' /\ DriverTypes' /\ DeviceTypes' /\ TrackedSound'
      /\ ListedIsTracked' /\ IndexOwnership' /\ IdleEntriesSound' /\ CallSound'
  BY Frame DEF DpcEnd
<1>2. ThreadTypes'
  BY DEF IInv, TypeOK, ThreadTypes, DpcEnd, DpcPcs
<1>3. IdleVoicesGetDrained'
  BY DEF IInv, IdleVoicesGetDrained, LevelsSound, DpcEnd
<1>4. LevelsSound'
  BY DEF IInv, LevelsSound, DpcEnd
<1>. QED  BY <1>1, <1>2, <1>3, <1>4 DEF IInv, TypeOK

-----------------------------------------------------------------------------
(* The voice processor *)

\* The voice processor touches none of the driver's tables.
LEMMA HwFinishSslStep ==
  ASSUME IInv, NEW i \in HwVoices, NEW j \in Sides, HwFinishSsl(i, j)
  PROVE  IInv'
<1>1. VoiceTypes' /\ DriverTypes' /\ ThreadTypes' /\ TrackedSound'
      /\ ListedIsTracked' /\ IndexOwnership' /\ IdleEntriesSound'
      /\ IdleVoicesGetDrained' /\ CallSound' /\ LevelsSound'
  BY Frame DEF HwFinishSsl
<1>2. DeviceTypes'
  BY DEF IInv, TypeOK, DeviceTypes, HwFinishSsl
<1>. QED  BY <1>1, <1>2 DEF IInv, TypeOK

LEMMA HwVoiceEndsStep ==
  ASSUME IInv, NEW i \in HwVoices, HwVoiceEnds(i)
  PROVE  IInv'
<1>1. VoiceTypes' /\ DriverTypes' /\ ThreadTypes' /\ TrackedSound'
      /\ ListedIsTracked' /\ IndexOwnership' /\ IdleEntriesSound'
      /\ IdleVoicesGetDrained' /\ CallSound' /\ LevelsSound'
  BY Frame DEF HwVoiceEnds
<1>2. DeviceTypes'
  BY GoesOffTypes DEF IInv, TypeOK, DeviceTypes, HwVoiceEnds
<1>. QED  BY <1>1, <1>2 DEF IInv, TypeOK

LEMMA HwIdleStep ==
  ASSUME IInv, NEW i \in HwVoices, HwIdle(i)
  PROVE  IInv'
<1>1. VoiceTypes' /\ DriverTypes' /\ ThreadTypes' /\ TrackedSound'
      /\ ListedIsTracked' /\ IndexOwnership' /\ IdleEntriesSound'
      /\ IdleVoicesGetDrained' /\ CallSound'
  BY Frame DEF HwIdle
<1>2. DeviceTypes'
  BY DEF IInv, TypeOK, DeviceTypes, HwIdle
<1>3. LevelsSound'
  BY DEF IInv, LevelsSound, HwIdle, Processed
<1>. QED  BY <1>1, <1>2, <1>3 DEF IInv, TypeOK

-----------------------------------------------------------------------------
(* The inductive invariant *)

\* The state nxAudioInit leaves satisfies the invariant.
LEMMA InitIInv == Init => IInv
<1>. SUFFICES ASSUME Init PROVE IInv
  OBVIOUS
<1>1. VoiceTypes
  BY DEF Init, VoiceTypes, States
<1>2. DriverTypes
  BY SizesAssumption DEF Init, DriverTypes
<1>3. DeviceTypes
  BY DEF Init, DeviceTypes, Fmts
<1>4. ThreadTypes
  BY DEF Init, ThreadTypes, PassivePcs, DpcPcs, NotQueueing, Sides
<1>5. TrackedSound /\ ListedIsTracked /\ IndexOwnership
  BY DEF Init, TrackedSound, ListedIsTracked, IndexOwnership
<1>6. IdleEntriesSound /\ IdleVoicesGetDrained
  BY SizesAssumption DEF Init, IdleEntriesSound, IdleVoicesGetDrained
<1>7. CallSound /\ LevelsSound
  BY DEF Init, CallSound, LevelsSound
<1>. QED  BY <1>1, <1>2, <1>3, <1>4, <1>5, <1>6, <1>7 DEF IInv, TypeOK

\* The steps of one actor, put together.
LEMMA AppCallStep ==
  ASSUME IInv, AppCall
  PROVE  IInv'
BY VoiceCreateStep, VoiceSetFormatStep, VoiceStartStep, VoiceReleaseStep,
   VoiceStopStep, VoicePauseStep, VoiceDestroyStep, BufferQueueStep,
   BufferSubmitStep DEF AppCall

LEMMA AppBodyStep ==
  ASSUME IInv, AppBody, SlowHardware = FALSE
  PROVE  IInv'
BY BufferQueueSslStep, BufferQueueSlotStep, VoiceStartTestStep, VoiceUnpauseSetStep,
   VoiceUnpauseStep, VoiceStartTrackStep, VoiceStartOnStep,
   VoiceReleaseSetStep, VoiceReleaseCmdStep, VoiceStopSetStep,
   VoiceStopCmdStep, VoicePauseSetStep, VoicePauseCmdStep, DestroyWaitedStep,
   DestroySlotStep, DestroyFreeStep DEF AppBody

LEMMA IsrStep ==
  ASSUME IInv, Isr
  PROVE  IInv'
BY IsrIdleVoiceStep, IsrPersistentVoiceStep, IsrNotificationStep DEF Isr

LEMMA DpcStep ==
  ASSUME IInv, Dpc
  PROVE  IInv'
BY DpcStartStep, DpcReleaseStep, DpcSkipStep, DpcCallbackQueueStep,
   DpcCallbackSslStep, DpcCallbackSlotStep, DpcCallbackReturnStep,
   DpcScannedStep, DpcPopStep, DpcRetireStep, DpcEndStep DEF Dpc

LEMMA HwStep ==
  ASSUME IInv, Hw
  PROVE  IInv'
BY HwFinishSslStep, HwVoiceEndsStep, HwIdleStep DEF Hw

\* Every step keeps the invariant.
LEMMA NextStep ==
  ASSUME SlowHardware = FALSE, IInv, [Next]_vars
  PROVE  IInv'
<1>1. CASE Next
  BY <1>1, AppCallStep, AppBodyStep, IsrStep, DpcStep, HwStep DEF Next
<1>2. CASE UNCHANGED vars
  BY <1>2, Frame DEF vars, IInv, TypeOK
<1>. QED  BY <1>1, <1>2

-----------------------------------------------------------------------------
(* Theorems *)

\* The inductive invariant holds of every reachable state, whatever calls the
\* application makes and however apu_isr, apu_dpc and the VP interleave with
\* them.
THEOREM Invariance ==
  ASSUME SlowHardware = FALSE
  PROVE  Spec => []IInv
<1>1. Init => IInv
  BY InitIInv
<1>2. IInv /\ [Next]_vars => IInv'
  BY NextStep
<1>. QED  BY <1>1, <1>2, PTL DEF Spec

\* Type correctness.
THEOREM TypeCorrect ==
  ASSUME SlowHardware = FALSE
  PROVE  Spec => []TypeOK
<1>1. IInv => TypeOK
  BY DEF IInv
<1>. QED  BY <1>1, Invariance, PTL

\* What apu_isr and apu_dpc reach through g_tracked_voices is always a created
\* voice that has this index and is not stopped, and every voice on a
\* processing list is reached that way.
THEOREM TrackedVoicesSound ==
  ASSUME SlowHardware = FALSE
  PROVE  Spec => [](TrackedSound /\ ListedIsTracked)
<1>1. IInv => TrackedSound /\ ListedIsTracked
  BY DEF IInv
<1>. QED  BY <1>1, Invariance, PTL

\* voice_allocate and voice_free: no index belongs to two created voices, and
\* none is lost, through any number of Create, SetFormat and Destroy calls.
THEOREM IndicesOwned ==
  ASSUME SlowHardware = FALSE
  PROVE  Spec => []IndexOwnership
<1>1. IInv => IndexOwnership
  BY DEF IInv
<1>. QED  BY <1>1, Invariance, PTL

\* The two idle lists: no entry is lost or used twice, what is queued is a
\* tracked voice off every list, and a run of apu_dpc that will see it is due.
THEOREM IdleListsSound ==
  ASSUME SlowHardware = FALSE
  PROVE  Spec => [](IdleEntriesSound /\ IdleVoicesGetDrained)
<1>1. IInv => IdleEntriesSound /\ IdleVoicesGetDrained
  BY DEF IInv
<1>. QED  BY <1>1, Invariance, PTL

\* The entries in use hold distinct voices, none of them the trapped one: with
\* as many entries as indices, one is left for it.
LEMMA EntryAvailable == IInv => IdleEntryAvailable
<1>. SUFFICES ASSUME IInv, trap # NoHw, ~(idleFree > 0)
              PROVE  FALSE
  BY DEF IdleEntryAvailable
<1>. DEFINE len == Len(idleActive)
            n   == len + 1 + (IF inHand = NoHw THEN 0 ELSE 1)
            f   == [k \in 1 .. n |-> IF k <= len THEN idleActive[k]
                                    ELSE IF k = len + 1 THEN trap ELSE inHand]
<1>1. /\ idleActive \in Seq(HwVoices) /\ idleFree = 0
      /\ trap \in HwVoices /\ inHand \in HwVoices \cup {NoHw}
  BY DEF IInv, TypeOK, DriverTypes, DeviceTypes, ThreadTypes
<1>2. /\ len \in Nat /\ DOMAIN idleActive = 1 .. len
      /\ \A k \in 1 .. len : idleActive[k] \in HwVoices
  BY <1>1
<1>3. n \in Nat /\ n > IdleQueueSize
  <2>1. idleFree + len + (IF inHand = NoHw THEN 0 ELSE 1) = IdleQueueSize
    BY DEF IInv, IdleEntriesSound
  <2>2. n = IdleQueueSize + 1
    <3>. HIDE DEF len
    <3>. QED  BY <1>1, <1>2, <2>1, SizesAssumption
  <2>. QED  BY <2>2, SizesAssumption
<1>4. trap \in onList
  BY DEF IInv, LevelsSound
<1>5. /\ \A k \in 1 .. len :
           idleActive[k] # trap /\ idleActive[k] # inHand
      /\ \A k, l \in 1 .. len : idleActive[k] = idleActive[l] => k = l
      /\ inHand # trap
  BY <1>2, <1>4 DEF IInv, IdleEntriesSound
<1>. HIDE DEF len
<1>6. f \in [1 .. n -> HwVoices]
  BY <1>1, <1>2
<1>7. IsFiniteSet(1 .. n) /\ Cardinality(1 .. n) = n
  BY <1>3, FS_Interval
<1>8. IsFiniteSet(HwVoices) /\ Cardinality(HwVoices) = NumHw
  <2>1. 0 \in Int /\ NumHw - 1 \in Int /\ NumHw \in Nat
    BY SizesAssumption
  <2>2. IsFiniteSet(0 .. NumHw - 1)
        /\ Cardinality(0 .. NumHw - 1)
             = IF 0 > NumHw - 1 THEN 0 ELSE NumHw - 1 - 0 + 1
    BY <2>1, FS_Interval
  <2>. QED  BY <2>1, <2>2 DEF HwVoices
<1>9. NumHw < n
  BY <1>3, SizesAssumption
<1>10. \E x, y \in 1 .. n : x # y /\ f[x] = f[y]
  <2>. HIDE DEF f, n
  <2>. QED  BY <1>6, <1>7, <1>8, <1>9, FS_PigeonHole
<1>. QED  BY <1>2, <1>5, <1>10

\* IDLE_VOICE_QUEUE_SIZE is enough: when apu_isr has an idle voice to queue,
\* the free list is not empty: the branch that would forget the voice is dead.
THEOREM IdleEntryAlwaysAvailable ==
  ASSUME SlowHardware = FALSE
  PROVE  Spec => []IdleEntryAvailable
BY Invariance, EntryAvailable, PTL

-----------------------------------------------------------------------------
(***************************************************************************)
(* What happens to the buffers of streaming voices: no completed buffer is *)
(* forgotten by the notifiers, FEV and the DPC, and every page lock is     *)
(* given back exactly once.  These proofs add to IInv what the one         *)
(* nxAudioBufferQueue body in progress (QueueSound), the slots (HeldSound) *)
(* and the callback of apu_dpc (CallbackSound) keep.                       *)
(*                                                                         *)
(* The application only streams (StaticVoices = {}): a static voice keeps  *)
(* its completed buffer, and the locks of one are not balanced.            *)
(***************************************************************************)

QueuePcs == {"queue_ssl", "queue_slot"}
FreePcs == {"slot0", "slot1", "free"}
Called == fev \/ dpcQueued

\* The buffer being queued has its slot to itself, and a completion of it is
\* announced to a run of apu_dpc that has not started.
QueueSound ==
  /\ queueing.voice # NoVoice <=> (appPc \in QueuePcs \/ dpcPc \in QueuePcs)
  /\ queueing.voice = NoVoice => queueing.buffer = NoBuffer
  /\ queueing.voice # NoVoice =>
       /\ queueing.voice \in live /\ queueing.buffer \in Buffers
       /\ streaming[queueing.voice]
       /\ buffers[queueing.voice][queueing.side] = NoBuffer
       /\ done[index[queueing.voice]][queueing.side] => Called

\* Only a created voice that streams holds buffers, and nxAudioVoiceDestroy has
\* emptied its slots when it frees it.
HeldSound ==
  /\ \A v \in Voices, j \in Sides :
       buffers[v][j] # NoBuffer => v \in live /\ streaming[v]
  /\ appPc \in {"slot1", "free"} => buffers[appVoice][0] = NoBuffer
  /\ appPc = "free" => buffers[appVoice][1] = NoBuffer

\* The callback is for a created voice that is not being freed.
CallbackSound ==
  dpcPc \in {"callback"} \cup QueuePcs =>
    /\ dpcVoice \in live /\ streaming[dpcVoice]
    /\ appPc \in FreePcs => dpcVoice # appVoice
    /\ dpcPc \in QueuePcs => queueing.voice = dpcVoice

BuffersInv == IInv /\ QueueSound /\ HeldSound /\ CallbackSound /\ CompletionPending

-----------------------------------------------------------------------------
(* The steps that only move a thread, or raise a notifier with FEV or a    *)
(* DPC after it.                                                           *)

\* The voices and their slots do not change; a notifier is raised only with a
\* call of apu_dpc behind it.
Signals ==
  /\ UNCHANGED <<live, index, streaming, buffers, tracked, queueing, scan>>
  /\ \/ done' = done /\ (Called => Called')
     \/ Called'

\* A step of the application between two steps of apu_dpc.
AppMoves ==
  /\ Signals /\ dpcPc = "off" /\ dpcPc' = "off"
  /\ appPc \in QueuePcs <=> appPc' \in QueuePcs
  /\ appPc' \notin {"slot1", "free"}

\* A step of the other actors.
OthersMove ==
  /\ Signals /\ appPc' = appPc /\ appVoice' = appVoice
  /\ dpcPc \in QueuePcs <=> dpcPc' \in QueuePcs
  /\ dpcPc' \in {"callback"} \cup QueuePcs =>
       dpcPc \in {"callback"} \cup QueuePcs /\ dpcVoice' = dpcVoice

LEMMA SignalsKeep ==
  ASSUME Signals
  PROVE  /\ CompletionPending => CompletionPending'
         /\ queueing.voice # NoVoice /\ QueueSound =>
              /\ queueing'.voice \in live' /\ queueing'.buffer \in Buffers
              /\ streaming'[queueing'.voice]
              /\ buffers'[queueing'.voice][queueing'.side] = NoBuffer
              /\ done'[index'[queueing'.voice]][queueing'.side] => Called'
BY Zenon DEF Signals, CompletionPending, Completed, QueueSound, Called

LEMMA AppMovesStep ==
  ASSUME AppMoves, QueueSound, HeldSound, CompletionPending
  PROVE  QueueSound' /\ HeldSound' /\ CallbackSound' /\ CompletionPending'
<1>1. QueueSound'
  BY SignalsKeep DEF AppMoves, Signals, QueueSound, QueuePcs
<1>2. HeldSound'
  BY DEF AppMoves, Signals, HeldSound
<1>3. CallbackSound'
  BY DEF AppMoves, CallbackSound, QueuePcs
<1>. QED  BY <1>1, <1>2, <1>3, SignalsKeep DEF AppMoves

LEMMA OthersMoveStep ==
  ASSUME OthersMove, QueueSound, HeldSound, CallbackSound, CompletionPending
  PROVE  QueueSound' /\ HeldSound' /\ CallbackSound' /\ CompletionPending'
<1>1. QueueSound'
  BY SignalsKeep DEF OthersMove, Signals, QueueSound
<1>2. HeldSound'
  BY DEF OthersMove, Signals, HeldSound
<1>3. CallbackSound'
  BY DEF OthersMove, Signals, CallbackSound
<1>. QED  BY <1>1, <1>2, <1>3, SignalsKeep DEF OthersMove

LEMMA CallsMove ==
  ASSUME NEW v \in Voices,
         \/ VoiceStart(v) \/ VoiceRelease(v) \/ VoiceStop(v) \/ VoicePause(v)
         \/ VoiceDestroy(v)
  PROVE  AppMoves
<1>. USE DEF AppMoves, Signals, Called, QueuePcs, AppRunsAt, AppEnter
<1>1. CASE VoiceStart(v)
  BY <1>1 DEF VoiceStart
<1>2. CASE VoiceRelease(v)
  BY <1>2 DEF VoiceRelease
<1>3. CASE VoiceStop(v)
  BY <1>3 DEF VoiceStop
<1>4. CASE VoicePause(v)
  BY <1>4 DEF VoicePause
<1>5. CASE VoiceDestroy(v)
  BY <1>5 DEF VoiceDestroy
<1>. QED  BY <1>1, <1>2, <1>3, <1>4, <1>5

LEMMA BodiesMove ==
  ASSUME \/ BufferQueueSsl \/ VoiceUnpauseSet \/ VoiceUnpause \/ VoiceStartOn
         \/ VoiceReleaseSet \/ VoiceReleaseCmd \/ VoiceStopSet \/ VoiceStopCmd
         \/ VoicePauseSet \/ VoicePauseCmd \/ DestroyWaited \/ VoiceStartTest
  PROVE  AppMoves
<1>. USE DEF AppMoves, Signals, Called, QueuePcs, AppRunsAt, AppGoto, AppReturn
<1>1. CASE BufferQueueSsl
  BY <1>1 DEF BufferQueueSsl, QueueSsl
<1>2. CASE VoiceUnpauseSet
  BY <1>2 DEF VoiceUnpauseSet
<1>3. CASE VoiceUnpause
  BY <1>3 DEF VoiceUnpause
<1>4. CASE VoiceStartOn
  BY <1>4 DEF VoiceStartOn
<1>5. CASE VoiceReleaseSet
  BY <1>5 DEF VoiceReleaseSet
<1>6. CASE VoiceReleaseCmd
  BY <1>6 DEF VoiceReleaseCmd
<1>7. CASE VoiceStopSet
  BY <1>7 DEF VoiceStopSet
<1>8. CASE VoiceStopCmd
  BY <1>8 DEF VoiceStopCmd, GoesOff
<1>9. CASE VoicePauseSet
  BY <1>9 DEF VoicePauseSet
<1>10. CASE VoicePauseCmd
  BY <1>10 DEF VoicePauseCmd
<1>11. CASE DestroyWaited
  BY <1>11 DEF DestroyWaited
<1>12. CASE VoiceStartTest
  BY <1>12 DEF VoiceStartTest
<1>. QED  BY <1>1, <1>2, <1>3, <1>4, <1>5, <1>6, <1>7, <1>8, <1>9, <1>10, <1>11, <1>12

\* apu_isr calls apu_dpc for the notifiers it sets, because an idle entry is
\* there for the voice (EntryAvailable).
LEMMA InterruptsMove ==
  ASSUME IInv, Isr \/ Hw
  PROVE  OthersMove
<1>. USE DEF OthersMove, Signals, Called
<1>1. ASSUME NEW i \in HwVoices, IsrIdleVoice(i)
      PROVE  OthersMove
  <2>1. idleFree > 0
    <3>1. trap # NoHw
      BY <1>1, NotNoHw DEF IsrIdleVoice
    <3>. QED  BY <3>1, EntryAvailable DEF IdleEntryAvailable
  <2>2. dpcQueued'
    BY <1>1, <2>1 DEF IsrIdleVoice
  <2>. QED  BY <1>1, <2>2 DEF IsrIdleVoice
<1>2. ASSUME NEW i \in HwVoices, IsrPersistentVoice(i)
      PROVE  OthersMove
  BY <1>2 DEF IsrPersistentVoice
<1>3. CASE IsrNotification
  BY <1>3 DEF IsrNotification
<1>4. ASSUME NEW i \in HwVoices, NEW j \in Sides, HwFinishSsl(i, j)
      PROVE  OthersMove
  BY <1>4 DEF HwFinishSsl
<1>5. ASSUME NEW i \in HwVoices, HwVoiceEnds(i)
      PROVE  OthersMove
  BY <1>5 DEF HwVoiceEnds, GoesOff
<1>6. ASSUME NEW i \in HwVoices, HwIdle(i)
      PROVE  OthersMove
  BY <1>6 DEF HwIdle
<1>. QED  BY <1>1, <1>2, <1>3, <1>4, <1>5, <1>6 DEF Isr, Hw

LEMMA DpcMoves ==
  ASSUME DpcCallbackSsl \/ DpcCallbackReturn \/ DpcScanned \/ DpcPop \/ DpcEnd
  PROVE  OthersMove
<1>. USE DEF OthersMove, Signals, Called, QueuePcs
<1>1. CASE DpcCallbackSsl
  BY <1>1 DEF DpcCallbackSsl, QueueSsl
<1>2. CASE DpcCallbackReturn
  BY <1>2 DEF DpcCallbackReturn
<1>3. CASE DpcScanned
  BY <1>3 DEF DpcScanned
<1>4. CASE DpcPop
  BY <1>4 DEF DpcPop
<1>5. CASE DpcEnd
  BY <1>5 DEF DpcEnd
<1>. QED  BY <1>1, <1>2, <1>3, <1>4, <1>5

-----------------------------------------------------------------------------
(* The steps that change the voices, their slots or the scan.              *)

BuffersKept == QueueSound' /\ HeldSound' /\ CallbackSound' /\ CompletionPending'

\* Nothing is being queued between two calls, and apu_dpc is off.
LEMMA NotInQueue ==
  ASSUME QueueSound, appPc \notin QueuePcs, dpcPc \notin QueuePcs
  PROVE  queueing.voice = NoVoice /\ queueing.buffer = NoBuffer
BY DEF QueueSound

LEMMA VoiceCreateKeeps ==
  ASSUME BuffersInv, NEW v \in Voices, NEW is3d \in BOOLEAN, VoiceCreate(v, is3d)
  PROVE  BuffersKept
<1>. USE DEF BuffersInv, VoiceCreate, AppRunsAt
<1>1. queueing.voice = NoVoice
  BY NotInQueue DEF QueuePcs
<1>2. /\ buffers \in [Voices -> [Sides -> Buffers \cup {NoBuffer}]]
      /\ streaming \in [Voices -> BOOLEAN]
  BY DEF IInv, TypeOK, VoiceTypes
<1>3. \A w \in Voices, j \in Sides : buffers'[w][j] = buffers[w][j]
  BY <1>2 DEF HeldSound
<1>4. QueueSound'
  BY <1>1 DEF QueueSound, QueuePcs
<1>5. HeldSound'
  <2>1. ASSUME NEW w \in Voices, NEW j \in Sides, buffers'[w][j] # NoBuffer
        PROVE  w \in live' /\ streaming'[w]
    BY <2>1, <1>2, <1>3 DEF HeldSound
  <2>2. appPc' = "idle"
    OBVIOUS
  <2>. QED  BY <2>1, <2>2 DEF HeldSound
<1>6. CallbackSound'
  BY DEF CallbackSound, QueuePcs
<1>7. CompletionPending'
  <2>. SUFFICES ASSUME NEW i \in HwVoices, NEW j \in Sides, tracked'[i] # NoVoice,
                       streaming'[tracked'[i]], done'[i][j],
                       buffers'[tracked'[i]][j] # NoBuffer
                PROVE  fev' \/ dpcQueued' \/ <<i, j>> \in scan'
    BY DEF CompletionPending, Completed
  <2>1. tracked'[i] = tracked[i] /\ tracked[i] \in live
    BY DEF IInv, TrackedSound
  <2>2. tracked[i] # v /\ tracked[i] \in Voices
    BY <2>1 DEF IInv, TypeOK, VoiceTypes
  <2>3. streaming[tracked[i]] /\ Completed(tracked[i], i, j)
    BY <2>1, <2>2, <1>2, <1>3 DEF Completed
  <2>. QED  BY <2>1, <2>3 DEF CompletionPending
<1>. QED  BY <1>4, <1>5, <1>6, <1>7 DEF BuffersKept

LEMMA VoiceSetFormatKeeps ==
  ASSUME BuffersInv, NEW v \in Voices, NEW is3d \in BOOLEAN, VoiceSetFormat(v, is3d)
  PROVE  BuffersKept
<1>. USE DEF BuffersInv, VoiceSetFormat, AppRunsAt
<1>1. queueing.voice = NoVoice
  BY NotInQueue DEF QueuePcs
<1>2. QueueSound' /\ CallbackSound'
  BY <1>1 DEF QueueSound, CallbackSound, QueuePcs
<1>3. HeldSound' /\ CompletionPending'
  BY DEF HeldSound, CompletionPending, Completed
<1>. QED  BY <1>2, <1>3 DEF BuffersKept

\* Submit is not called: the application only streams.
LEMMA NoSubmit ==
  ASSUME StaticVoices = {}, NEW v \in Voices, NEW b \in Buffers
  PROVE  ~BufferSubmit(v, b)
BY DEF BufferSubmit

\* The part of Queue that takes a slot: its notifier is clear, and no notifier
\* is set.
LEMMA QueueBeginKeeps ==
  ASSUME BuffersInv, NEW v \in live, NEW b \in Buffers, QueueBegin(v, b),
         UNCHANGED <<dpcQueued, scan>>, queueing.voice = NoVoice
  PROVE  /\ queueing'.voice = v /\ queueing'.buffer = b /\ streaming'[v]
         /\ queueing'.voice # NoVoice
         /\ buffers'[v][queueing'.side] = NoBuffer
         /\ ~done'[index'[v]][queueing'.side]
         /\ \A w \in Voices, j \in Sides :
              buffers'[w][j] # NoBuffer => w \in live' /\ streaming'[w]
         /\ CompletionPending'
<1>. USE DEF BuffersInv
<1>1. /\ buffers \in [Voices -> [Sides -> Buffers \cup {NoBuffer}]]
      /\ streaming \in [Voices -> BOOLEAN] /\ live \subseteq Voices
      /\ done \in [HwVoices -> [Sides -> BOOLEAN]] /\ index[v] \in HwVoices
  BY DEF IInv, TypeOK, VoiceTypes, DeviceTypes, IndexOwnership
<1>2. PICK j \in Sides : /\ FreeSide(v, j)
                         /\ queueing' = [voice |-> v, buffer |-> b, side |-> j]
                         /\ done' = Rearmed(index[v], j)
  BY DEF QueueBegin
<1>3. /\ live' = live /\ index' = index /\ buffers' = buffers /\ tracked' = tracked
      /\ streaming' = [streaming EXCEPT ![v] = TRUE] /\ fev' = fev
  BY DEF QueueBegin
<1>4. queueing'.voice = v /\ queueing'.buffer = b /\ queueing'.side = j
  BY <1>2
<1>5. v \in Voices /\ v # NoVoice
  BY <1>1, VoicesAssumption
<1>6. streaming'[v] /\ buffers'[v][j] = NoBuffer
  BY <1>1, <1>2, <1>3, <1>5 DEF FreeSide
<1>7. ~done'[index'[v]][j]
  BY <1>1, <1>2, <1>3 DEF Rearmed
<1>8. \A w \in Voices : streaming[w] => streaming'[w]
  BY <1>1, <1>3
<1>9. \A i \in HwVoices, k \in Sides : done'[i][k] => done[i][k]
  BY <1>1, <1>2 DEF Rearmed
<1>10. \A w \in Voices, k \in Sides :
         buffers'[w][k] # NoBuffer => w \in live' /\ streaming'[w]
  BY <1>3, <1>8 DEF HeldSound
<1>11. CompletionPending'
  <2>. SUFFICES ASSUME NEW i \in HwVoices, NEW k \in Sides, tracked'[i] # NoVoice,
                       streaming'[tracked'[i]], done'[i][k],
                       buffers'[tracked'[i]][k] # NoBuffer
                PROVE  fev' \/ dpcQueued' \/ <<i, k>> \in scan'
    BY DEF CompletionPending, Completed
  <2>1. tracked[i] \in live /\ tracked[i] \in Voices /\ tracked'[i] = tracked[i]
    BY <1>1, <1>3 DEF IInv, TrackedSound
  <2>2. Completed(tracked[i], i, k)
    BY <2>1, <1>3, <1>9 DEF Completed
  <2>3. streaming[tracked[i]]
    BY <2>1, <2>2 DEF HeldSound, Completed
  <2>. QED  BY <2>1, <2>2, <2>3, <1>3 DEF CompletionPending
<1>. QED  BY <1>4, <1>5, <1>6, <1>7, <1>10, <1>11

LEMMA QueueRejectKeeps ==
  ASSUME BuffersInv, NEW v \in live, QueueReject(v), UNCHANGED <<dpcQueued, scan>>
  PROVE  /\ queueing' = queueing /\ live' = live /\ buffers' = buffers
         /\ index' = index /\ done' = done /\ fev' = fev
         /\ \A w \in Voices : streaming[w] => streaming'[w]
         /\ CompletionPending'
<1>. USE DEF BuffersInv
<1>1. streaming \in [Voices -> BOOLEAN] /\ live \subseteq Voices
  BY DEF IInv, TypeOK, VoiceTypes
<1>2. /\ queueing' = queueing /\ live' = live /\ buffers' = buffers
      /\ index' = index /\ done' = done /\ fev' = fev /\ tracked' = tracked
      /\ streaming' = [streaming EXCEPT ![v] = TRUE]
  BY DEF QueueReject
<1>3. \A w \in Voices : streaming[w] => streaming'[w]
  BY <1>1, <1>2
<1>4. CompletionPending'
  <2>. SUFFICES ASSUME NEW i \in HwVoices, NEW k \in Sides, tracked'[i] # NoVoice,
                       streaming'[tracked'[i]], done'[i][k],
                       buffers'[tracked'[i]][k] # NoBuffer
                PROVE  fev' \/ dpcQueued' \/ <<i, k>> \in scan'
    BY DEF CompletionPending, Completed
  <2>1. tracked[i] \in live /\ tracked[i] \in Voices /\ tracked'[i] = tracked[i]
    BY <1>1, <1>2 DEF IInv, TrackedSound
  <2>2. Completed(tracked[i], i, k)
    BY <2>1, <1>2 DEF Completed
  <2>3. streaming[tracked[i]]
    BY <2>1, <2>2 DEF HeldSound, Completed
  <2>. QED  BY <2>1, <2>2, <2>3, <1>2 DEF CompletionPending
<1>. QED  BY <1>2, <1>3, <1>4

\* nxAudioBufferQueue by the application.
LEMMA BufferQueueKeeps ==
  ASSUME BuffersInv, NEW v \in Voices, NEW b \in Buffers, BufferQueue(v, b)
  PROVE  BuffersKept
<1>. USE DEF BuffersInv
<1>1. /\ appPc = "idle" /\ dpcPc = "off" /\ dpcPc' = "off" /\ v \in live
      /\ UNCHANGED <<dpcQueued, scan>>
  BY DEF BufferQueue, AppRunsAt
<1>2. queueing.voice = NoVoice /\ queueing.buffer = NoBuffer
  BY <1>1, NotInQueue DEF QueuePcs
<1>3. CallbackSound'
  BY <1>1 DEF CallbackSound, QueuePcs
<1>4. CASE QueueBegin(v, b) /\ appPc' = "queue_ssl"
  <2>1. live' = live
    BY <1>4 DEF QueueBegin
  <2>2. QueueSound' /\ HeldSound' /\ CompletionPending'
    BY <1>1, <1>2, <1>4, <2>1, QueueBeginKeeps DEF QueueSound, HeldSound, QueuePcs
  <2>. QED  BY <2>2, <1>3 DEF BuffersKept
<1>5. CASE QueueReject(v) /\ appPc' = appPc
  <2>1. QueueSound' /\ HeldSound' /\ CompletionPending'
    BY <1>1, <1>2, <1>5, QueueRejectKeeps DEF QueueSound, HeldSound, QueuePcs
  <2>. QED  BY <2>1, <1>3 DEF BuffersKept
<1>. QED  BY <1>4, <1>5 DEF BufferQueue, AppGoto

\* nxAudioBufferQueue by a callback.
LEMMA DpcCallbackQueueKeeps ==
  ASSUME BuffersInv, NEW b \in Buffers, DpcCallbackQueue(b)
  PROVE  BuffersKept
<1>. USE DEF BuffersInv
<1>1. /\ dpcPc = "callback" /\ appPc' = appPc /\ appVoice' = appVoice
      /\ dpcVoice' = dpcVoice /\ UNCHANGED <<dpcQueued, scan>>
  BY DEF DpcCallbackQueue
<1>2. /\ dpcVoice \in live /\ streaming[dpcVoice]
      /\ appPc \in FreePcs => dpcVoice # appVoice
  BY <1>1 DEF CallbackSound
<1>3. appPc \notin QueuePcs
  BY <1>1 DEF IInv, LevelsSound, RaisedPcs, QueuePcs
<1>4. queueing.voice = NoVoice /\ queueing.buffer = NoBuffer
  BY <1>1, <1>3, NotInQueue DEF QueuePcs
<1>5. CASE QueueBegin(dpcVoice, b) /\ dpcPc' = "queue_ssl"
  <2>1. live' = live /\ buffers' = buffers
    BY <1>5 DEF QueueBegin
  <2>2. QueueSound' /\ CompletionPending'
    BY <1>1, <1>2, <1>4, <1>5, <2>1, QueueBeginKeeps DEF QueueSound, QueuePcs
  <2>3. HeldSound'
    BY <1>1, <1>2, <1>4, <1>5, <2>1, QueueBeginKeeps DEF HeldSound
  <2>4. CallbackSound'
    BY <1>1, <1>2, <1>4, <1>5, <2>1, QueueBeginKeeps DEF CallbackSound
  <2>. QED  BY <2>2, <2>3, <2>4 DEF BuffersKept
<1>6. CASE QueueReject(dpcVoice) /\ dpcPc' = dpcPc
  <2>1. QueueSound' /\ HeldSound' /\ CompletionPending'
    BY <1>1, <1>2, <1>3, <1>4, <1>6, QueueRejectKeeps DEF QueueSound, HeldSound, QueuePcs
  <2>2. streaming'[dpcVoice] /\ live' = live /\ queueing' = queueing
    BY <1>1, <1>2, <1>6, QueueRejectKeeps DEF IInv, TypeOK, VoiceTypes
  <2>3. CallbackSound'
    BY <1>1, <1>2, <1>6, <2>2 DEF CallbackSound, QueuePcs
  <2>. QED  BY <2>1, <2>3 DEF BuffersKept
<1>. QED  BY <1>5, <1>6 DEF DpcCallbackQueue

\* The types the steps below rely on.
LEMMA BufferTypes ==
  ASSUME IInv
  PROVE  /\ buffers \in [Voices -> [Sides -> Buffers \cup {NoBuffer}]]
         /\ streaming \in [Voices -> BOOLEAN] /\ live \subseteq Voices
         /\ done \in [HwVoices -> [Sides -> BOOLEAN]]
         /\ tracked \in [HwVoices -> Voices \cup {NoVoice}]
         /\ \A i \in HwVoices : tracked[i] # NoVoice =>
              tracked[i] \in live /\ tracked[i] \in Voices /\ index[tracked[i]] = i
BY DEF IInv, TypeOK, VoiceTypes, DriverTypes, DeviceTypes, TrackedSound

\* The buffer is recorded in its slot after the VP may have played it: FEV or
\* the DPC behind its completion is still to come.
LEMMA QueueSlotKeeps ==
  ASSUME BuffersInv, QueueSlot, UNCHANGED <<dpcQueued, scan, appVoice>>,
         queueing.voice # NoVoice,
         appPc' \in FreePcs => appPc' = appPc /\ appVoice # queueing.voice
  PROVE  queueing'.voice = NoVoice /\ queueing'.buffer = NoBuffer
         /\ HeldSound' /\ CompletionPending'
<1>. USE DEF BuffersInv
<1>. DEFINE v == queueing.voice
            s == queueing.side
<1>1. /\ live' = live /\ index' = index /\ streaming' = streaming /\ tracked' = tracked
      /\ done' = done /\ fev' = fev /\ queueing' = NotQueueing
      /\ buffers' = [buffers EXCEPT ![v][s] = queueing.buffer]
  BY DEF QueueSlot
<1>2. queueing'.voice = NoVoice /\ queueing'.buffer = NoBuffer
  BY <1>1 DEF NotQueueing
<1>3. v \in live /\ v \in Voices /\ streaming[v] /\ (done[index[v]][s] => Called)
  BY BufferTypes DEF QueueSound
<1>4. s \in Sides
  BY DEF IInv, TypeOK, ThreadTypes
<1>. HIDE DEF v, s
<1>5. \A w \in Voices, l \in Sides :
        buffers'[w][l] = IF w = v /\ l = s THEN queueing.buffer ELSE buffers[w][l]
  BY <1>1, <1>3, <1>4, BufferTypes
<1>6. HeldSound'
  <2>1. \A w \in Voices, l \in Sides :
          buffers'[w][l] # NoBuffer => w \in live' /\ streaming'[w]
    BY <1>1, <1>3, <1>5 DEF HeldSound
  <2>2. ASSUME appPc' \in FreePcs
        PROVE  appPc' = appPc /\ \A l \in Sides : buffers'[appVoice][l] = buffers[appVoice][l]
    <3>1. appPc' = appPc /\ appVoice # v
      BY <2>2 DEF v
    <3>2. appVoice \in Voices
      BY <2>2, <3>1, BufferTypes DEF IInv, CallSound, FreePcs
    <3>. QED  BY <1>5, <3>1, <3>2
  <2>3. appVoice' = appVoice
    OBVIOUS
  <2>. QED  BY <2>1, <2>2, <2>3 DEF HeldSound, FreePcs, Sides
<1>7. CompletionPending'
  <2>. SUFFICES ASSUME NEW k \in HwVoices, NEW l \in Sides, tracked'[k] # NoVoice,
                       streaming'[tracked'[k]], done'[k][l],
                       buffers'[tracked'[k]][l] # NoBuffer
                PROVE  fev' \/ dpcQueued' \/ <<k, l>> \in scan'
    BY DEF CompletionPending, Completed
  <2>1. tracked[k] \in Voices /\ index[tracked[k]] = k /\ tracked'[k] = tracked[k]
    BY <1>1, BufferTypes
  <2>2. CASE tracked[k] = v /\ l = s
    BY <1>1, <1>3, <2>1, <2>2 DEF Called
  <2>3. CASE ~(tracked[k] = v /\ l = s)
    <3>1. Completed(tracked[k], k, l)
      BY <1>1, <1>5, <2>1, <2>3 DEF Completed
    <3>. QED  BY <1>1, <2>1, <3>1 DEF CompletionPending
  <2>. QED  BY <2>2, <2>3
<1>. QED  BY <1>2, <1>6, <1>7

LEMMA BufferQueueSlotKeeps ==
  ASSUME BuffersInv, BufferQueueSlot
  PROVE  BuffersKept
<1>. USE DEF BuffersInv
<1>1. /\ appPc = "queue_slot" /\ appPc' = "idle" /\ dpcPc = "off" /\ dpcPc' = "off"
      /\ QueueSlot /\ UNCHANGED <<dpcQueued, scan, appVoice>>
  BY DEF BufferQueueSlot, AppRunsAt, AppGoto
<1>2. queueing.voice # NoVoice
  BY <1>1 DEF QueueSound, QueuePcs
<1>3. queueing'.voice = NoVoice /\ queueing'.buffer = NoBuffer
      /\ HeldSound' /\ CompletionPending'
  BY <1>1, <1>2, QueueSlotKeeps DEF FreePcs
<1>4. QueueSound' /\ CallbackSound'
  BY <1>1, <1>3 DEF QueueSound, CallbackSound, QueuePcs
<1>. QED  BY <1>3, <1>4 DEF BuffersKept

LEMMA DpcCallbackSlotKeeps ==
  ASSUME BuffersInv, DpcCallbackSlot
  PROVE  BuffersKept
<1>. USE DEF BuffersInv
<1>1. /\ dpcPc = "queue_slot" /\ dpcPc' = "callback" /\ appPc' = appPc
      /\ dpcVoice' = dpcVoice /\ QueueSlot /\ UNCHANGED <<dpcQueued, scan, appVoice>>
  BY DEF DpcCallbackSlot
<1>2. /\ queueing.voice # NoVoice /\ queueing.voice = dpcVoice /\ dpcVoice \in live
      /\ streaming[dpcVoice] /\ (appPc \in FreePcs => dpcVoice # appVoice)
  BY <1>1 DEF QueueSound, CallbackSound, QueuePcs
<1>3. appPc \notin QueuePcs
  BY <1>1 DEF IInv, LevelsSound, RaisedPcs, QueuePcs
<1>4. /\ live' = live /\ streaming' = streaming /\ queueing' = NotQueueing
      /\ buffers' = [buffers EXCEPT ![dpcVoice][queueing.side] = queueing.buffer]
  BY <1>1, <1>2 DEF QueueSlot
<1>5. queueing'.voice = NoVoice /\ queueing'.buffer = NoBuffer
      /\ HeldSound' /\ CompletionPending'
  BY <1>1, <1>2, QueueSlotKeeps
<1>6. QueueSound'
  BY <1>1, <1>3, <1>5 DEF QueueSound, QueuePcs
<1>7. CallbackSound'
  BY <1>1, <1>2, <1>4 DEF CallbackSound, QueuePcs
<1>. QED  BY <1>5, <1>6, <1>7 DEF BuffersKept

\* A voice starts with both notifiers clear.
LEMMA VoiceStartTrackKeeps ==
  ASSUME BuffersInv, VoiceStartTrack
  PROVE  BuffersKept
<1>. USE DEF BuffersInv
<1>1. /\ appPc = "start" /\ appPc' = "start_on" /\ dpcPc = "off" /\ dpcPc' = "off"
      /\ UNCHANGED <<live, index, streaming, buffers, queueing, scan, fev, dpcQueued>>
      /\ tracked' = [tracked EXCEPT ![index[appVoice]] = appVoice]
      /\ done' = [done EXCEPT ![index[appVoice]] = [j \in Sides |-> FALSE]]
  BY DEF VoiceStartTrack, AppRunsAt, AppGoto
<1>2. queueing.voice = NoVoice
  BY <1>1, NotInQueue DEF QueuePcs
<1>3. QueueSound' /\ HeldSound' /\ CallbackSound'
  BY <1>1, <1>2 DEF QueueSound, HeldSound, CallbackSound, QueuePcs
<1>4. CompletionPending'
  <2>. SUFFICES ASSUME NEW k \in HwVoices, NEW l \in Sides, tracked'[k] # NoVoice,
                       streaming'[tracked'[k]], done'[k][l],
                       buffers'[tracked'[k]][l] # NoBuffer
                PROVE  fev' \/ dpcQueued' \/ <<k, l>> \in scan'
    BY DEF CompletionPending, Completed
  <2>1. k # index[appVoice]
    BY <1>1, BufferTypes
  <2>2. tracked'[k] = tracked[k] /\ done'[k] = done[k]
    BY <1>1, <2>1, BufferTypes
  <2>. QED  BY <1>1, <2>2 DEF CompletionPending, Completed
<1>. QED  BY <1>3, <1>4 DEF BuffersKept

LEMMA DestroySlotKeeps ==
  ASSUME BuffersInv, NEW j \in Sides, DestroySlot(j)
  PROVE  BuffersKept
<1>. USE DEF BuffersInv
<1>1. /\ appPc = (IF j = 0 THEN "slot0" ELSE "slot1") /\ dpcPc = "off" /\ dpcPc' = "off"
      /\ appPc' = (IF j = 0 THEN "slot1" ELSE "free") /\ appVoice' = appVoice
      /\ UNCHANGED <<live, index, streaming, tracked, queueing, scan, fev, dpcQueued, done>>
      /\ buffers' = [buffers EXCEPT ![appVoice][j] = NoBuffer]
  BY DEF DestroySlot, AppRunsAt, AppGoto
<1>2. queueing.voice = NoVoice
  BY <1>1, NotInQueue DEF QueuePcs
<1>3. QueueSound' /\ CallbackSound'
  BY <1>1, <1>2 DEF QueueSound, CallbackSound, QueuePcs
<1>4. appVoice \in Voices
  BY <1>1, BufferTypes DEF IInv, CallSound
<1>5. \A w \in Voices, l \in Sides :
        buffers'[w][l] = IF w = appVoice /\ l = j THEN NoBuffer ELSE buffers[w][l]
  BY <1>1, <1>4, BufferTypes
<1>6. HeldSound'
  <2>1. \A w \in Voices, l \in Sides :
          buffers'[w][l] # NoBuffer => w \in live' /\ streaming'[w]
    BY <1>1, <1>5 DEF HeldSound
  <2>2. buffers'[appVoice][j] = NoBuffer
    BY <1>4, <1>5
  <2>3. j = 1 => buffers'[appVoice][0] = NoBuffer
    BY <1>1, <1>4, <1>5 DEF HeldSound, Sides
  <2>. QED  BY <1>1, <2>1, <2>2, <2>3 DEF HeldSound, Sides
<1>7. CompletionPending'
  <2>. SUFFICES ASSUME NEW k \in HwVoices, NEW l \in Sides, tracked'[k] # NoVoice,
                       streaming'[tracked'[k]], done'[k][l],
                       buffers'[tracked'[k]][l] # NoBuffer
                PROVE  fev' \/ dpcQueued' \/ <<k, l>> \in scan'
    BY DEF CompletionPending, Completed
  <2>1. Completed(tracked[k], k, l) /\ tracked'[k] = tracked[k]
    BY <1>1, <1>5, BufferTypes DEF Completed
  <2>. QED  BY <1>1, <2>1 DEF CompletionPending
<1>. QED  BY <1>3, <1>6, <1>7 DEF BuffersKept

LEMMA DestroyFreeKeeps ==
  ASSUME BuffersInv, DestroyFree
  PROVE  BuffersKept
<1>. USE DEF BuffersInv
<1>1. /\ appPc = "free" /\ appPc' = "idle" /\ dpcPc = "off" /\ dpcPc' = "off"
      /\ UNCHANGED <<index, streaming, tracked, queueing, scan, fev, dpcQueued,
                     done, buffers>>
      /\ live' = live \ {appVoice}
  BY DEF DestroyFree, AppRunsAt
<1>2. queueing.voice = NoVoice
  BY <1>1, NotInQueue DEF QueuePcs
<1>3. QueueSound' /\ CallbackSound'
  BY <1>1, <1>2 DEF QueueSound, CallbackSound, QueuePcs
<1>4. \A l \in Sides : buffers[appVoice][l] = NoBuffer
  BY <1>1 DEF HeldSound, Sides
<1>5. HeldSound' /\ CompletionPending'
  BY <1>1, <1>4 DEF HeldSound, CompletionPending, Completed
<1>. QED  BY <1>3, <1>5 DEF BuffersKept

\* The scan begins with every notifier of every taken voice.
LEMMA DpcStartKeeps ==
  ASSUME BuffersInv, DpcStart
  PROVE  BuffersKept
<1>. USE DEF BuffersInv
<1>1. /\ appPc \in PassivePcs /\ dpcPc = "off" /\ dpcPc' = "scan"
      /\ UNCHANGED <<live, index, streaming, tracked, queueing, fev, done, buffers,
                     appPc, appVoice>>
      /\ scan' = (HwVoices \ free) \X Sides
  BY DEF DpcStart
<1>2. appPc \notin QueuePcs /\ queueing.voice = NoVoice
  BY <1>1, NotInQueue DEF QueuePcs, PassivePcs
<1>3. QueueSound' /\ HeldSound' /\ CallbackSound'
  BY <1>1, <1>2 DEF QueueSound, HeldSound, CallbackSound, QueuePcs
<1>4. CompletionPending'
  <2>. SUFFICES ASSUME NEW k \in HwVoices, NEW l \in Sides, tracked'[k] # NoVoice,
                       streaming'[tracked'[k]], done'[k][l],
                       buffers'[tracked'[k]][l] # NoBuffer
                PROVE  fev' \/ dpcQueued' \/ <<k, l>> \in scan'
    BY DEF CompletionPending, Completed
  <2>1. tracked[k] \in live /\ index[tracked[k]] = k
    BY <1>1, BufferTypes
  <2>2. k \notin free
    BY <2>1 DEF IInv, IndexOwnership
  <2>. QED  BY <1>1, <2>2
<1>. QED  BY <1>3, <1>4 DEF BuffersKept

\* A buffer the scan takes away has been given back, or was not completed.
LEMMA DpcReleaseKeeps ==
  ASSUME BuffersInv, NEW i \in HwVoices, NEW j \in Sides, DpcRelease(i, j)
  PROVE  BuffersKept
<1>. USE DEF BuffersInv
<1>. DEFINE v == tracked[i]
<1>1. /\ dpcPc = "scan" /\ v # NoVoice /\ Completed(v, i, j)
      /\ UNCHANGED <<live, index, streaming, tracked, queueing, fev, dpcQueued, done,
                     appPc, appVoice>>
      /\ scan' = scan \ {<<i, j>>}
  BY DEF DpcRelease, ScanAt
<1>2. v \in Voices /\ v \in live /\ index[v] = i
  BY <1>1, BufferTypes
<1>3. streaming[v]
  BY <1>1, <1>2 DEF HeldSound, Completed
<1>4. /\ buffers' = [buffers EXCEPT ![v][j] = NoBuffer]
      /\ dpcPc' = "callback" /\ dpcVoice' = v
  BY <1>3 DEF DpcRelease
<1>. HIDE DEF v
<1>5. \A w \in Voices, l \in Sides :
        buffers'[w][l] = IF w = v /\ l = j THEN NoBuffer ELSE buffers[w][l]
  BY <1>2, <1>4, BufferTypes
<1>6. appPc \notin QueuePcs /\ queueing.voice = NoVoice
  <2>1. appPc \notin QueuePcs
    BY <1>1 DEF IInv, LevelsSound, RaisedPcs, QueuePcs
  <2>. QED  BY <1>1, <2>1, NotInQueue DEF QueuePcs
<1>7. QueueSound'
  BY <1>1, <1>4, <1>6 DEF QueueSound, QueuePcs
<1>8. appPc \in FreePcs => v # appVoice /\ appVoice \in Voices
  <2>1. appPc \in FreePcs => \A n \in HwVoices : tracked[n] # appVoice
    BY DEF IInv, CallSound, FreePcs
  <2>2. appPc \in FreePcs => appVoice \in Voices
    BY BufferTypes DEF IInv, CallSound, FreePcs
  <2>. QED  BY <2>1, <2>2 DEF v
<1>9. HeldSound'
  <2>1. \A w \in Voices, l \in Sides :
          buffers'[w][l] # NoBuffer => w \in live' /\ streaming'[w]
    BY <1>1, <1>5 DEF HeldSound
  <2>2. appPc \in FreePcs => \A l \in Sides : buffers'[appVoice][l] = buffers[appVoice][l]
    BY <1>5, <1>8
  <2>. QED  BY <1>1, <2>1, <2>2 DEF HeldSound, FreePcs, Sides
<1>10. CallbackSound'
  BY <1>1, <1>2, <1>3, <1>4, <1>8 DEF CallbackSound, QueuePcs
<1>11. CompletionPending'
  <2>. SUFFICES ASSUME NEW k \in HwVoices, NEW l \in Sides, tracked'[k] # NoVoice,
                       streaming'[tracked'[k]], done'[k][l],
                       buffers'[tracked'[k]][l] # NoBuffer
                PROVE  fev' \/ dpcQueued' \/ <<k, l>> \in scan'
    BY DEF CompletionPending, Completed
  <2>1. tracked'[k] = tracked[k] /\ tracked[k] \in Voices /\ index[tracked[k]] = k
    BY <1>1, BufferTypes
  <2>2. ~(tracked[k] = v /\ l = j)
    BY <1>5, <2>1
  <2>3. <<k, l>> # <<i, j>>
    BY <2>2 DEF v
  <2>4. Completed(tracked[k], k, l)
    BY <1>1, <1>5, <2>1, <2>2 DEF Completed
  <2>. QED  BY <1>1, <2>1, <2>3, <2>4 DEF CompletionPending
<1>. QED  BY <1>7, <1>9, <1>10, <1>11 DEF BuffersKept

LEMMA DpcSkipKeeps ==
  ASSUME BuffersInv, NEW i \in HwVoices, NEW j \in Sides, DpcSkip(i, j)
  PROVE  BuffersKept
<1>. USE DEF BuffersInv
<1>1. /\ dpcPc = "scan" /\ dpcPc' = "scan"
      /\ tracked[i] # NoVoice => ~Completed(tracked[i], i, j)
      /\ UNCHANGED <<live, index, streaming, tracked, queueing, fev, dpcQueued, done,
                     buffers, appPc, appVoice>>
      /\ scan' = scan \ {<<i, j>>}
  BY DEF DpcSkip, ScanAt
<1>2. QueueSound' /\ HeldSound' /\ CallbackSound'
  BY <1>1 DEF QueueSound, HeldSound, CallbackSound, QueuePcs, Called
<1>3. CompletionPending'
  <2>. SUFFICES ASSUME NEW k \in HwVoices, NEW l \in Sides, tracked'[k] # NoVoice,
                       streaming'[tracked'[k]], done'[k][l],
                       buffers'[tracked'[k]][l] # NoBuffer
                PROVE  fev' \/ dpcQueued' \/ <<k, l>> \in scan'
    BY DEF CompletionPending, Completed
  <2>1. Completed(tracked[k], k, l) /\ <<k, l>> # <<i, j>>
    BY <1>1 DEF Completed
  <2>. QED  BY <1>1, <2>1 DEF CompletionPending
<1>. QED  BY <1>2, <1>3 DEF BuffersKept

LEMMA DpcRetireKeeps ==
  ASSUME BuffersInv, DpcRetire
  PROVE  BuffersKept
<1>. USE DEF BuffersInv
<1>1. /\ dpcPc = "retire" /\ dpcPc' = "drain"
      /\ UNCHANGED <<live, index, streaming, queueing, fev, dpcQueued, done,
                     buffers, appPc, appVoice, scan>>
      /\ tracked' = [tracked EXCEPT ![inHand] = NoVoice]
  BY DEF DpcRetire
<1>2. QueueSound' /\ HeldSound' /\ CallbackSound'
  BY <1>1 DEF QueueSound, HeldSound, CallbackSound, QueuePcs, Called
<1>3. CompletionPending'
  <2>. SUFFICES ASSUME NEW k \in HwVoices, NEW l \in Sides, tracked'[k] # NoVoice,
                       streaming'[tracked'[k]], done'[k][l],
                       buffers'[tracked'[k]][l] # NoBuffer
                PROVE  fev' \/ dpcQueued' \/ <<k, l>> \in scan'
    BY DEF CompletionPending, Completed
  <2>1. tracked'[k] = tracked[k]
    BY <1>1, BufferTypes
  <2>. QED  BY <1>1, <2>1 DEF CompletionPending, Completed
<1>. QED  BY <1>2, <1>3 DEF BuffersKept

-----------------------------------------------------------------------------
(* Completions *)

LEMMA BuffersInit == Init => BuffersInv
<1>. SUFFICES ASSUME Init PROVE BuffersInv
  OBVIOUS
<1>1. IInv
  BY InitIInv
<1>2. QueueSound
  BY DEF Init, QueueSound, QueuePcs, NotQueueing
<1>3. HeldSound /\ CallbackSound
  BY DEF Init, HeldSound, CallbackSound, QueuePcs
<1>4. CompletionPending
  BY DEF Init, CompletionPending
<1>. QED  BY <1>1, <1>2, <1>3, <1>4 DEF BuffersInv

LEMMA BuffersStep ==
  ASSUME SlowHardware = FALSE, StaticVoices = {}, BuffersInv, [Next]_vars
  PROVE  BuffersInv'
<1>1. IInv'
  BY NextStep DEF BuffersInv
<1>2. QueueSound /\ HeldSound /\ CallbackSound /\ CompletionPending
  BY DEF BuffersInv
<1>3. ASSUME AppCall PROVE BuffersKept
  BY <1>2, <1>3, CallsMove, AppMovesStep, VoiceCreateKeeps, VoiceSetFormatKeeps,
     BufferQueueKeeps, NoSubmit DEF AppCall, BuffersKept
<1>4. ASSUME AppBody PROVE BuffersKept
  BY <1>2, <1>4, BodiesMove, AppMovesStep, BufferQueueSlotKeeps, VoiceStartTrackKeeps,
     DestroySlotKeeps, DestroyFreeKeeps DEF AppBody, BuffersKept
<1>5. ASSUME Isr \/ Hw PROVE BuffersKept
  BY <1>2, <1>5, InterruptsMove, OthersMoveStep DEF BuffersInv, BuffersKept
<1>6. ASSUME Dpc PROVE BuffersKept
  BY <1>2, <1>6, DpcMoves, OthersMoveStep, DpcStartKeeps, DpcReleaseKeeps, DpcSkipKeeps,
     DpcRetireKeeps, DpcCallbackQueueKeeps, DpcCallbackSlotKeeps DEF Dpc, BuffersKept
<1>7. ASSUME UNCHANGED vars PROVE BuffersKept
  BY <1>2, <1>7 DEF vars, QueueSound, HeldSound, CallbackSound, CompletionPending,
     Completed, Called, BuffersKept
<1>8. BuffersKept
  BY <1>3, <1>4, <1>5, <1>6, <1>7 DEF Next
<1>. QED  BY <1>1, <1>8 DEF BuffersInv, BuffersKept

THEOREM BuffersInvariance ==
  ASSUME SlowHardware = FALSE, StaticVoices = {}
  PROVE  Spec => []BuffersInv
<1>1. BuffersInv /\ [Next]_vars => BuffersInv'
  BY BuffersStep
<1>. QED  BY BuffersInit, <1>1, PTL DEF Spec

\* A completed buffer of a voice that apu_dpc can reach is never forgotten,
\* whatever the callback queues while the scan runs and wherever apu_isr and
\* the VP set a notifier: a scan that has not passed it is under way or due.
THEOREM CompletionsSeen ==
  ASSUME SlowHardware = FALSE, StaticVoices = {}
  PROVE  Spec => []CompletionPending
<1>1. BuffersInv => CompletionPending
  BY DEF BuffersInv
<1>. QED  BY <1>1, BuffersInvariance, PTL

-----------------------------------------------------------------------------
(* Page locks *)

Held(b) == {s \in Voices \X Sides : buffers[s[1]][s[2]] = b}
LocksInv ==
  \A b \in Buffers :
    /\ IsFiniteSet(Held(b))
    /\ locks[b] = Cardinality(Held(b)) + (IF queueing.buffer = b THEN 1 ELSE 0)

\* A slot that held a buffer holds none, and the buffer is unlocked once.
LEMMA SlotEmptied ==
  ASSUME BuffersInv, LocksInv, NEW v \in Voices, NEW j \in Sides,
         buffers[v][j] # NoBuffer,
         buffers' = [buffers EXCEPT ![v][j] = NoBuffer],
         locks' = Unlock(locks, buffers[v][j]), queueing' = queueing
  PROVE  LocksInv'
<1>. USE DEF BuffersInv
<1>. DEFINE c == buffers[v][j]
            s == <<v, j>>
<1>1. c \in Buffers /\ s \in Voices \X Sides
  BY BufferTypes
<1>2. \A w \in Voices, l \in Sides :
        buffers'[w][l] = IF w = v /\ l = j THEN NoBuffer ELSE buffers[w][l]
  BY BufferTypes
<1>3. locks \in [Buffers -> Nat]
  BY DEF IInv, TypeOK, DriverTypes
<1>. SUFFICES ASSUME NEW b \in Buffers
              PROVE  /\ IsFiniteSet(Held(b)')
                     /\ locks'[b] = Cardinality(Held(b)')
                                    + (IF queueing'.buffer = b THEN 1 ELSE 0)
  BY DEF LocksInv
<1>4. /\ IsFiniteSet(Held(b))
      /\ locks[b] = Cardinality(Held(b)) + (IF queueing.buffer = b THEN 1 ELSE 0)
  BY DEF LocksInv
<1>5. Cardinality(Held(b)) \in Nat
  BY <1>4, FS_CardinalityType
<1>6. CASE b = c
  <2>1. Held(b)' = Held(b) \ {s}
    BY <1>1, <1>2, <1>6, VoicesAssumption DEF Held
  <2>2. s \in Held(b)
    BY <1>1, <1>6 DEF Held
  <2>3. IsFiniteSet(Held(b)') /\ Cardinality(Held(b)') = Cardinality(Held(b)) - 1
    BY <1>4, <2>1, <2>2, FS_RemoveElement
  <2>4. Cardinality(Held(b)) > 0
    BY <1>4, <1>5, <2>2, FS_EmptySet
  <2>5. locks'[b] = locks[b] - 1
    BY <1>3, <1>4, <1>5, <1>6, <2>4 DEF Unlock
  <2>. QED  BY <1>4, <1>5, <2>3, <2>5
<1>7. CASE b # c
  <2>1. Held(b)' = Held(b)
    BY <1>1, <1>2, <1>7, VoicesAssumption DEF Held
  <2>2. locks'[b] = locks[b]
    BY <1>3, <1>7 DEF Unlock
  <2>. QED  BY <1>4, <2>1, <2>2
<1>. QED  BY <1>6, <1>7

\* The lock that Queue takes for the buffer in progress becomes its slot's.
LEMMA LockTaken ==
  ASSUME BuffersInv, LocksInv, NEW v \in live, NEW b \in Buffers, QueueBegin(v, b),
         queueing.buffer = NoBuffer
  PROVE  LocksInv'
<1>. USE DEF BuffersInv
<1>1. /\ buffers' = buffers /\ queueing'.buffer = b /\ locks' = Lock(locks, b)
  BY DEF QueueBegin
<1>2. locks \in [Buffers -> Nat]
  BY DEF IInv, TypeOK, DriverTypes
<1>3. ASSUME NEW c \in Buffers
      PROVE  /\ Held(c)' = Held(c) /\ c # NoBuffer
             /\ locks'[c] = IF c = b THEN locks[c] + 1 ELSE locks[c]
             /\ Cardinality(Held(c)) \in Nat
  BY <1>1, <1>2, VoicesAssumption, FS_CardinalityType DEF Held, Lock, LocksInv
<1>. QED  BY <1>1, <1>3 DEF LocksInv

LEMMA LockHandedOver ==
  ASSUME BuffersInv, LocksInv, QueueSlot, queueing.voice # NoVoice
  PROVE  LocksInv'
<1>. USE DEF BuffersInv
<1>. DEFINE s == <<queueing.voice, queueing.side>>
            c == queueing.buffer
<1>1. /\ queueing.voice \in Voices /\ queueing.side \in Sides /\ c \in Buffers
      /\ buffers[queueing.voice][queueing.side] = NoBuffer
  BY BufferTypes DEF QueueSound, IInv, TypeOK, ThreadTypes
<1>2. /\ queueing' = NotQueueing /\ locks' = locks
      /\ buffers' = [buffers EXCEPT ![queueing.voice][queueing.side] = c]
  BY DEF QueueSlot
<1>3. \A w \in Voices, l \in Sides :
        buffers'[w][l] = IF <<w, l>> = s THEN c ELSE buffers[w][l]
  BY <1>1, <1>2, BufferTypes
<1>4. queueing'.buffer = NoBuffer
  BY <1>2 DEF NotQueueing
<1>5. s \in Voices \X Sides /\ buffers[s[1]][s[2]] = NoBuffer
  BY <1>1
<1>6. \A t \in Voices \X Sides : buffers'[t[1]][t[2]] = IF t = s THEN c ELSE buffers[t[1]][t[2]]
  BY <1>3
<1>. HIDE DEF s, c
<1>. SUFFICES ASSUME NEW b \in Buffers
              PROVE  /\ IsFiniteSet(Held(b)')
                     /\ locks'[b] = Cardinality(Held(b)')
                                    + (IF queueing'.buffer = b THEN 1 ELSE 0)
  BY DEF LocksInv
<1>7. /\ IsFiniteSet(Held(b)) /\ Cardinality(Held(b)) \in Nat
      /\ locks[b] = Cardinality(Held(b)) + (IF c = b THEN 1 ELSE 0)
  BY FS_CardinalityType DEF LocksInv, c
<1>8. b # NoBuffer
  BY VoicesAssumption
<1>9. CASE b = c
  <2>1. Held(b)' = Held(b) \cup {s}
    BY <1>5, <1>6, <1>9 DEF Held
  <2>2. s \notin Held(b)
    BY <1>5, <1>8 DEF Held
  <2>3. IsFiniteSet(Held(b)') /\ Cardinality(Held(b)') = Cardinality(Held(b)) + 1
    BY <1>7, <2>1, <2>2, FS_AddElement
  <2>. QED  BY <1>2, <1>4, <1>7, <1>8, <1>9, <2>3
<1>10. CASE b # c
  <2>1. Held(b)' = Held(b)
    BY <1>5, <1>6, <1>8, <1>10 DEF Held
  <2>. QED  BY <1>2, <1>4, <1>7, <1>8, <1>10, <2>1
<1>. QED  BY <1>9, <1>10

LEMMA LocksFrame ==
  ASSUME LocksInv, UNCHANGED <<locks, buffers, queueing>>
  PROVE  LocksInv'
BY DEF LocksInv, Held

LEMMA OtherCallsLocks ==
  ASSUME NEW v \in Voices, NEW is3d \in BOOLEAN,
         \/ VoiceSetFormat(v, is3d) \/ VoiceStart(v) \/ VoiceRelease(v)
         \/ VoiceStop(v) \/ VoicePause(v) \/ VoiceDestroy(v)
  PROVE  UNCHANGED <<locks, buffers, queueing>>
BY DEF VoiceSetFormat, VoiceStart, VoiceRelease, VoiceStop, VoicePause, VoiceDestroy

LEMMA OtherBodiesLocks ==
  ASSUME \/ BufferQueueSsl \/ VoiceUnpauseSet \/ VoiceUnpause \/ VoiceStartOn
         \/ VoiceReleaseSet \/ VoiceReleaseCmd \/ VoiceStopSet \/ VoiceStopCmd
         \/ VoicePauseSet \/ VoicePauseCmd \/ DestroyWaited \/ VoiceStartTrack
         \/ DestroyFree \/ VoiceStartTest
  PROVE  UNCHANGED <<locks, buffers, queueing>>
BY DEF BufferQueueSsl, QueueSsl, VoiceStartTest, VoiceUnpauseSet, VoiceUnpause, VoiceStartOn,
   VoiceReleaseSet, VoiceReleaseCmd, VoiceStopSet, VoiceStopCmd, VoicePauseSet,
   VoicePauseCmd, DestroyWaited, VoiceStartTrack, DestroyFree

LEMMA OtherLevelsLocks ==
  ASSUME \/ Isr \/ Hw \/ DpcStart \/ DpcScanned \/ DpcPop \/ DpcRetire \/ DpcEnd
         \/ (\E i \in HwVoices, j \in Sides : DpcSkip(i, j))
         \/ DpcCallbackSsl \/ DpcCallbackReturn
  PROVE  UNCHANGED <<locks, buffers, queueing>>
BY DEF Isr, IsrIdleVoice, IsrPersistentVoice, IsrNotification, Hw, HwFinishSsl,
   HwVoiceEnds, HwIdle, DpcStart, DpcScanned, DpcPop, DpcRetire, DpcEnd, DpcSkip,
   DpcCallbackSsl, QueueSsl, DpcCallbackReturn

LEMMA CreateLocks ==
  ASSUME BuffersInv, LocksInv, NEW v \in Voices, NEW is3d \in BOOLEAN,
         VoiceCreate(v, is3d)
  PROVE  LocksInv'
<1>1. \A w \in Voices, l \in Sides : buffers'[w][l] = buffers[w][l]
  BY BufferTypes DEF BuffersInv, HeldSound, VoiceCreate
<1>2. locks' = locks /\ queueing' = queueing
  BY DEF VoiceCreate
<1>3. \A b : Held(b)' = Held(b)
  BY <1>1 DEF Held
<1>. QED  BY <1>2, <1>3 DEF LocksInv

LEMMA QueueLocks ==
  ASSUME BuffersInv, LocksInv, NEW b \in Buffers,
         (\E v \in Voices : BufferQueue(v, b)) \/ DpcCallbackQueue(b)
  PROVE  LocksInv'
<1>1. queueing.buffer = NoBuffer
  BY NotInQueue DEF BuffersInv, BufferQueue, AppRunsAt, DpcCallbackQueue, QueuePcs,
     IInv, LevelsSound, RaisedPcs
<1>2. \E v \in live : QueueBegin(v, b) \/ QueueReject(v)
  BY DEF BuffersInv, CallbackSound, BufferQueue, DpcCallbackQueue
<1>3. PICK v \in live : QueueBegin(v, b) \/ QueueReject(v)
  BY <1>2
<1>4. CASE QueueBegin(v, b)
  BY <1>1, <1>4, LockTaken
<1>5. CASE QueueReject(v)
  BY <1>5, LocksFrame DEF QueueReject
<1>. QED  BY <1>3, <1>4, <1>5

LEMMA SlotLocks ==
  ASSUME BuffersInv, LocksInv, BufferQueueSlot \/ DpcCallbackSlot
  PROVE  LocksInv'
<1>1. QueueSlot /\ queueing.voice # NoVoice
  BY DEF BuffersInv, QueueSound, QueuePcs, BufferQueueSlot, AppRunsAt, DpcCallbackSlot
<1>. QED  BY <1>1, LockHandedOver

LEMMA ReleaseLocks ==
  ASSUME BuffersInv, LocksInv, NEW i \in HwVoices, NEW j \in Sides, DpcRelease(i, j)
  PROVE  LocksInv'
<1>1. tracked[i] # NoVoice /\ Completed(tracked[i], i, j) /\ queueing' = queueing
      /\ locks' = Unlock(locks, buffers[tracked[i]][j])
  BY DEF DpcRelease
<1>2. tracked[i] \in Voices /\ buffers[tracked[i]][j] # NoBuffer
  BY <1>1, BufferTypes DEF BuffersInv, Completed
<1>3. streaming[tracked[i]]
  BY <1>2 DEF BuffersInv, HeldSound
<1>4. buffers' = [buffers EXCEPT ![tracked[i]][j] = NoBuffer]
  BY <1>3 DEF DpcRelease
<1>. QED  BY <1>1, <1>2, <1>4, SlotEmptied

LEMMA DestroyLocks ==
  ASSUME BuffersInv, LocksInv, NEW j \in Sides, DestroySlot(j)
  PROVE  LocksInv'
<1>1. appVoice \in Voices
  <2>1. appPc \in {"slot0", "slot1"}
    BY DEF DestroySlot, AppRunsAt
  <2>. QED  BY <2>1, BufferTypes DEF BuffersInv, IInv, CallSound
<1>2. /\ buffers' = [buffers EXCEPT ![appVoice][j] = NoBuffer]
      /\ locks' = UnlockIf(locks, buffers[appVoice][j]) /\ queueing' = queueing
  BY DEF DestroySlot
<1>3. CASE buffers[appVoice][j] = NoBuffer
  <2>1. locks' = locks
    BY <1>2, <1>3 DEF UnlockIf
  <2>2. buffers' = buffers
    BY <1>1, <1>2, <1>3, BufferTypes DEF BuffersInv
  <2>. QED  BY <1>2, <2>1, <2>2, LocksFrame
<1>4. CASE buffers[appVoice][j] # NoBuffer
  BY <1>1, <1>2, <1>4, SlotEmptied DEF UnlockIf
<1>. QED  BY <1>3, <1>4

LEMMA LocksStep ==
  ASSUME StaticVoices = {}, BuffersInv, LocksInv, [Next]_vars
  PROVE  LocksInv'
<1>1. CASE AppCall
  BY <1>1, OtherCallsLocks, LocksFrame, CreateLocks, QueueLocks, NoSubmit DEF AppCall
<1>2. CASE AppBody
  BY <1>2, OtherBodiesLocks, LocksFrame, SlotLocks, DestroyLocks DEF AppBody
<1>3. CASE Isr \/ Hw
  BY <1>3, OtherLevelsLocks, LocksFrame
<1>4. CASE Dpc
  BY <1>4, OtherLevelsLocks, LocksFrame, SlotLocks, ReleaseLocks, QueueLocks DEF Dpc
<1>5. CASE UNCHANGED vars
  BY <1>5, LocksFrame DEF vars
<1>. QED  BY <1>1, <1>2, <1>3, <1>4, <1>5 DEF Next

\* For any number of streaming voices and buffers, a buffer queued twice or on
\* two voices included: its pages are locked once for every slot that holds it.
THEOREM PageLocksKept ==
  ASSUME SlowHardware = FALSE, StaticVoices = {}
  PROVE  Spec => []PageLocksBalanced
<1>1. Init => LocksInv
  <2>. SUFFICES ASSUME Init, NEW b \in Buffers
                PROVE  /\ IsFiniteSet(Held(b))
                       /\ locks[b] = Cardinality(Held(b))
                                     + (IF queueing.buffer = b THEN 1 ELSE 0)
    BY DEF LocksInv
  <2>1. Held(b) = {}
    BY VoicesAssumption DEF Init, Held
  <2>2. queueing.buffer # b /\ locks[b] = 0
    BY VoicesAssumption DEF Init, NotQueueing
  <2>. QED  BY <2>1, <2>2, FS_EmptySet
<1>2. BuffersInv /\ LocksInv /\ [Next]_vars => LocksInv'
  BY LocksStep
<1>3. LocksInv => PageLocksBalanced
  BY DEF LocksInv, PageLocksBalanced, Holders, Held
<1>. QED  BY <1>1, <1>2, <1>3, BuffersInvariance, PTL DEF Spec
=============================================================================
