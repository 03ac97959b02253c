-------------------------- MODULE VoiceListProofs ---------------------------
(***************************************************************************)
(* Proofs about VoiceList, for any number of hardware voices and any split *)
(* into classes: the inductive invariant IInv, from which the links are    *)
(* sound and the VP's pointers never refer to a voice that was taken off,  *)
(* and the steps of the refinement of ProcessingList.                      *)
(***************************************************************************)
EXTENDS VoiceList, SequenceTheorems, FiniteSetTheorems, WellFoundedInduction,
        TLAPS

USE ListAssumption

LEMMA ClassFacts ==
  /\ Classes = {"3D", "2D"}
  /\ \A i \in HwVoices : ClassOf(i) \in Classes
BY DEF Classes, ClassOf, PL!Classes, PL!ClassOf

\* A sequence in which no value occurs twice.
Injective(s) == \A j, k \in DOMAIN s : s[j] = s[k] => j = k

\* What removing the value at position m gives.
LEMMA WithoutAt ==
  ASSUME NEW S, NEW s \in Seq(S), Injective(s), NEW m \in DOMAIN s
  PROVE  /\ PL!Without(s, s[m]) \in Seq(S)
         /\ Len(PL!Without(s, s[m])) = Len(s) - 1
         /\ \A n \in 1 .. Len(s) - 1 :
              PL!Without(s, s[m])[n] = IF n < m THEN s[n] ELSE s[n + 1]
         /\ DOMAIN PL!Without(s, s[m]) = 1 .. Len(s) - 1
<1> DEFINE k == CHOOSE n \in DOMAIN s : s[n] = s[m]
           w == [n \in 1 .. Len(s) - 1 |-> IF n < m THEN s[n] ELSE s[n + 1]]
<1>1. k = m
  BY DEF Injective
<1>2. PL!Without(s, s[m]) = w
  BY <1>1, Zenon DEF PL!Without
<1>3. w \in Seq(S) /\ Len(w) = Len(s) - 1
  <2>1. Len(s) - 1 \in Nat
    OBVIOUS
  <2>2. \A n \in 1 .. Len(s) - 1 : w[n] \in S
    OBVIOUS
  <2> QED BY <2>1, <2>2
<1> QED BY <1>2, <1>3

LEMMA WithoutAbsent ==
  ASSUME NEW s, NEW i, \A n \in DOMAIN s : s[n] # i
  PROVE  PL!Without(s, i) = s
BY Zenon DEF PL!Without

(***************************************************************************)
(* The walk along the links.                                               *)
(***************************************************************************)
\* A nonempty set of natural numbers has a least element: the intervals from
\* zero to its elements are ordered by strict inclusion.
LEMMA LeastElement ==
  ASSUME NEW T \in SUBSET Nat, T # {}
  PROVE  \E x \in T : \A y \in T : x <= y
<1>1. PICK t \in T : TRUE
  OBVIOUS
<1> DEFINE S == 0 .. t
           U == {0 .. x : x \in T \cap S}
<1>2. IsWellFoundedOn(StrictSubsetOrdering(S), FiniteSubsetsOf(S))
  BY FS_StrictSubsetOrderingWellFounded
<1>3. FiniteSubsetsOf(S) = SUBSET S
  <2>1. IsFiniteSet(S)
    BY <1>1, FS_Interval
  <2> HIDE DEF S
  <2> QED BY <2>1, FS_FiniteSubsetsOfFinite
<1>4. U \subseteq SUBSET S /\ U # {}
  BY <1>1
<1>5. \E u \in U : \A w \in U : <<w, u>> \notin StrictSubsetOrdering(S)
  <2> HIDE DEF U, S
  <2> QED BY <1>2, <1>3, <1>4, WFMin
<1>6. PICK x \in T \cap S : \A y \in T \cap S : <<0 .. y, 0 .. x>> \notin StrictSubsetOrdering(S)
  BY <1>5
<1>7. ASSUME NEW y \in T, y < x PROVE FALSE
  <2>1. y \in T \cap S /\ y \in Nat /\ x \in Nat
    BY <1>7, <1>6, <1>1
  <2>2. 0 .. y \subseteq 0 .. x /\ x \in 0 .. x /\ x \notin 0 .. y
    BY <2>1, <1>7
  <2>3. 0 .. y \in SUBSET S /\ 0 .. x \in SUBSET S
    BY <2>1, <1>6
  <2>4. <<0 .. y, 0 .. x>> \in StrictSubsetOrdering(S)
    <3> HIDE DEF S
    <3> QED BY <2>2, <2>3 DEF StrictSubsetOrdering
  <2> QED BY <2>4, <2>1, <1>6
<1> QED BY <1>6, <1>7

\* A list without repetition is no longer than there are hardware voices.
LEMMA ListFits ==
  ASSUME NEW s \in Seq(HwVoices), Injective(s)
  PROVE  Len(s) <= NumHw
<1> DEFINE D == 1 .. Len(s)
           F == [k \in D |-> s[k]]
<1>1. /\ IsFiniteSet(D) /\ Cardinality(D) = Len(s)
      /\ IsFiniteSet(HwVoices) /\ Cardinality(HwVoices) = NumHw
  <2>1. IsFiniteSet(D) /\ Cardinality(D) = IF 1 > Len(s) THEN 0 ELSE Len(s) - 1 + 1
    BY FS_Interval
  <2>2. /\ IsFiniteSet(HwVoices)
        /\ Cardinality(HwVoices) = IF 0 > NumHw - 1 THEN 0 ELSE NumHw - 1 - 0 + 1
    BY FS_Interval DEF HwVoices
  <2> QED BY <2>1, <2>2
<1>2. \A k \in D : s[k] \in HwVoices
  OBVIOUS
<1>3. SUFFICES ASSUME Cardinality(HwVoices) < Cardinality(D) PROVE FALSE
  BY <1>1
<1>4. F \in [D -> HwVoices]
  BY <1>2
<1>5. \E j, k \in D : j # k /\ F[j] = F[k]
  <2> HIDE DEF D, F
  <2> QED BY SMTT(20), <1>1, <1>3, <1>4, FS_PigeonHole
<1> QED BY <1>5 DEF Injective

\* Where the links are sound, the walk from the top of a class meets the voices
\* of the list in its order and then stays at the End.
LEMMA VisitedInOrder ==
  ASSUME TypeOK, LinksSound, NEW c \in Classes
  PROVE  Visited(c) = [k \in 0 .. NumHw |->
                         IF k < Len(order[c]) THEN order[c][k + 1] ELSE End]
<1> DEFINE s == order[c]
           Step(f) == [k \in 0 .. NumHw |->
                         IF k = 0 THEN tvl[c]
                         ELSE LET i == f[k - 1] IN IF i = End THEN End ELSE next[i]]
           W == [k \in 0 .. NumHw |-> IF k < Len(s) THEN s[k + 1] ELSE End]
           at == CHOOSE f : f = Step(f)
<1>0. /\ s \in Seq(HwVoices) /\ Len(s) \in Nat /\ NumHw \in Nat
      /\ End \notin HwVoices
  BY DEF TypeOK, HwVoices
<1>1. /\ tvl[c] = IF Len(s) = 0 THEN End ELSE s[1]
      /\ \A n \in 1 .. Len(s) : next[s[n]] = IF n = Len(s) THEN End ELSE s[n + 1]
  BY <1>0 DEF LinksSound
<1>2. W = Step(W)
  <2>1. ASSUME NEW k \in 0 .. NumHw PROVE W[k] = Step(W)[k]
    <3>1. CASE k = 0
      BY <1>0, <1>1, <3>1
    <3>2. CASE k # 0
      <4>1. k - 1 \in 0 .. NumHw /\ k \in Nat
        BY <1>0, <3>2
      <4>2. CASE k - 1 < Len(s)
        <5>1. k \in 1 .. Len(s) /\ W[k - 1] = s[k] /\ s[k] # End
          BY <1>0, <3>2, <4>1, <4>2
        <5>2. next[s[k]] = IF k = Len(s) THEN End ELSE s[k + 1]
          BY <1>1, <5>1
        <5> QED BY <1>0, <3>2, <4>1, <5>1, <5>2
      <4>3. CASE ~(k - 1 < Len(s))
        BY <1>0, <3>2, <4>1, <4>3
      <4> QED BY <4>2, <4>3
    <3> QED BY <3>1, <3>2
  <2> QED BY <2>1
<1>3. at = Step(at)
  <2> HIDE DEF Step, W
  <2> QED BY <1>2
<1>4. Visited(c) = at
  BY Zenon DEF Visited
<1>5. ASSUME NEW f, f = Step(f) PROVE f = W
  <2>1. /\ DOMAIN f = 0 .. NumHw
        /\ f[0] = tvl[c]
        /\ \A k \in 1 .. NumHw : f[k] = IF f[k - 1] = End THEN End ELSE next[f[k - 1]]
        /\ f = [k \in 0 .. NumHw |-> f[k]]
    BY SMTT(20), <1>0, <1>5
  <2>2. /\ W[0] = tvl[c]
        /\ \A k \in 1 .. NumHw : W[k] = IF W[k - 1] = End THEN End ELSE next[W[k - 1]]
    <3> HIDE DEF W
    <3> QED BY <1>0, <1>2
  <2> HIDE DEF Step, W
  <2> DEFINE T == {k \in 0 .. NumHw : f[k] # W[k]}
  <2>3. T = {}
    <3>1. SUFFICES ASSUME T # {} PROVE FALSE
      OBVIOUS
    <3>2. PICK x \in T : \A y \in T : x <= y
      <4>1. T \in SUBSET Nat
        BY <1>0
      <4> HIDE DEF T
      <4> QED BY <3>1, <4>1, LeastElement
    <3>3. x # 0
      BY <2>1, <2>2, <3>2
    <3>4. x - 1 \in 0 .. NumHw /\ x \in 1 .. NumHw /\ x - 1 \notin T
      BY <1>0, <3>2, <3>3
    <3> QED BY <2>1, <2>2, <3>2, <3>4
  <2>4. \A k \in 0 .. NumHw : f[k] = W[k]
    BY <2>3
  <2> QED BY <2>1, <2>4 DEF W
<1> QED BY <1>3, <1>4, <1>5

\* The walk finds the list, whole: the refinement of ListsAreImplemented maps
\* the abstract lists to the links, and this is how the links are known.
LEMMA WalkedIsOrder == TypeOK /\ LinksSound => Walked = order
<1> SUFFICES ASSUME TypeOK, LinksSound PROVE Walked = order
  OBVIOUS
<1>1. ASSUME NEW c \in Classes PROVE WalkedFrom(Visited(c)) = order[c]
  <2> DEFINE s == order[c]
             W == [k \in 0 .. NumHw |-> IF k < Len(s) THEN s[k + 1] ELSE End]
             L == {j \in 0 .. NumHw : W[j] # End}
  <2>0. /\ s \in Seq(HwVoices) /\ Len(s) \in Nat /\ NumHw \in Nat
        /\ End \notin HwVoices /\ Injective(s)
    BY DEF TypeOK, HwVoices, LinksSound, Injective
  <2>1. Len(s) <= NumHw
    BY <2>0, ListFits
  <2>2. L = 0 .. Len(s) - 1
    <3>1. ASSUME NEW j \in 0 .. NumHw PROVE W[j] # End <=> j < Len(s)
      <4>1. CASE j < Len(s)
        <5>1. j + 1 \in 1 .. Len(s) /\ s[j + 1] \in HwVoices
          BY <2>0, <4>1
        <5> QED BY <2>0, <4>1, <5>1
      <4>2. CASE ~(j < Len(s))
        BY <4>2
      <4> QED BY <4>1, <4>2
    <3> HIDE DEF W
    <3> QED BY <2>0, <2>1, <3>1
  <2>3. Cardinality(L) = Len(s)
    <3>1. Cardinality(0 .. Len(s) - 1) =
            IF 0 > Len(s) - 1 THEN 0 ELSE Len(s) - 1 - 0 + 1
      <4>1. 0 \in Int /\ Len(s) - 1 \in Int
        BY <2>0
      <4> HIDE DEF s
      <4> QED BY <4>1, FS_Interval
    <3>2. Cardinality(0 .. Len(s) - 1) = Len(s)
      <4> HIDE DEF s
      <4> QED BY <2>0, <3>1
    <3> QED BY <2>2, <3>2
  <2>4. WalkedFrom(Visited(c)) = [k \in 1 .. Len(s) |-> W[k - 1]]
    <3>1. Visited(c) = W
      BY VisitedInOrder
    <3> HIDE DEF W
    <3> QED BY <2>3, <3>1, Zenon DEF WalkedFrom
  <2>5. \A k \in 1 .. Len(s) : W[k - 1] = s[k]
    BY <2>0, <2>1
  <2>6. s = [k \in 1 .. Len(s) |-> s[k]]
    BY <2>0
  <2> HIDE DEF W
  <2> QED BY <2>4, <2>5, <2>6
<1>2. order = [c \in Classes |-> order[c]]
  BY DEF TypeOK
<1> QED BY <1>1, <1>2 DEF Walked

LEMMA InitIInv == Init => IInv
<1> SUFFICES ASSUME Init PROVE IInv
  OBVIOUS
<1> USE DEF Init
<1>1. TypeOK
  <2>1. next \in [HwVoices -> Handles]
    BY DEF Handles
  <2>2. order \in [Classes -> Seq(HwVoices)]
    OBVIOUS
  <2> QED BY <2>1, <2>2 DEF TypeOK, Handles, NoWork
<1>2. LinksSound
  BY ClassFacts DEF LinksSound
<1>3. PointersListed
  BY DEF PointersListed
<1>4. SearchSound
  BY DEF SearchSound
<1> QED BY <1>1, <1>2, <1>3, <1>4 DEF IInv

(***************************************************************************)
(* The steps that leave the lists alone.                                   *)
(***************************************************************************)
LEMMA VoiceEndsStep ==
  ASSUME IInv, NEW i \in HwVoices, VoiceEnds(i) PROVE IInv'
<1> USE DEF VoiceEnds, IInv
<1>1. TypeOK'
  BY DEF TypeOK
<1>2. LinksSound'
  BY DEF LinksSound
<1>3. PointersListed'
  BY DEF PointersListed, On, PL!On
<1>4. SearchSound'
  BY DEF SearchSound, Successor
<1> QED BY <1>1, <1>2, <1>3, <1>4

LEMMA IdleTrapStep ==
  ASSUME IInv, NEW i \in HwVoices, IdleTrap(i) PROVE IInv'
<1> USE DEF IdleTrap, IInv
<1>1. TypeOK'
  BY DEF TypeOK, NoWork, Handles
<1>2. LinksSound'
  BY DEF LinksSound
<1>3. PointersListed'
  BY DEF PointersListed, On, PL!On
<1>4. SearchSound'
  BY DEF SearchSound, NoWork
<1> QED BY <1>1, <1>2, <1>3, <1>4

LEMMA IsrPersistentStep ==
  ASSUME IInv, IsrPersistent PROVE IInv'
<1> USE DEF IsrPersistent, IInv
<1>1. TypeOK'
  BY DEF TypeOK, NoWork, Handles
<1>2. LinksSound'
  BY DEF LinksSound
<1>3. PointersListed'
  BY DEF PointersListed, On, PL!On
<1>4. SearchSound'
  BY DEF SearchSound
<1> QED BY <1>1, <1>2, <1>3, <1>4

LEMMA IsrEnterStep ==
  ASSUME IInv, IsrEnter PROVE IInv'
<1> USE DEF IsrEnter, IInv, device
<1> DEFINE c == ClassOf(work.idle)
           s == order[c]
<1>0. work.idle \in HwVoices /\ c \in Classes /\ s \in Seq(HwVoices)
  BY ClassFacts DEF SearchSound, TypeOK
<1>1. TypeOK'
  <2>1. Successor(work.idle) \in Handles /\ tvl[c] \in Handles
    BY <1>0 DEF TypeOK, Successor, Handles
  <2> QED BY <2>1 DEF TypeOK
<1>2. LinksSound'
  BY DEF LinksSound
<1>3. PointersListed'
  BY DEF PointersListed, On, PL!On
<1>4. SearchSound'
  <2>1. work'.idle = work.idle /\ work'.next = Successor(work.idle)
        /\ work'.current = tvl[c] /\ work'.prev = work.prev
    BY DEF TypeOK
  <2>2. work.prev = End
    BY DEF SearchSound
  <2>3. tvl[c] = IF 1 = Len(s) + 1 THEN End ELSE s[1]
    BY <1>0 DEF LinksSound
  <2>4. \E k \in 1 .. Len(s) + 1 :
          /\ work'.current = IF k = Len(s) + 1 THEN End ELSE s[k]
          /\ work'.prev = IF k = 1 THEN End ELSE s[k - 1]
          /\ \A j \in 1 .. k - 1 : s[j] # work.idle
    <3>1. 1 \in 1 .. Len(s) + 1 /\ 1 .. 1 - 1 = {}
      BY <1>0
    <3> WITNESS 1 \in 1 .. Len(s) + 1
    <3> QED BY <3>1, <2>1, <2>2, <2>3
  <2>5. /\ order' = order /\ next' = next /\ trapped' = trapped
        /\ pc' = "search" /\ trapped
    BY DEF SearchSound
  <2> QED BY <1>0, <2>1, <2>4, <2>5 DEF SearchSound, Successor
<1> QED BY <1>1, <1>2, <1>3, <1>4

LEMMA WalkStep ==
  ASSUME IInv, NEW c \in Classes, Walk(c) PROVE IInv'
<1> USE DEF IInv
<1> USE DEF Walk
<1>0. PICK i \in {tvl[c], NextOf(c, cvl[c])} :
         /\ cvl' = [cvl EXCEPT ![c] = i]
         /\ nvl' = [nvl EXCEPT ![c] = Wrapped(c, NextOf(c, i))]
  OBVIOUS
<1>a. \A j \in On(c) \cup {End} : NextOf(c, j) \in On(c) \cup {End}
  BY SMTT(20) DEF NextOf, On, PL!On, LinksSound, TypeOK, HwVoices
<1>b. tvl[c] \in On(c) \cup {End}
  BY DEF On, PL!On, LinksSound, TypeOK
<1>c. i \in On(c) \cup {End} /\ Wrapped(c, NextOf(c, i)) \in On(c) \cup {End}
  BY <1>0, <1>a, <1>b DEF PointersListed, Wrapped
<1>d. On(c) \subseteq HwVoices
  BY DEF On, PL!On, TypeOK
<1>1. TypeOK'
  BY <1>0, <1>c, <1>d DEF TypeOK, Handles
<1>2. LinksSound'
  BY DEF LinksSound
<1>3. PointersListed'
  BY <1>0, <1>c DEF PointersListed, On, PL!On, TypeOK
<1>4. SearchSound'
  BY DEF SearchSound, Successor
<1> QED BY <1>1, <1>2, <1>3, <1>4

LEMMA IsrSearchStep ==
  ASSUME IInv, IsrSearch PROVE IInv'
<1> USE DEF IsrSearch, IInv, device, Searching
<1> DEFINE c == ClassOf(work.idle)
           s == order[c]
<1>0. work.idle \in HwVoices /\ c \in Classes /\ s \in Seq(HwVoices)
  BY ClassFacts DEF SearchSound, TypeOK
<1>k. PICK k \in 1 .. Len(s) + 1 :
        /\ work.current = IF k = Len(s) + 1 THEN End ELSE s[k]
        /\ work.prev = IF k = 1 THEN End ELSE s[k - 1]
        /\ \A j \in 1 .. k - 1 : s[j] # work.idle
  BY DEF SearchSound
<1>m. k \in 1 .. Len(s) /\ work.current = s[k] /\ s[k] # work.idle
  BY <1>k, <1>0
<1>n. next[work.current] = IF k = Len(s) THEN End ELSE s[k + 1]
  BY <1>m, <1>0 DEF LinksSound
<1>w. /\ work'.idle = work.idle /\ work'.next = work.next
      /\ work'.prev = s[k] /\ work'.current = IF k = Len(s) THEN End ELSE s[k + 1]
  BY <1>m, <1>n DEF TypeOK
<1>1. TypeOK'
  <2>1. next[work.current] \in Handles
    BY <1>m, <1>0 DEF TypeOK
  <2> QED BY <2>1 DEF TypeOK
<1>2. LinksSound'
  BY DEF LinksSound
<1>3. PointersListed'
  BY DEF PointersListed, On, PL!On
<1>4. SearchSound'
  <2>1. k + 1 \in 1 .. Len(s) + 1 /\ (k + 1) - 1 = k /\ k + 1 # 1
        /\ (k + 1 = Len(s) + 1 <=> k = Len(s))
    BY <1>m, <1>0
  <2>2. \A j \in 1 .. (k + 1) - 1 : s[j] # work.idle
    BY <1>k, <1>m, <2>1
  <2>3. \E n \in 1 .. Len(s) + 1 :
          /\ work'.current = IF n = Len(s) + 1 THEN End ELSE s[n]
          /\ work'.prev = IF n = 1 THEN End ELSE s[n - 1]
          /\ \A j \in 1 .. n - 1 : s[j] # work.idle
    <3> DEFINE n == k + 1
    <3>1. n \in 1 .. Len(s) + 1 /\ n - 1 = k
      BY <2>1
    <3>2. /\ work'.current = IF n = Len(s) + 1 THEN End ELSE s[n]
          /\ work'.prev = IF n = 1 THEN End ELSE s[n - 1]
          /\ \A j \in 1 .. n - 1 : s[j] # work.idle
      BY <2>1, <2>2, <1>w
    <3> QED BY <3>1, <3>2
  <2> QED BY <2>3, <1>w DEF SearchSound, Successor
<1> QED BY <1>1, <1>2, <1>3, <1>4

(***************************************************************************)
(* A voice is put on a list.                                               *)
(***************************************************************************)
LEMMA VoiceOnStep ==
  ASSUME IInv, NEW i \in HwVoices, NEW p \in BOOLEAN, VoiceOn(i, p) PROVE IInv'
<1> USE DEF IInv
<1> DEFINE c == ClassOf(i)
           s == order[c]
           w == <<i>> \o s
<1>a. /\ ~trapped /\ i \notin On(c)
      /\ next' = [next EXCEPT ![i] = tvl[c]]
      /\ tvl' = [tvl EXCEPT ![c] = i]
      /\ order' = [order EXCEPT ![c] = w]
      /\ persist' = IF p THEN persist \cup {i} ELSE persist \ {i}
      /\ off' = off \ {i}
      /\ UNCHANGED <<cvl, nvl, trapped, pc, work>>
  <2>1. Links!On(c) = On(c)
    BY WalkedIsOrder DEF On, PL!On, Links!On
  <2> QED BY <2>1 DEF VoiceOn, MayStart
<1>0. c \in Classes /\ s \in Seq(HwVoices)
  BY ClassFacts DEF TypeOK
<1>w. /\ w \in Seq(HwVoices) /\ Len(w) = Len(s) + 1
      /\ \A k \in 1 .. Len(w) : w[k] = IF k = 1 THEN i ELSE s[k - 1]
  BY <1>0
<1>n. \A k \in DOMAIN s : s[k] \in HwVoices /\ s[k] # i
  BY <1>0, <1>a DEF On, PL!On
<1>1. TypeOK'
  <2>1. tvl[c] \in Handles /\ i \in Handles
    BY <1>0 DEF TypeOK, Handles
  <2>2. order' \in [Classes -> Seq(HwVoices)]
    BY <1>a, <1>w, <1>0 DEF TypeOK
  <2> QED BY <1>a, <2>1, <2>2 DEF TypeOK
<1>2. LinksSound'
  <2> SUFFICES ASSUME NEW d \in Classes
               PROVE /\ tvl'[d] = IF order'[d] = <<>> THEN End ELSE order'[d][1]
                     /\ \A k \in DOMAIN order'[d] :
                          /\ ClassOf(order'[d][k]) = d
                          /\ next'[order'[d][k]] =
                               IF k = Len(order'[d]) THEN End ELSE order'[d][k + 1]
                          /\ \A j \in DOMAIN order'[d] :
                               order'[d][j] = order'[d][k] => j = k
    BY SMTT(20) DEF LinksSound
  <2>1. CASE d = c
    <3>1. order'[d] = w /\ tvl'[d] = i
      BY <1>a, <1>0, <2>1 DEF TypeOK
    <3>2. w # <<>> /\ w[1] = i
      BY <1>w, <1>0
    <3>3. ASSUME NEW k \in 1 .. Len(w)
          PROVE /\ ClassOf(w[k]) = d
                /\ next'[w[k]] = IF k = Len(w) THEN End ELSE w[k + 1]
                /\ \A j \in 1 .. Len(w) : w[j] = w[k] => j = k
      <4>1. CASE k = 1
        <5>1. next'[w[k]] = tvl[c]
          BY <4>1, <3>2, <1>a DEF TypeOK
        <5>2. tvl[c] = IF s = <<>> THEN End ELSE s[1]
          BY <1>0 DEF LinksSound
        <5>3. next'[w[k]] = IF k = Len(w) THEN End ELSE w[k + 1]
          BY <4>1, <5>1, <5>2, <1>w, <1>0
        <5>4. \A j \in 1 .. Len(w) : w[j] = w[k] => j = k
          BY <4>1, <1>w, <1>n, <1>0
        <5> QED BY <5>3, <5>4, <4>1, <3>2, <2>1
      <4>2. CASE k # 1
        <5>1. k - 1 \in DOMAIN s /\ w[k] = s[k - 1]
          BY <4>2, <1>w, <1>0
        <5>2. /\ ClassOf(s[k - 1]) = c
              /\ next[s[k - 1]] = IF k - 1 = Len(s) THEN End ELSE s[k]
              /\ \A j \in DOMAIN s : s[j] = s[k - 1] => j = k - 1
          BY <5>1, <1>0 DEF LinksSound
        <5>3. next'[s[k - 1]] = next[s[k - 1]]
          BY <1>a, <1>n, <5>1 DEF TypeOK
        <5>4. next'[w[k]] = IF k = Len(w) THEN End ELSE w[k + 1]
          BY <5>1, <5>2, <5>3, <1>w, <1>0
        <5>5. \A j \in 1 .. Len(w) : w[j] = w[k] => j = k
          BY <5>1, <5>2, <1>w, <1>n, <1>0
        <5> QED BY <5>1, <5>2, <5>4, <5>5, <2>1
      <4> QED BY <4>1, <4>2
    <3>4. DOMAIN w = 1 .. Len(w)
      BY <1>w
    <3> HIDE DEF w
    <3> QED BY <3>1, <3>2, <3>3, <3>4
  <2>2. CASE d # c
    <3>1. order'[d] = order[d] /\ tvl'[d] = tvl[d]
      BY <1>a, <2>2 DEF TypeOK
    <3>2. \A k \in DOMAIN order[d] : ClassOf(order[d][k]) = d
      BY DEF LinksSound
    <3>3. \A k \in DOMAIN order[d] : order[d][k] \in HwVoices /\ order[d][k] # i
      BY <3>2, <2>2 DEF TypeOK
    <3>4. \A k \in DOMAIN order[d] : next'[order[d][k]] = next[order[d][k]]
      BY <1>a, <3>3 DEF TypeOK
    <3> QED BY <3>1, <3>4 DEF LinksSound
  <2> QED BY <2>1, <2>2
<1>3. PointersListed'
  <2>1. ASSUME NEW d \in Classes PROVE On(d) \subseteq On(d)'
    <3>1. CASE d = c
      <4>1. ASSUME NEW k \in DOMAIN s PROVE s[k] \in On(d)'
        <5>1. k + 1 \in DOMAIN w /\ w[k + 1] = s[k]
          BY <1>w, <1>0
        <5>2. order'[d] = w
          BY <1>a, <1>0, <3>1 DEF TypeOK
        <5> QED BY <5>1, <5>2 DEF On, PL!On
      <4> QED BY <4>1, <3>1 DEF On, PL!On
    <3>2. CASE d # c
      BY <1>a, <3>2 DEF On, PL!On, TypeOK
    <3> QED BY <3>1, <3>2
  <2> QED BY <2>1, <1>a DEF PointersListed
<1>4. SearchSound'
  BY <1>a DEF SearchSound
<1> QED BY <1>1, <1>2, <1>3, <1>4

(***************************************************************************)
(* A voice is taken off.  At the end of the search the idle voice is at    *)
(* position k of its list, or on no list.                                  *)
(***************************************************************************)
LEMMA SearchEnds ==
  ASSUME IInv, IsrUnlink
  PROVE  LET s == order[ClassOf(work.idle)]
         IN \/ /\ work.current = End
               /\ \A j \in DOMAIN s : s[j] # work.idle
            \/ \E k \in DOMAIN s :
                 /\ s[k] = work.idle /\ work.current = work.idle
                 /\ work.prev = IF k = 1 THEN End ELSE s[k - 1]
<1> DEFINE s == order[ClassOf(work.idle)]
<1>0. work.idle \in HwVoices /\ s \in Seq(HwVoices) /\ End \notin HwVoices
  BY ClassFacts DEF SearchSound, TypeOK, IInv, IsrUnlink, HwVoices
<1>1. work.current \in {End, work.idle}
  BY DEF IsrUnlink, Searching
<1>2. PICK k \in 1 .. Len(s) + 1 :
        /\ work.current = IF k = Len(s) + 1 THEN End ELSE s[k]
        /\ work.prev = IF k = 1 THEN End ELSE s[k - 1]
        /\ \A j \in 1 .. k - 1 : s[j] # work.idle
  BY DEF SearchSound, IInv, IsrUnlink
<1>3. CASE k = Len(s) + 1
  BY <1>0, <1>2, <1>3
<1>4. CASE k # Len(s) + 1
  <2>1. k \in DOMAIN s /\ work.current = s[k] /\ s[k] \in HwVoices
    BY <1>0, <1>2, <1>4
  <2>2. s[k] = work.idle
    BY <2>1, <1>0, <1>1
  <2> QED BY <2>1, <2>2, <1>2
<1> QED BY <1>3, <1>4

\* A voice that is on no list: only its own link changes.
LEMMA UnlinkUnlisted ==
  ASSUME IInv, IsrUnlink, work.current = End,
         \A j \in DOMAIN order[ClassOf(work.idle)] :
           order[ClassOf(work.idle)][j] # work.idle
  PROVE  /\ next' = [next EXCEPT ![work.idle] = work.idle]
         /\ UNCHANGED <<tvl, cvl, nvl, order>>
<1> DEFINE c == ClassOf(work.idle)
           s == order[c]
<1>0. /\ work.idle \in HwVoices /\ c \in Classes /\ s \in Seq(HwVoices)
      /\ End \notin HwVoices
  BY ClassFacts DEF SearchSound, TypeOK, IInv, IsrUnlink, HwVoices
<1>1. PL!Without(s, work.idle) = s
  BY WithoutAbsent
<1>2. cvl[c] # work.idle /\ nvl[c] # work.idle
  BY <1>0 DEF PointersListed, IInv, On, PL!On
<1>3. NewTop(c) = tvl[c] /\ NewCurrent(c) = cvl[c] /\ NewNext(c) = nvl[c]
  BY <1>2 DEF NewTop, NewCurrent, NewNext
<1>4. /\ next' = Relinked
      /\ tvl' = [tvl EXCEPT ![c] = NewTop(c)]
      /\ cvl' = [cvl EXCEPT ![c] = NewCurrent(c)]
      /\ nvl' = [nvl EXCEPT ![c] = NewNext(c)]
      /\ order' = [order EXCEPT ![c] = PL!Without(s, work.idle)]
  BY DEF IsrUnlink
<1>5. Relinked = [next EXCEPT ![work.idle] = work.idle]
  BY DEF Relinked
<1> QED BY <1>0, <1>1, <1>3, <1>4, <1>5 DEF TypeOK, IInv

\* A voice at position k: the links close over it.
LEMMA UnlinkListed ==
  ASSUME IInv, IsrUnlink, work.current = work.idle,
         NEW k \in DOMAIN order[ClassOf(work.idle)],
         order[ClassOf(work.idle)][k] = work.idle,
         work.prev = IF k = 1 THEN End ELSE order[ClassOf(work.idle)][k - 1]
  PROVE  LET c == ClassOf(work.idle)
             s == order[c]
             after == IF k = Len(s) THEN End ELSE s[k + 1]
         IN /\ next' = [j \in HwVoices |->
                          IF j = work.idle THEN j
                          ELSE IF k # 1 /\ j = s[k - 1] THEN after ELSE next[j]]
            /\ work.next = after
            /\ tvl' = [tvl EXCEPT ![c] = IF k = 1 THEN after ELSE tvl[c]]
            /\ NewTop(c) = IF k = 1 THEN after ELSE tvl[c]
            /\ order' = [order EXCEPT ![c] = PL!Without(s, s[k])]
            /\ cvl' = [cvl EXCEPT ![c] = NewCurrent(c)]
            /\ nvl' = [nvl EXCEPT ![c] = NewNext(c)]
            /\ Relinked = next'
<1> DEFINE c == ClassOf(work.idle)
           s == order[c]
           after == IF k = Len(s) THEN End ELSE s[k + 1]
<1>0. /\ work.idle \in HwVoices /\ c \in Classes /\ s \in Seq(HwVoices)
      /\ End \notin HwVoices /\ k \in 1 .. Len(s)
      /\ next \in [HwVoices -> Handles]
  BY ClassFacts DEF SearchSound, TypeOK, IInv, IsrUnlink, HwVoices
<1>1. next[work.idle] = after
  <2>1. s[k] = work.idle
    OBVIOUS
  <2>2. next[s[k]] = after
    BY <1>0 DEF LinksSound, IInv
  <2> QED BY <2>1, <2>2
<1>2. after # work.idle
  <2>1. CASE k = Len(s)
    BY <2>1, <1>0
  <2>2. CASE k # Len(s)
    <3>1. k + 1 \in DOMAIN s /\ k + 1 # k
      BY <2>2, <1>0
    <3> QED BY <3>1, <2>2, <1>0 DEF LinksSound, IInv
  <2> QED BY <2>1, <2>2
<1>3. work.next = after
  BY <1>1, <1>2 DEF SearchSound, IInv, IsrUnlink, Successor
<1>4. NewTop(c) = IF k = 1 THEN after ELSE tvl[c]
  <2>1. CASE k = 1
    <3>1. tvl[c] = s[1] /\ work.prev = End
      BY <2>1, <1>0 DEF LinksSound, IInv
    <3> QED BY <2>1, <3>1, <1>0, <1>3 DEF NewTop
  <2>2. CASE k # 1
    <3>1. work.prev # End
      BY <2>2, <1>0
    <3> QED BY <2>2, <3>1 DEF NewTop
  <2> QED BY <2>1, <2>2
<1>5. Relinked = [j \in HwVoices |->
                    IF j = work.idle THEN j
                    ELSE IF k # 1 /\ j = s[k - 1] THEN after ELSE next[j]]
  <2>1. CASE k = 1
    BY <2>1, <1>0 DEF Relinked
  <2>2. CASE k # 1
    <3>1. work.prev # End /\ work.prev = s[k - 1] /\ work.current # End
      BY <2>2, <1>0
    <3>2. Relinked = [[next EXCEPT ![s[k - 1]] = after] EXCEPT ![work.idle] = work.idle]
      BY <3>1, <1>3 DEF Relinked
    <3> QED BY <3>2, <2>2, <1>0
  <2> QED BY <2>1, <2>2
<1>6. /\ next' = Relinked
      /\ tvl' = [tvl EXCEPT ![c] = NewTop(c)]
      /\ cvl' = [cvl EXCEPT ![c] = NewCurrent(c)]
      /\ nvl' = [nvl EXCEPT ![c] = NewNext(c)]
      /\ order' = [order EXCEPT ![c] = PL!Without(s, work.idle)]
  BY DEF IsrUnlink
<1>7. s[k] = work.idle
  OBVIOUS
<1> QED BY <1>3, <1>4, <1>5, <1>6, <1>7

LEMMA IsrUnlinkStep ==
  ASSUME IInv, IsrUnlink PROVE IInv'
<1> DEFINE c == ClassOf(work.idle)
           s == order[c]
<1>0. /\ work.idle \in HwVoices /\ c \in Classes /\ s \in Seq(HwVoices)
      /\ End \notin HwVoices /\ next \in [HwVoices -> Handles]
      /\ End \in Handles /\ HwVoices \subseteq Handles
  BY ClassFacts DEF SearchSound, TypeOK, IInv, IsrUnlink, HwVoices, Handles
<1>u. /\ UNCHANGED <<persist, off>>
      /\ pc' = "out" /\ work' = NoWork /\ trapped' = FALSE
  BY DEF IsrUnlink
<1>4. SearchSound'
  BY <1>u DEF SearchSound
<1>w. work' \in [idle : Handles, next : Handles, current : Handles, prev : Handles]
  BY <1>u, <1>0 DEF NoWork
<1>a. CASE work.current = End /\ \A j \in DOMAIN s : s[j] # work.idle
  <2>0. /\ next' = [next EXCEPT ![work.idle] = work.idle]
        /\ UNCHANGED <<tvl, cvl, nvl, order>>
    BY <1>a, UnlinkUnlisted
  <2>1. TypeOK'
    BY <1>0, <1>u, <1>w, <2>0 DEF TypeOK, IInv
  <2>2. LinksSound'
    <3>1. ASSUME NEW d \in Classes, NEW k \in DOMAIN order[d]
          PROVE next'[order[d][k]] = next[order[d][k]]
      <4>1. order[d][k] \in HwVoices /\ ClassOf(order[d][k]) = d
        BY DEF TypeOK, LinksSound, IInv
      <4>2. order[d][k] # work.idle
        BY <1>a, <4>1
      <4> QED BY <4>1, <4>2, <2>0, <1>0
    <3> QED BY <3>1, <2>0 DEF LinksSound, IInv
  <2>3. PointersListed'
    BY <2>0 DEF PointersListed, On, PL!On, IInv
  <2> QED BY <2>1, <2>2, <2>3, <1>4 DEF IInv
<1>b. ASSUME NEW k \in DOMAIN s, s[k] = work.idle, work.current = work.idle,
             work.prev = IF k = 1 THEN End ELSE s[k - 1]
      PROVE  IInv'
  <2> DEFINE after == IF k = Len(s) THEN End ELSE s[k + 1]
             w == PL!Without(s, s[k])
             left == {order'[c][n] : n \in DOMAIN order'[c]}
  <2>0. /\ next' = [j \in HwVoices |->
                      IF j = work.idle THEN j
                      ELSE IF k # 1 /\ j = s[k - 1] THEN after ELSE next[j]]
        /\ work.next = after
        /\ tvl' = [tvl EXCEPT ![c] = IF k = 1 THEN after ELSE tvl[c]]
        /\ NewTop(c) = IF k = 1 THEN after ELSE tvl[c]
        /\ order' = [order EXCEPT ![c] = w]
        /\ cvl' = [cvl EXCEPT ![c] = NewCurrent(c)]
        /\ nvl' = [nvl EXCEPT ![c] = NewNext(c)]
        /\ Relinked = next'
    BY <1>b, UnlinkListed
  <2>k. k \in 1 .. Len(s)
    BY <1>0
  <2>i. Injective(s)
    BY <1>0 DEF Injective, LinksSound, IInv
  <2>w. /\ w \in Seq(HwVoices) /\ Len(w) = Len(s) - 1
        /\ \A n \in 1 .. Len(s) - 1 : w[n] = IF n < k THEN s[n] ELSE s[n + 1]
        /\ DOMAIN w = 1 .. Len(s) - 1
    BY <2>i, <1>0, WithoutAt
  <2>s. \A n \in 1 .. Len(s) :
          /\ s[n] \in HwVoices /\ ClassOf(s[n]) = c
          /\ next[s[n]] = IF n = Len(s) THEN End ELSE s[n + 1]
          /\ \A j \in 1 .. Len(s) : s[j] = s[n] => j = n
    BY <1>0 DEF LinksSound, IInv
  <2>t. tvl[c] = IF s = <<>> THEN End ELSE s[1]
    BY <1>0 DEF LinksSound, IInv
  <2>a. after \in Handles
    BY <2>s, <2>k, <1>0
  <2>oc. order'[c] = w
    BY <2>0, <1>0 DEF TypeOK, IInv
  <2>od. \A d \in Classes \ {c} : order'[d] = order[d] /\ tvl'[d] = tvl[d]
    BY <2>0 DEF TypeOK, IInv
  <2>n. \A n \in 1 .. Len(s) : n # k => s[n] # work.idle /\ next'[s[n]] =
           IF n = k - 1 THEN after ELSE IF n = Len(s) THEN End ELSE s[n + 1]
    <3> SUFFICES ASSUME NEW n \in 1 .. Len(s), n # k
                 PROVE  s[n] # work.idle /\ next'[s[n]] =
                          IF n = k - 1 THEN after
                          ELSE IF n = Len(s) THEN End ELSE s[n + 1]
      OBVIOUS
    <3>1. s[n] \in HwVoices /\ s[n] # work.idle
      BY <2>s, <2>k, <1>b
    <3>2. (k # 1 /\ s[n] = s[k - 1]) <=> n = k - 1
      BY <2>s, <2>k, <1>0
    <3> HIDE DEF after
    <3>3. next'[s[n]] = IF n = k - 1 THEN after ELSE next[s[n]]
      BY <3>1, <3>2, <2>0
    <3> QED BY <3>1, <3>3, <2>s
  <2>2. LinksSound'
    <3>1. tvl'[c] = IF w = <<>> THEN End ELSE w[1]
      <4>1. tvl'[c] = IF k = 1 THEN after ELSE s[1]
        BY <2>0, <2>t, <2>k, <1>0 DEF TypeOK, IInv
      <4> HIDE DEF w
      <4>2. w = <<>> <=> Len(s) = 1
        <5>1. Len(s) \in Nat /\ Len(w) = Len(s) - 1
          BY <2>w, <1>0
        <5>2. w = <<>> <=> Len(w) = 0
          BY <2>w, EmptySeq
        <5> QED BY <5>1, <5>2
      <4> QED BY <4>1, <4>2, <2>w, <2>k, <1>0
    <3>2. ASSUME NEW n \in 1 .. Len(s) - 1
          PROVE  /\ ClassOf(w[n]) = c
                 /\ next'[w[n]] = IF n = Len(w) THEN End ELSE w[n + 1]
                 /\ \A j \in 1 .. Len(s) - 1 : w[j] = w[n] => j = n
      <4> DEFINE P(j) == IF j < k THEN j ELSE j + 1
      <4>1. \A j \in 1 .. Len(s) - 1 :
              w[j] = s[P(j)] /\ P(j) \in 1 .. Len(s) /\ P(j) # k
        BY <2>w, <2>k, <1>0
      <4>2. \A j \in 1 .. Len(s) - 1 : P(j) = P(n) => j = n
        BY <2>k, <1>0
      <4> HIDE DEF w
      <4>3. \A j \in 1 .. Len(s) - 1 : w[j] = w[n] => j = n
        <5>1. ASSUME NEW j \in 1 .. Len(s) - 1, w[j] = w[n] PROVE j = n
          <6>1. s[P(j)] = s[P(n)] /\ P(j) \in 1 .. Len(s) /\ P(n) \in 1 .. Len(s)
            BY <4>1, <5>1
          <6> HIDE DEF P
          <6>2. P(j) = P(n)
            BY <6>1, <2>s
          <6> QED BY <6>2, <4>2
        <5> QED BY <5>1
      <4>4. next'[w[n]] = IF P(n) = k - 1 THEN after
                          ELSE IF P(n) = Len(s) THEN End ELSE s[P(n) + 1]
        <5> HIDE DEF after
        <5> QED BY <4>1, <2>n
      <4>5. ClassOf(w[n]) = c
        BY <4>1, <2>s
      <4>6. next'[w[n]] = IF n = Len(w) THEN End ELSE w[n + 1]
        <5>1. CASE n < k - 1
          BY <5>1, <4>4, <2>w, <2>k, <1>0
        <5>2. CASE n = k - 1
          BY <5>2, <4>4, <2>w, <2>k, <1>0
        <5>3. CASE n > k - 1
          BY <5>3, <4>4, <2>w, <2>k, <1>0
        <5> QED BY <5>1, <5>2, <5>3, <2>k, <1>0
      <4> QED BY <4>3, <4>5, <4>6
    <3>3. ASSUME NEW d \in Classes, d # c, NEW n \in DOMAIN order[d]
          PROVE  next'[order[d][n]] = next[order[d][n]]
      <4>1. order[d][n] \in HwVoices /\ ClassOf(order[d][n]) = d
        BY DEF TypeOK, LinksSound, IInv
      <4>2. order[d][n] # work.idle /\ (k # 1 => order[d][n] # s[k - 1])
        BY <4>1, <3>3, <2>s, <2>k
      <4> HIDE DEF after
      <4> QED BY <4>1, <4>2, <2>0
    <3> HIDE DEF w
    <3>4. ASSUME NEW d \in Classes
          PROVE  /\ tvl'[d] = IF order'[d] = <<>> THEN End ELSE order'[d][1]
                 /\ \A n \in DOMAIN order'[d] :
                      /\ ClassOf(order'[d][n]) = d
                      /\ next'[order'[d][n]] =
                           IF n = Len(order'[d]) THEN End ELSE order'[d][n + 1]
                      /\ \A j \in DOMAIN order'[d] :
                           order'[d][j] = order'[d][n] => j = n
      <4>1. CASE d = c
        <5>1. order'[d] = w /\ DOMAIN w = 1 .. Len(s) - 1
          BY <4>1, <2>oc, <2>w
        <5> QED BY <4>1, <5>1, <3>1, <3>2
      <4>2. CASE d # c
        <5>1. order'[d] = order[d] /\ tvl'[d] = tvl[d]
          BY <4>2, <2>od
        <5> QED BY <4>2, <5>1, <3>3 DEF LinksSound, IInv
      <4> QED BY <4>1, <4>2
    <3> QED BY <3>4 DEF LinksSound
  <2>o. left = On(c) \ {work.idle}
    <3>1. left = {w[n] : n \in 1 .. Len(s) - 1}
      BY <2>oc, <2>w
    <3>2. On(c) = {s[n] : n \in 1 .. Len(s)}
      BY <1>0 DEF On, PL!On
    <3>3. ASSUME NEW n \in 1 .. Len(s) - 1
          PROVE  \E j \in 1 .. Len(s) : j # k /\ w[n] = s[j]
      <4>1. CASE n < k
        BY <4>1, <2>w, <2>k, <1>0
      <4>2. CASE ~(n < k)
        <5>1. n + 1 \in 1 .. Len(s) /\ n + 1 # k /\ w[n] = s[n + 1]
          BY <4>2, <2>w, <2>k, <1>0
        <5> QED BY <5>1
      <4> QED BY <4>1, <4>2
    <3>4. ASSUME NEW j \in 1 .. Len(s), j # k
          PROVE  \E n \in 1 .. Len(s) - 1 : w[n] = s[j]
      <4>1. CASE j < k
        BY <4>1, <2>w, <2>k, <1>0
      <4>2. CASE ~(j < k)
        <5>1. /\ j - 1 \in 1 .. Len(s) - 1 /\ ~(j - 1 < k) /\ (j - 1) + 1 = j
          BY <4>2, <3>4, <2>k, <1>0
        <5>2. w[j - 1] = s[j]
          BY <5>1, <2>w
        <5> QED BY <5>1, <5>2
      <4> QED BY <4>1, <4>2
    <3> HIDE DEF w
    <3> HIDE DEF left
    <3>5. ASSUME NEW i \in left PROVE i \in On(c) \ {work.idle}
      <4>1. PICK n \in 1 .. Len(s) - 1 : i = w[n]
        BY <3>1
      <4>2. PICK j \in 1 .. Len(s) : j # k /\ w[n] = s[j]
        BY <3>3
      <4> QED BY <4>1, <4>2, <2>n, <3>2
    <3>6. ASSUME NEW i \in On(c), i # work.idle PROVE i \in left
      <4>1. PICK j \in 1 .. Len(s) : i = s[j]
        BY <3>2
      <4>2. j # k
        BY <4>1, <3>6, <1>b
      <4> QED BY <4>1, <4>2, <3>1, <3>4
    <3> QED BY <3>5, <3>6
  <2>3. PointersListed'
    <3>1. /\ tvl'[c] \in left \cup {End}
          /\ \A i \in left : next'[i] \in left \cup {End}
      BY SMTT(20), <2>2, <2>w, <2>oc, <1>0 DEF LinksSound, On, PL!On
    <3>2. after \in left \cup {End}
      <4>1. CASE k = Len(s)
        BY <4>1
      <4>2. CASE k # Len(s)
        <5>1. k + 1 \in 1 .. Len(s) /\ after = s[k + 1] /\ k + 1 # k
          BY <4>2, <2>k, <1>0
        <5>2. after # work.idle /\ after \in On(c)
          BY <5>1, <2>n, <1>0 DEF On, PL!On
        <5> QED BY <5>2, <2>o
      <4> QED BY <4>1, <4>2
    <3>3. NewTop(c) \in left \cup {End}
      BY <3>1, <2>0, <1>0 DEF TypeOK, IInv
    <3>4. cvl[c] \in On(c) \cup {End} /\ nvl[c] \in On(c) \cup {End}
      BY <1>0 DEF PointersListed, IInv
    <3> HIDE DEF after
    <3>5. NewCurrent(c) \in left \cup {End}
      BY SMTT(20), <3>2, <3>4, <2>o, <2>0 DEF NewCurrent
    <3>6. NewNextOfCurrent(c) \in left \cup {End}
      BY <3>1, <3>2, <3>3, <2>0 DEF NewNextOfCurrent
    <3>7. NewNext(c) \in left \cup {End}
      BY <3>2, <3>3, <3>4, <3>6, <2>o, <2>0 DEF NewNext
    <3>8. cvl'[c] = NewCurrent(c) /\ nvl'[c] = NewNext(c)
      BY <2>0, <1>0 DEF TypeOK, IInv
    <3>9. ASSUME NEW d \in Classes, d # c
          PROVE  cvl'[d] = cvl[d] /\ nvl'[d] = nvl[d] /\ On(d)' = On(d)
      BY <2>0, <2>od, <3>9 DEF TypeOK, IInv, On, PL!On
    <3>10. ASSUME NEW d \in Classes PROVE {cvl'[d], nvl'[d]} \subseteq On(d)' \cup {End}
      <4>1. CASE d = c
        <5>1. On(d)' = left
          BY <4>1 DEF On, PL!On
        <5> HIDE DEF left
        <5> QED BY <4>1, <5>1, <3>5, <3>7, <3>8
      <4>2. CASE d # c
        BY <4>2, <3>9 DEF PointersListed, IInv
      <4> QED BY <4>1, <4>2
    <3> QED BY <3>10 DEF PointersListed
  <2>1. TypeOK'
    <3>1. left \subseteq HwVoices
      BY <2>oc, <2>w
    <3>2. cvl'[c] \in Handles /\ nvl'[c] \in Handles
      BY <2>3, <3>1, <1>0 DEF PointersListed, On, PL!On
    <3>3. cvl' \in [Classes -> Handles] /\ nvl' \in [Classes -> Handles]
      BY <2>0, <3>2, <1>0 DEF TypeOK, IInv
    <3> HIDE DEF after
    <3>4. tvl' \in [Classes -> Handles]
      BY <2>0, <2>a, <1>0 DEF TypeOK, IInv
    <3>5. next' \in [HwVoices -> Handles]
      BY <2>0, <2>a, <1>0
    <3> HIDE DEF w
    <3>6. order' \in [Classes -> Seq(HwVoices)]
      BY <2>0, <2>w, <1>0 DEF TypeOK, IInv
    <3> QED BY <3>3, <3>4, <3>5, <3>6, <1>u, <1>w DEF TypeOK, IInv
  <2> QED BY <2>1, <2>2, <2>3, <1>4 DEF IInv
<1> QED BY <1>a, <1>b, SearchEnds

(***************************************************************************)
(* The turns of the pass under way.                                        *)
(***************************************************************************)
\* The voices of a list at the VP's pointer or behind it.
From(s, at) == {s[n] : n \in {j \in DOMAIN s : \E m \in 1 .. j : s[m] = at}}

\* In a list without repetition, behind position q.
LEMMA BehindPosition ==
  ASSUME NEW S, NEW s \in Seq(S), Injective(s), NEW q \in 1 .. Len(s),
         NEW n \in 1 .. Len(s)
  PROVE  (\E m \in 1 .. n : s[m] = s[q]) <=> q <= n
<1>1. ASSUME NEW m \in 1 .. n, s[m] = s[q] PROVE q <= n
  <2>1. m \in DOMAIN s /\ q \in DOMAIN s
    OBVIOUS
  <2>2. m = q
    BY <1>1, <2>1 DEF Injective
  <2> QED BY <2>2
<1> QED BY <1>1

\* The pointer, when it leaves position k of the list.
Advanced(s, k, at) ==
  IF at # s[k] THEN at ELSE IF k = Len(s) THEN End ELSE s[k + 1]

\* w is s without position k.
LeavesOut(w, s, k) ==
  /\ Len(w) = Len(s) - 1
  /\ \A n \in 1 .. Len(s) - 1 : w[n] = IF n < k THEN s[n] ELSE s[n + 1]

\* Removing the voice at position k, and moving the pointer to its successor if
\* that is where it stood, leaves the other voices behind the pointer.
LEMMA TurnsWithout ==
  ASSUME NEW s \in Seq(HwVoices), Injective(s), NEW k \in 1 .. Len(s),
         NEW w \in Seq(HwVoices), Injective(w), LeavesOut(w, s, k),
         NEW old, old = End \/ \E q \in 1 .. Len(s) : old = s[q],
         NEW new, new = Advanced(s, k, old)
  PROVE  From(w, new) = From(s, old) \ {s[k]}
<1> USE DEF Advanced, LeavesOut
<1> DEFINE P(n) == IF n < k THEN n ELSE n + 1
           L == Len(s)
<1>0. End \notin HwVoices /\ L \in Nat /\ k \in 1 .. L /\ DOMAIN s = 1 .. L /\ DOMAIN w = 1 .. L - 1
  BY DEF HwVoices
<1>1. \A n \in 1 .. L - 1 : w[n] = s[P(n)] /\ P(n) \in 1 .. L /\ P(n) # k
  BY <1>0
<1>2. \A j \in 1 .. L : j # k => \E n \in 1 .. L - 1 : P(n) = j
  <2> SUFFICES ASSUME NEW j \in 1 .. L, j # k
               PROVE  \E n \in 1 .. L - 1 : P(n) = j
    OBVIOUS
  <2>1. CASE j < k
    BY <1>0, <2>1
  <2>2. CASE j > k
    <3>1. j - 1 \in 1 .. L - 1 /\ P(j - 1) = j
      BY <1>0, <2>2
    <3> QED BY <3>1
  <2> QED BY <1>0, <2>1, <2>2
<1>a. \A q, n \in 1 .. L : (\E m \in 1 .. n : s[m] = s[q]) <=> q <= n
  BY BehindPosition
<1>b. \A q, n \in 1 .. L - 1 : (\E m \in 1 .. n : w[m] = w[q]) <=> q <= n
  BY BehindPosition
<1>3. ASSUME NEW n \in 1 .. L - 1
      PROVE  (\E m \in 1 .. n : w[m] = new) <=> (\E m \in 1 .. P(n) : s[m] = old)
  <2>1. CASE old = End
    <3>1. \A m \in 1 .. n : w[m] \in HwVoices
      BY <1>0
    <3>2. \A m \in 1 .. P(n) : s[m] \in HwVoices
      BY <1>0, <1>1
    <3>3. new = End
      BY <2>1, <1>0
    <3> QED BY <1>0, <2>1, <3>1, <3>2, <3>3
  <2>2. ASSUME NEW q \in 1 .. L, old = s[q], q # k
        PROVE  (\E m \in 1 .. n : w[m] = new) <=> (\E m \in 1 .. P(n) : s[m] = old)
    <3>1. new = s[q]
      BY <2>2, <1>0 DEF Injective
    <3>2. PICK p \in 1 .. L - 1 : P(p) = q
      BY <1>2, <2>2
    <3>3. new = w[p]
      BY <1>1, <3>1, <3>2
    <3>4. (\E m \in 1 .. n : w[m] = new) <=> p <= n
      BY <1>b, <3>2, <3>3
    <3>5. (\E m \in 1 .. P(n) : s[m] = old) <=> q <= P(n)
      BY <1>a, <1>1, <2>2
    <3>6. p <= n <=> q <= P(n)
      BY <3>2, <1>0
    <3> QED BY <3>4, <3>5, <3>6
  <2>3. CASE old = s[k]
    <3>1. (\E m \in 1 .. P(n) : s[m] = old) <=> k <= P(n)
      BY <1>a, <1>0, <1>1, <2>3
    <3>2. CASE k = L
      <4>1. new = End /\ \A m \in 1 .. n : w[m] \in HwVoices
        BY <2>3, <3>2, <1>0
      <4>2. ~(k <= P(n))
        BY <1>0, <1>1, <3>2
      <4> QED BY <1>0, <3>1, <4>1, <4>2
    <3>3. CASE k # L
      <4>0. k \in 1 .. L - 1
        <5> HIDE DEF L, P
        <5> QED BY <3>3, <1>0
      <4>1. k \in 1 .. L - 1 /\ new = w[k]
        BY <2>3, <3>3, <4>0
      <4>2. (\E m \in 1 .. n : w[m] = new) <=> k <= n
        BY <1>b, <4>1
      <4>3. k <= n <=> k <= P(n)
        BY <1>0
      <4> QED BY <3>1, <4>2, <4>3
    <3> QED BY <3>2, <3>3
  <2> QED BY <2>1, <2>2, <2>3
<1> HIDE DEF P, L
<1>4. ASSUME NEW i \in From(w, new) PROVE i \in From(s, old) \ {s[k]}
  <2>1. PICK n \in 1 .. L - 1 : i = w[n] /\ \E m \in 1 .. n : w[m] = new
    BY <1>0, <1>4 DEF From
  <2>2. i = s[P(n)] /\ P(n) \in 1 .. L /\ P(n) # k
        /\ \E m \in 1 .. P(n) : s[m] = old
    BY <1>1, <1>3, <2>1
  <2>3. s[P(n)] # s[k]
    BY <1>0, <2>2 DEF Injective
  <2> QED BY <1>0, <2>2, <2>3 DEF From
<1>5. ASSUME NEW i \in From(s, old), i # s[k] PROVE i \in From(w, new)
  <2>1. PICK j \in 1 .. L : i = s[j] /\ \E m \in 1 .. j : s[m] = old
    BY <1>0, <1>5 DEF From
  <2>2. PICK n \in 1 .. L - 1 : P(n) = j
    BY <1>2, <1>5, <2>1
  <2>3. i = w[n] /\ \E m \in 1 .. n : w[m] = new
    BY <1>1, <1>3, <2>1, <2>2
  <2> QED BY <1>0, <2>3 DEF From
<1> QED BY <1>4, <1>5

LEMMA UnlinkTurns ==
  ASSUME IInv, IInv', IsrUnlink, NEW d \in Classes
  PROVE  Remaining(d)' = Remaining(d) \ {work.idle}
<1> DEFINE c == ClassOf(work.idle)
           s == order[c]
<1>0. /\ work.idle \in HwVoices /\ c \in Classes /\ s \in Seq(HwVoices)
      /\ End \notin HwVoices
  BY ClassFacts DEF SearchSound, TypeOK, IInv, IsrUnlink, HwVoices
<1>1. \A e \in Classes : Remaining(e) = From(order[e], cvl[e])
                         /\ Remaining(e)' = From(order'[e], cvl'[e])
  BY DEF Remaining, From
<1>2. ASSUME order'[d] = order[d], cvl'[d] = cvl[d],
             \A j \in DOMAIN order[d] : order[d][j] # work.idle
      PROVE  Remaining(d)' = Remaining(d) \ {work.idle}
  <2>1. work.idle \notin From(order[d], cvl[d])
    BY <1>2 DEF From
  <2> QED BY <1>1, <1>2, <2>1
<1>3. CASE d # c
  <2>1. order'[d] = order[d] /\ cvl'[d] = cvl[d]
    BY <1>0, <1>3 DEF IsrUnlink, TypeOK, IInv
  <2>2. \A j \in DOMAIN order[d] : order[d][j] # work.idle
    BY <1>3 DEF IInv, LinksSound
  <2> QED BY <1>2, <2>1, <2>2
<1>4. CASE d = c /\ work.current = End /\ \A j \in DOMAIN s : s[j] # work.idle
  BY <1>2, <1>4, UnlinkUnlisted
<1>5. ASSUME d = c, NEW k \in DOMAIN s, s[k] = work.idle,
             work.current = work.idle,
             work.prev = IF k = 1 THEN End ELSE s[k - 1]
      PROVE  Remaining(d)' = Remaining(d) \ {work.idle}
  <2> DEFINE w == PL!Without(s, s[k])
             after == IF k = Len(s) THEN End ELSE s[k + 1]
  <2>1. /\ work.next = after
        /\ order' = [order EXCEPT ![c] = w]
        /\ cvl' = [cvl EXCEPT ![c] = NewCurrent(c)]
    BY <1>5, UnlinkListed
  <2>2. Injective(s) /\ k \in 1 .. Len(s)
    BY <1>0, <1>5 DEF Injective, LinksSound, IInv
  <2>3. w \in Seq(HwVoices) /\ LeavesOut(w, s, k)
    BY <1>0, <1>5, <2>2, WithoutAt DEF LeavesOut
  <2>4. order'[c] = w /\ cvl'[c] = NewCurrent(c)
    BY <1>0, <2>1 DEF TypeOK, IInv
  <2>5. Injective(w)
    BY <1>0, <2>4 DEF Injective, LinksSound, IInv
  <2>6. cvl[c] = End \/ \E q \in 1 .. Len(s) : cvl[c] = s[q]
    BY <1>0 DEF IInv, PointersListed, On, PL!On
  <2>7. NewCurrent(c) = Advanced(s, k, cvl[c])
    BY <1>5, <2>1 DEF NewCurrent, Advanced
  <2> HIDE DEF w, s
  <2>8. From(w, NewCurrent(c)) = From(s, cvl[c]) \ {s[k]}
    BY <1>0, <2>2, <2>3, <2>5, <2>6, <2>7, TurnsWithout
  <2> QED BY <1>1, <1>5, <2>4, <2>8 DEF s
<1> QED BY <1>3, <1>4, <1>5, SearchEnds

(***************************************************************************)
(* The theorems.                                                           *)
(***************************************************************************)
\* The repair of apu_isr keeps everything the driver and the VP rely on in the
\* lists, at every trap and whatever ran before it.
THEOREM Invariance == Spec => []IInv
<1>1. IInv /\ [Next]_vars => IInv'
  <2> SUFFICES ASSUME IInv, [Next]_vars PROVE IInv'
    OBVIOUS
  <2>1. CASE UNCHANGED vars
    BY <2>1 DEF vars, device, IInv, TypeOK, LinksSound, PointersListed,
                SearchSound, Successor, On, PL!On
  <2>2. CASE Next
    BY <2>2, VoiceOnStep, VoiceEndsStep, WalkStep, IdleTrapStep,
       IsrPersistentStep, IsrEnterStep, IsrSearchStep, IsrUnlinkStep DEF Next
  <2> QED BY <2>1, <2>2
<1> QED BY InitIInv, <1>1, PTL DEF Spec

\* Followed from the top, the links visit exactly the listed voices and end:
\* no voice is cut off and no cycle is made.
THEOREM LinksAreSound == Spec => []LinksSound
<1>1. IInv => LinksSound
  BY DEF IInv
<1> QED BY Invariance, <1>1, PTL

\* CVL and NVL never refer to a voice that has been taken off.
THEOREM PointersStayListed == Spec => []PointersListed
<1>1. IInv => PointersListed
  BY DEF IInv
<1> QED BY Invariance, <1>1, PTL

\* Followed from the tops, the links make the abstract lists: what VOICE_ON
\* writes is a Put, the pointer surgery of apu_isr is a Take of one voice where
\* it is, and no other step, of the search or of the VP, changes what the links
\* make.
THEOREM ListsAreImplemented == Spec => ImplementsList
<1>1. Init => Links!Init
  <2> SUFFICES ASSUME Init PROVE Links!Init
    OBVIOUS
  <2>1. Walked = order
    BY InitIInv, WalkedIsOrder DEF IInv
  <2> QED BY <2>1 DEF Init, Links!Init, Links!Classes, Classes, PL!Classes
<1>a. IInv => Walked = order
  BY WalkedIsOrder DEF IInv
<1>b. (IInv => Walked = order)'
  BY <1>a, PTL
<1>2. IInv /\ IInv' /\ [Next]_vars => [Links!Next]_Walked
  <2> SUFFICES ASSUME IInv, IInv', [Next]_vars, Walked' # Walked PROVE Links!Next
    OBVIOUS
  <2>0. Walked = order /\ Walked' = order'
    BY <1>a, <1>b
  <2>1. ASSUME NEW i \in HwVoices, NEW p \in BOOLEAN, VoiceOn(i, p)
        PROVE  Links!Next
    <3>1. i \notin Links!On(Links!ClassOf(i))
      BY <2>1 DEF VoiceOn, MayStart, ClassOf, PL!ClassOf, Links!ClassOf
    <3>2. order' = [order EXCEPT ![Links!ClassOf(i)] = <<i>> \o @]
      BY <2>1 DEF VoiceOn, ClassOf, PL!ClassOf, Links!ClassOf
    <3> QED BY <2>0, <3>1, <3>2 DEF Links!Next, Links!Put, HwVoices
  <2>2. CASE IsrUnlink
    <3>1. work.idle \in HwVoices
      BY <2>2 DEF IsrUnlink, IInv, SearchSound
    <3>2. ~(work.current = End /\ \A j \in DOMAIN order[ClassOf(work.idle)] :
                                    order[ClassOf(work.idle)][j] # work.idle)
      BY <2>0, <2>2, UnlinkUnlisted
    <3>3. \E k \in DOMAIN order[ClassOf(work.idle)] :
             order[ClassOf(work.idle)][k] = work.idle
      BY <2>2, <3>2, SearchEnds
    <3>4. order' = [order EXCEPT ![ClassOf(work.idle)] = PL!Without(@, work.idle)]
      BY <2>2 DEF IsrUnlink
    <3>5. /\ ClassOf(work.idle) = Links!ClassOf(work.idle)
          /\ \A s : PL!Without(s, work.idle) = Links!Without(s, work.idle)
      BY Zenon DEF Links!Without, PL!Without, ClassOf, PL!ClassOf, Links!ClassOf
    <3>6. work.idle \in Links!On(Links!ClassOf(work.idle))
      BY <2>0, <3>3, <3>5 DEF Links!On
    <3>7. Walked' = [Walked EXCEPT ![Links!ClassOf(work.idle)] =
                                      Links!Without(@, work.idle)]
      BY <2>0, <3>4, <3>5
    <3> QED BY <3>1, <3>6, <3>7, Zenon DEF Links!Next, Links!Take, HwVoices
  <2> QED BY <2>0, <2>1, <2>2 DEF Next, vars, device, VoiceEnds, Walk, IdleTrap,
                                  IsrPersistent, IsrEnter, IsrSearch
<1> QED BY Invariance, <1>1, <1>2, PTL DEF Spec, ImplementsList, Links!Spec

\* The repair of apu_isr, whatever list the idle voice is on and wherever the
\* VP's pointer stands, costs no other voice its turn in the pass under way and
\* gives none a second one.
THEOREM NoTurnLost == Spec => TurnsKept
<1> DEFINE A == pc = "search" /\ pc' = "out" =>
                  \A c \in Classes : Remaining(c)' = Remaining(c) \ {work.idle}
<1>1. IInv /\ IInv' /\ [Next]_vars => [A]_vars
  <2> SUFFICES ASSUME IInv, IInv', Next, pc = "search", pc' = "out",
                      NEW c \in Classes
               PROVE  Remaining(c)' = Remaining(c) \ {work.idle}
    OBVIOUS
  <2>1. IsrUnlink
    BY DEF Next, VoiceOn, VoiceEnds, Walk, IdleTrap, IsrPersistent, IsrEnter,
           IsrSearch
  <2> QED BY <2>1, UnlinkTurns
<1> QED BY <1>1, Invariance, PTL DEF Spec, TurnsKept
=============================================================================
