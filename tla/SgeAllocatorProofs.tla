-------------------------- MODULE SgeAllocatorProofs --------------------------
(***************************************************************************)
(* Proofs about SgeAllocator, for every number of voices and every size of *)
(* the bitmap: apu_sge_alloc never gives an entry to two voices, none is   *)
(* lost but at a shutdown, and its loops implement SgePool.                *)
(***************************************************************************)
EXTENDS SgeAllocator, TLAPS

\* The words of the bitmap are adjacent intervals of Entries.
LEMMA WordFacts ==
  ASSUME NEW d \in 0 .. Words - 1
  PROVE  /\ First(d) \in Nat /\ Last(d) \in Nat /\ First(d) <= Last(d)
         /\ Last(d) < Words * Width
         /\ First(d + 1) = Last(d) + 1
<1>1. d * Width \in Nat /\ d * Width + Width <= Words * Width
  <2>1. d \in Nat /\ Words \in Nat /\ Width \in Nat /\ d + 1 <= Words
    BY SgeAssumption
  <2>2. (d + 1) * Width <= Words * Width
    BY <2>1
  <2> QED BY <2>1, <2>2
<1>2. (d + 1) * Width = d * Width + Width
  BY SgeAssumption
<1> QED BY <1>1, <1>2, SgeAssumption DEF First, Last

\* A mask is not empty and stays within what is left to do.
LEMMA MaskFacts ==
  ASSUME TypeOK, left > 0
  PROVE  MaskLength \in 1 .. left
<1>1. at % Width \in 0 .. Width - 1
  BY SgeAssumption DEF TypeOK
<1> QED BY <1>1, SgeAssumption DEF TypeOK, MaskLength, RestOfWord

Covered == \A v \in Owners : Kept(v) \subseteq used

-----------------------------------------------------------------------------
(* The search touches neither the bitmap nor what the voices hold. *)

LEMMA SearchKeeps ==
  ASSUME SgeInv, UNCHANGED <<used, held>>, pc # "clear", pc' # "clear"
  PROVE  /\ NoSharing' /\ Covered'
         /\ \A v \in Owners : Kept(v)' = Kept(v)
<1>1. \A v \in Owners : Kept(v)' = Kept(v)
  BY DEF Kept, Span
<1> QED BY <1>1 DEF SgeInv, NoSharing, Covered

LEMMA InitStep == Init => SgeInv
<1> SUFFICES ASSUME Init PROVE SgeInv
  OBVIOUS
<1>1. TypeOK
  <2>1. Nothing \in [base : Nat, count : Nat] /\ 0 \in 0 .. Words
    BY SgeAssumption DEF Nothing
  <2> QED BY <2>1, SgeAssumption DEF Init, TypeOK
<1>2. \A v \in Owners : Kept(v) = {}
  <2>1. Span(Nothing) = {}
    BY DEF Span, Nothing
  <2>2. \A v \in Owners : held[v] = Nothing /\ Kept(v) = Span(held[v])
    BY DEF Init, Kept, Span
  <2> QED BY <2>1, <2>2
<1>3. NoSharing /\ Covered
  BY <1>2 DEF NoSharing, Covered
<1>4. CallSound /\ SearchSound
  BY SgeAssumption DEF Init, CallSound, SearchSound
<1> QED BY <1>1, <1>3, <1>4 DEF SgeInv, Covered

LEMMA SubmitStep ==
  ASSUME SgeInv, NEW v \in Owners, NEW n \in Counts \cup {0}, Submit(v, n),
         UNCHANGED lost
  PROVE  SgeInv'
<1> USE SgeAssumption DEF SgeInv
<1>0. n \in Nat /\ v # NoOwner
  BY DEF Counts
<1>1. TypeOK'
  BY <1>0 DEF TypeOK, Submit, searchVars, markVars
<1>2. \A w \in Owners : Kept(w)' = Kept(w)
  BY DEF TypeOK, Submit, Kept, Span
<1>3. NoSharing' /\ Covered'
  BY <1>2 DEF Submit, NoSharing, Covered
<1>4. CallSound'
  BY <1>0 DEF TypeOK, Submit, CallSound
<1>5. SearchSound'
  BY DEF Submit, SearchSound
<1> QED BY <1>1, <1>3, <1>4, <1>5 DEF Covered

LEMMA RestartStep ==
  ASSUME SgeInv, Restart
  PROVE  SgeInv'
<1> USE SgeAssumption DEF SgeInv
<1>1. TypeOK'
  <2>1. \A v \in Owners : Span(held[v]) \subseteq Entries
    BY DEF Restart, Kept, TypeOK
  <2>2. lost' \subseteq Entries
    BY <2>1 DEF Restart, TypeOK
  <2> QED BY <2>2 DEF TypeOK, Restart, Nothing, searchVars, markVars
<1>2. \A v \in Owners : Kept(v)' = {}
  BY DEF Restart, Kept, Span, Nothing
<1>3. NoSharing' /\ Covered'
  BY <1>2 DEF NoSharing, Covered
<1>4. CallSound' /\ SearchSound'
  BY DEF Restart, CallSound, SearchSound
<1> QED BY <1>1, <1>3, <1>4 DEF Covered

-----------------------------------------------------------------------------
(* apu_sge_free *)

LEMMA ClearStep ==
  ASSUME SgeInv, Clear, UNCHANGED lost
  PROVE  SgeInv'
<1> USE SgeAssumption DEF SgeInv
<1>0. owner \in Owners /\ left > 0 /\ MaskLength \in 1 .. left
  BY MaskFacts DEF Clear, CallSound, TypeOK
<1>1. CASE left > MaskLength /\ at' = at + MaskLength
           /\ left' = left - MaskLength
           /\ UNCHANGED <<held, pc, owner, count, searchVars>>
  <2>1. TypeOK'
    BY <1>0, <1>1 DEF Clear, TypeOK, searchVars
  <2>2. \A v \in Owners : Kept(v)' \subseteq Kept(v)
    BY <1>0, <1>1 DEF Clear, Kept, TypeOK
  <2>3. NoSharing'
    BY <2>2 DEF NoSharing
  <2>4. ASSUME NEW v \in Owners PROVE Kept(v)' \cap Mask = {}
    <3>1. CASE v = owner
      BY <1>0, <1>1, <3>1 DEF Clear, Kept, Mask, TypeOK
    <3>2. CASE v # owner
      <4>1. Mask \subseteq Kept(owner)
        BY <1>0 DEF Clear, Kept, Mask, TypeOK
      <4> QED BY <1>0, <2>2, <3>2, <4>1 DEF NoSharing
    <3> QED BY <3>1, <3>2
  <2>5. Covered'
    BY <2>2, <2>4 DEF Clear, Covered
  <2>6. CallSound'
    BY <1>0, <1>1 DEF Clear, CallSound, TypeOK
  <2>7. SearchSound'
    BY <1>1 DEF Clear, SearchSound
  <2> QED BY <2>1, <2>3, <2>5, <2>6, <2>7 DEF Covered
<1>2. CASE left = MaskLength
           /\ held' = [held EXCEPT ![owner] = Nothing]
           /\ \/ count = 0 /\ Return
              \/ /\ count > 0
                 /\ pc' = "scan" /\ at' = 0 /\ left' = 0
                 /\ UNCHANGED <<owner, count, searchVars>>
  <2>1. TypeOK'
    BY <1>0, <1>2 DEF Clear, Return, TypeOK, Nothing, searchVars
  <2>2. pc' # "clear"
    BY <1>2 DEF Return
  <2>3. \A v \in Owners \ {owner} : Kept(v)' = Kept(v)
    BY <1>0, <1>2, <2>2 DEF Clear, Kept, Span, TypeOK
  <2>4. /\ held'[owner].count = 0
        /\ \A v \in Owners : Kept(v)' = IF v = owner THEN {} ELSE Kept(v)
    <3>1. held'[owner] = Nothing
      BY <1>0, <1>2 DEF TypeOK
    <3>2. Span(held'[owner]) = {}
      BY <3>1 DEF Span, Nothing
    <3>3. \A v \in Owners : Kept(v)' = Span(held'[v])
      BY <2>2 DEF Kept, Span
    <3> QED BY <2>3, <3>1, <3>2, <3>3 DEF Nothing
  <2>5. NoSharing'
    BY <2>4 DEF NoSharing
  <2>6. Covered'
    <3>1. Mask \subseteq Kept(owner)
      BY <1>0 DEF Clear, Kept, Mask, TypeOK
    <3> QED BY <1>0, <2>4, <3>1 DEF Clear, Covered, NoSharing
  <2>7. CallSound'
    BY <1>0, <1>2, <2>4 DEF Clear, Return, CallSound, TypeOK
  <2>8. SearchSound'
    BY <1>2 DEF Return, SearchSound
  <2> QED BY <2>1, <2>5, <2>6, <2>7, <2>8 DEF Covered
<1> QED BY <1>1, <1>2 DEF Clear

-----------------------------------------------------------------------------
(* apu_sge_alloc *)

LEMMA ScanFullStep ==
  ASSUME SgeInv, ScanFull, UNCHANGED lost
  PROVE  SgeInv'
<1>1. TypeOK'
  BY SgeAssumption DEF SgeInv, TypeOK, ScanFull, markVars
<1>2. NoSharing' /\ Covered'
  BY SearchKeeps DEF ScanFull
<1>3. CallSound' /\ SearchSound'
  BY DEF SgeInv, ScanFull, CallSound, SearchSound
<1> QED BY <1>1, <1>2, <1>3 DEF SgeInv, Covered

LEMMA GiveUpStep ==
  ASSUME SgeInv, pc \in {"scan", "extend"}, GiveUp, UNCHANGED lost
  PROVE  SgeInv'
<1>1. TypeOK'
  BY SgeAssumption DEF SgeInv, TypeOK, GiveUp, Return
<1>2. NoSharing' /\ Covered'
  BY SearchKeeps DEF GiveUp, Return
<1>3. CallSound' /\ SearchSound'
  BY SgeAssumption DEF SgeInv, GiveUp, Return, CallSound, SearchSound
<1> QED BY <1>1, <1>2, <1>3 DEF SgeInv, Covered

LEMMA ExtendBlockedStep ==
  ASSUME SgeInv, ExtendBlocked, UNCHANGED lost
  PROVE  SgeInv'
<1>1. TypeOK'
  BY SgeAssumption DEF SgeInv, TypeOK, ExtendBlocked, markVars
<1>2. NoSharing' /\ Covered'
  BY SearchKeeps DEF ExtendBlocked
<1>3. CallSound' /\ SearchSound'
  BY DEF SgeInv, ExtendBlocked, CallSound, SearchSound
<1> QED BY <1>1, <1>2, <1>3 DEF SgeInv, Covered

\* A free run of at least `count` entries that ends within word d is fit to
\* be marked.
LEMMA FoundSound ==
  ASSUME SgeInv, UNCHANGED <<used, held, owner, count>>,
         pc \in {"scan", "extend"}, NEW d \in 0 .. Words - 1,
         NEW s \in Nat, NEW e \in WordBits(d),
         s .. e \cap used = {}, e - s + 1 >= count,
         start' = s, pc' = "mark", at' = s, left' = count
  PROVE  SearchSound'
<1>1. /\ First(d) \in Nat /\ Last(d) \in Nat /\ Last(d) < Words * Width
      /\ e \in Nat /\ e <= Last(d)
  BY WordFacts DEF WordBits
<1>2. count \in Nat /\ count > 0
  BY DEF SgeInv, TypeOK, CallSound
<1>3. Words * Width \in Nat
  BY SgeAssumption
<1>4. s .. s + count - 1 \subseteq s .. e
  BY <1>1, <1>2
<1>5. s .. s + count - 1 \subseteq Entries \ used
  BY <1>1, <1>2, <1>3, <1>4 DEF Entries
<1>6. s .. s - 1 = {}
  OBVIOUS
<1> QED BY <1>2, <1>5, <1>6 DEF SearchSound, Entries

LEMMA ScanWordStep ==
  ASSUME SgeInv, ScanWord, UNCHANGED lost
  PROVE  SgeInv'
<1> USE SgeAssumption DEF SgeInv
<1>0. dword \in 0 .. Words - 1
  BY DEF ScanWord, TypeOK
<1>1. PICK s \in WordBits(dword), e \in WordBits(dword) :
        /\ s <= e /\ RunEnds(s, e, dword)
        /\ start' = s /\ run' = e - s + 1
        /\ \/ run' >= count /\ Found(s)
           \/ /\ run' < count /\ e = Last(dword)
              /\ pc' = "extend"
              /\ UNCHANGED <<dword, markVars>>
           \/ /\ run' < count /\ e # Last(dword)
              /\ dword' = dword + 1
              /\ UNCHANGED <<pc, markVars>>
  BY DEF ScanWord
<1>2. s \in Nat /\ e \in Nat /\ e - s + 1 \in Nat
  BY <1>0, <1>1, WordFacts DEF WordBits
<1>3. TypeOK'
  BY <1>0, <1>1, <1>2 DEF TypeOK, ScanWord, Found, markVars
<1>4. NoSharing' /\ Covered'
  <2>1. pc # "clear" /\ pc' # "clear" /\ UNCHANGED <<used, held>>
    BY <1>1 DEF ScanWord, Found
  <2> QED BY <2>1, SearchKeeps
<1>5. CallSound'
  BY <1>1 DEF CallSound, ScanWord, Found
<1>6. SearchSound'
  <2>1. CASE run' >= count /\ Found(s)
    <3>1. UNCHANGED <<used, held, owner, count>> /\ pc = "scan"
      BY DEF ScanWord
    <3>2. s .. e \cap used = {} /\ e - s + 1 >= count
      BY <1>1, <2>1 DEF RunEnds
    <3>3. start' = s /\ pc' = "mark" /\ at' = s /\ left' = count
      BY <1>1, <2>1 DEF Found
    <3> QED BY <1>0, <1>1, <1>2, <3>1, <3>2, <3>3, FoundSound
  <2>2. CASE run' < count /\ e = Last(dword) /\ pc' = "extend"
             /\ UNCHANGED <<dword, markVars>>
    BY <1>0, <1>1, <2>2 DEF SearchSound, ScanWord, RunEnds, Last
  <2>3. CASE run' < count /\ e # Last(dword) /\ dword' = dword + 1
             /\ UNCHANGED <<pc, markVars>>
    BY <2>3 DEF SearchSound, ScanWord
  <2> QED BY <1>1, <2>1, <2>2, <2>3
<1> QED BY <1>3, <1>4, <1>5, <1>6 DEF Covered
LEMMA ExtendWordStep ==
  ASSUME SgeInv, ExtendWord, UNCHANGED lost
  PROVE  SgeInv'
<1> USE SgeAssumption DEF SgeInv
<1> DEFINE d == dword + 1
<1>0. dword \in 0 .. Words - 1 /\ d \in 0 .. Words - 1
  BY DEF ExtendWord, TypeOK
<1>1. PICK e \in WordBits(d) :
        /\ RunEnds(First(d), e, d)
        /\ \/ /\ e - start + 1 >= count /\ run' = e - start + 1
              /\ pc' = "mark" /\ at' = start /\ left' = count
           \/ /\ e - start + 1 < count /\ e = Last(d)
              /\ run' = e - start + 1
              /\ UNCHANGED <<pc, markVars>>
           \/ /\ e - start + 1 < count /\ e # Last(d)
              /\ run' = 0 /\ pc' = "scan"
              /\ UNCHANGED markVars
  BY DEF ExtendWord
<1>2. /\ First(d) = Last(dword) + 1 /\ First(d) \in Nat /\ Last(d) \in Nat
      /\ Last(dword) \in Nat /\ First(d) <= Last(d)
      /\ start \in Nat /\ start <= Last(dword)
      /\ e \in Nat /\ First(d) <= e
  BY <1>0, WordFacts DEF WordBits, SearchSound, ExtendWord, TypeOK
<1>3. start .. e \cap used = {}
  <2>1. \A x \in start .. e : x \in start .. Last(dword) \/ x \in First(d) .. e
    BY <1>2
  <2> QED BY <1>1, <2>1 DEF RunEnds, SearchSound, ExtendWord
<1>4. e - start + 1 \in Nat
  BY <1>2
<1>5. TypeOK'
  BY <1>0, <1>1, <1>4 DEF TypeOK, ExtendWord, markVars
<1>6. NoSharing' /\ Covered'
  <2>1. pc # "clear" /\ pc' # "clear" /\ UNCHANGED <<used, held>>
    BY <1>1 DEF ExtendWord
  <2> QED BY <2>1, SearchKeeps
<1>7. CallSound'
  BY <1>1 DEF CallSound, ExtendWord
<1>8. SearchSound'
  <2>1. CASE /\ e - start + 1 >= count /\ pc' = "mark"
             /\ at' = start /\ left' = count
    <3>1. /\ UNCHANGED <<used, held, owner, count>> /\ pc = "extend"
          /\ start' = start
      BY DEF ExtendWord
    <3> QED BY <1>0, <1>1, <1>2, <1>3, <2>1, <3>1, FoundSound
  <2>2. CASE e = Last(d) /\ UNCHANGED <<pc, markVars>>
    <3>1. dword' < Words /\ Last(dword)' = e /\ start' = start /\ used' = used
      BY <1>0, <2>2 DEF ExtendWord, Last
    <3>2. pc' = "extend" /\ start <= e
      BY <1>2, <2>2 DEF ExtendWord
    <3> QED BY <1>3, <3>1, <3>2 DEF SearchSound
  <2>3. CASE pc' = "scan"
    BY <2>3 DEF SearchSound
  <2> QED BY <1>1, <2>1, <2>2, <2>3
<1> QED BY <1>5, <1>6, <1>7, <1>8 DEF Covered

LEMMA MarkStep ==
  ASSUME SgeInv, Mark, UNCHANGED lost
  PROVE  SgeInv'
<1> USE SgeAssumption DEF SgeInv
<1>0. /\ owner \in Owners /\ left > 0 /\ MaskLength \in 1 .. left
      /\ start <= at /\ at + left = start + count
      /\ at \in Nat /\ left \in Nat /\ start \in Nat /\ count \in Nat
  BY MaskFacts DEF Mark, CallSound, SearchSound, TypeOK
<1>1. Mask \subseteq at .. at + left - 1
  BY <1>0 DEF Mask
<1>2. /\ used' = used \cup Mask /\ Mask \subseteq Entries \ used
      /\ start .. at - 1 \subseteq used
      /\ \A v \in Owners : start .. at - 1 \cap Kept(v) = {}
  BY <1>1 DEF Mark, SearchSound
<1>3. \A v \in Owners : Mask \cap Kept(v) = {}
  BY <1>2
<1>4. start .. at + MaskLength - 1 = (start .. at - 1) \cup Mask
  BY <1>0 DEF Mask
<1>5. CASE left > MaskLength /\ at' = at + MaskLength
           /\ left' = left - MaskLength
           /\ UNCHANGED <<held, refused, pc, owner, count, searchVars>>
  <2>1. TypeOK'
    BY <1>0, <1>2, <1>5 DEF TypeOK, searchVars
  <2>2. \A v \in Owners : Kept(v)' = Kept(v)
    BY <1>5 DEF Mark, Kept, Span
  <2>3. NoSharing' /\ Covered'
    BY <1>2, <2>2 DEF NoSharing, Covered
  <2>4. CallSound'
    BY <1>5 DEF Mark, CallSound
  <2>5. SearchSound'
    <3>1. /\ left' > 0 /\ start <= at' /\ at' + left' = start + count
          /\ start' = start /\ count' = count /\ pc' = "mark"
      BY <1>0, <1>5 DEF Mark, searchVars
    <3>2. at' .. at' + left' - 1 \subseteq Entries \ used'
      <4>1. \A x \in at' .. at' + left' - 1 :
              x \in at .. at + left - 1 /\ x \notin Mask
        BY <1>0, <1>5 DEF Mask
      <4> QED BY <1>2, <4>1 DEF Mark, SearchSound
    <3>3. start .. at' - 1 = (start .. at - 1) \cup Mask
      BY <1>0, <1>5 DEF Mask
    <3>4. start .. at' - 1 \subseteq used'
      BY <1>2, <3>3
    <3>5. \A v \in Owners : start .. at' - 1 \cap Kept(v)' = {}
      BY <1>2, <1>3, <2>2, <3>3
    <3> QED BY <3>1, <3>2, <3>4, <3>5 DEF SearchSound, Entries
  <2> QED BY <2>1, <2>3, <2>4, <2>5 DEF Covered
<1>6. CASE left = MaskLength
           /\ held' = [held EXCEPT ![owner] = [base |-> start, count |-> count]]
           /\ refused' = FALSE /\ Return
  <2>1. TypeOK'
    <3>1. 0 \in 0 .. Words /\ used' \subseteq Entries
      BY <1>2 DEF TypeOK
    <3>2. held' \in [Owners -> [base : Nat, count : Nat]]
      BY <1>0, <1>6 DEF TypeOK
    <3> QED BY <1>6, <3>1, <3>2 DEF TypeOK, Return
  <2>2. pc' = "idle" /\ owner' = NoOwner
    BY <1>6 DEF Return
  <2>3. \A v \in Owners \ {owner} : Kept(v)' = Kept(v)
    BY <1>0, <1>6, <2>2 DEF Mark, Kept, Span, TypeOK
  <2>4. \A v \in Owners : v = owner => Kept(v)' = (start .. at - 1) \cup Mask
    <3>1. held'[owner] = [base |-> start, count |-> count]
      BY <1>0, <1>6 DEF TypeOK
    <3>2. \A v \in Owners : Kept(v)' = Span(held'[v])
      BY <2>2 DEF Kept, Span
    <3>3. Span(held'[owner]) = start .. at + MaskLength - 1
      BY <1>0, <1>6, <3>1 DEF Span
    <3> QED BY <1>4, <3>2, <3>3
  <2>5. NoSharing'
    BY <1>0, <1>2, <1>3, <2>3, <2>4 DEF NoSharing
  <2>6. Covered'
    BY <1>0, <1>2, <2>3, <2>4 DEF Covered
  <2>7. CallSound' /\ SearchSound'
    BY <2>2 DEF CallSound, SearchSound
  <2> QED BY <2>1, <2>5, <2>6, <2>7 DEF Covered
<1> QED BY <1>5, <1>6 DEF Mark

-----------------------------------------------------------------------------
LEMMA StutterStep ==
  ASSUME SgeInv, UNCHANGED vars
  PROVE  SgeInv'
BY DEF SgeInv, TypeOK, NoSharing, Kept, CallSound, SearchSound, vars,
       searchVars, markVars

LEMMA NextStep == SgeInv /\ [Next]_vars => SgeInv'
<1> SUFFICES ASSUME SgeInv, [Next]_vars PROVE SgeInv'
  OBVIOUS
<1>1. ASSUME NEW v \in Owners, NEW n \in Counts \cup {0}, Submit(v, n),
             UNCHANGED lost
      PROVE  SgeInv'
  BY <1>1, SubmitStep
<1>2. CASE Restart     BY <1>2, RestartStep
<1>3. ASSUME Call, UNCHANGED lost PROVE SgeInv'
  <2>1. CASE Clear       BY <1>3, <2>1, ClearStep
  <2>2. CASE ScanFull    BY <1>3, <2>2, ScanFullStep
  <2>3. CASE ScanWord    BY <1>3, <2>3, ScanWordStep
  <2>4. CASE ScanFails   BY <1>3, <2>4, GiveUpStep DEF ScanFails
  <2>5. CASE ExtendFails BY <1>3, <2>5, GiveUpStep DEF ExtendFails
  <2>6. CASE ExtendBlocked  BY <1>3, <2>6, ExtendBlockedStep
  <2>7. CASE ExtendWord  BY <1>3, <2>7, ExtendWordStep
  <2>8. CASE Mark        BY <1>3, <2>8, MarkStep
  <2> QED
    BY <1>1, <1>3, <2>1, <2>2, <2>3, <2>4, <2>5, <2>6, <2>7, <2>8 DEF Call
<1>4. CASE UNCHANGED vars BY <1>4, StutterStep
<1> QED
  BY <1>2, <1>3, <1>4 DEF Next

-----------------------------------------------------------------------------
(* No entry is lost *)

\* A mask of apu_sge_free lies in the range being given back, and one of
\* apu_sge_alloc extends the range being marked.
LEMMA ClearKept ==
  ASSUME SgeInv, Clear
  PROVE  \A v \in Owners : Kept(v)' = Kept(v) \ Mask
<1> USE SgeAssumption DEF SgeInv
<1>0. /\ owner \in Owners /\ left > 0 /\ MaskLength \in 1 .. left
      /\ at \in Nat /\ left \in Nat /\ pc = "clear"
  BY MaskFacts DEF Clear, CallSound, TypeOK
<1>1. Mask \subseteq Kept(owner)
  BY <1>0 DEF Kept, Mask
<1>2. \A v \in Owners \ {owner} : Kept(v) = Span(held[v]) /\ Kept(v) \cap Mask = {}
  BY <1>0, <1>1 DEF NoSharing, Kept, Span
<1>3. \A v \in Owners \ {owner} : held'[v] = held[v]
  BY DEF Clear, TypeOK
<1>4. \A v \in Owners \ {owner} : Kept(v)' = Span(held'[v])
  BY <1>0, SgeAssumption DEF Clear, Return, Kept, Span
<1>5. \A v \in Owners : v = owner => Kept(v)' = Kept(v) \ Mask
  <2>1. CASE left > MaskLength /\ at' = at + MaskLength
             /\ left' = left - MaskLength /\ UNCHANGED <<pc, owner>>
    <3>1. at' .. at' + left' - 1 = (at .. at + left - 1) \ Mask
      BY <1>0, <2>1 DEF Mask
    <3> QED BY <1>0, <2>1, <3>1 DEF Kept
  <2>2. CASE left = MaskLength /\ held' = [held EXCEPT ![owner] = Nothing]
             /\ pc' # "clear"
    <3>1. at .. at + left - 1 = Mask
      BY <1>0, <2>2 DEF Mask
    <3>2. \A v \in Owners : Kept(v)' = Span(held'[v])
      BY <2>2 DEF Kept, Span
    <3>3. Span(held'[owner]) = {}
      <4>1. held'[owner] = Nothing
        BY <1>0, <2>2 DEF TypeOK
      <4> QED BY <4>1 DEF Span, Nothing
    <3> QED BY <1>0, <3>1, <3>2, <3>3 DEF Kept
  <2> QED BY <2>1, <2>2 DEF Clear, Return
<1> QED BY <1>2, <1>3, <1>4, <1>5 DEF Span

LEMMA MarkKept ==
  ASSUME SgeInv, Mark
  PROVE  /\ pc' = "mark" => /\ \A v \in Owners : Kept(v)' = Kept(v)
                            /\ start' .. at' - 1 = (start .. at - 1) \cup Mask
         /\ pc' # "mark" =>
              \A v \in Owners : Kept(v)' = IF v = owner
                                            THEN (start .. at - 1) \cup Mask
                                            ELSE Kept(v)
         /\ Kept(owner) = {} /\ owner \in Owners
<1> USE SgeAssumption DEF SgeInv
<1>0. /\ owner \in Owners /\ left > 0 /\ MaskLength \in 1 .. left
      /\ start <= at /\ at + left = start + count
      /\ at \in Nat /\ left \in Nat /\ start \in Nat /\ count \in Nat
      /\ pc = "mark" /\ held[owner].count = 0 /\ held[owner].base \in Nat
  BY MaskFacts DEF Mark, CallSound, SearchSound, TypeOK
<1>1. start .. at + MaskLength - 1 = (start .. at - 1) \cup Mask
  BY <1>0 DEF Mask
<1>2. Kept(owner) = {}
  BY <1>0 DEF Kept, Span
<1>3. CASE at' = at + MaskLength /\ UNCHANGED <<held, pc, owner, start>>
  <2>1. \A v \in Owners : Kept(v)' = Kept(v)
    BY <1>0, <1>3 DEF Kept, Span
  <2>2. start' .. at' - 1 = (start .. at - 1) \cup Mask
    BY <1>0, <1>3 DEF Mask
  <2> QED BY <1>0, <1>2, <1>3, <2>1, <2>2
<1>4. CASE left = MaskLength /\ pc' = "idle"
           /\ held' = [held EXCEPT ![owner] = [base |-> start, count |-> count]]
  <2>1. \A v \in Owners : Kept(v)' = Span(held'[v])
    BY <1>4 DEF Kept, Span
  <2>2. \A v \in Owners \ {owner} : held'[v] = held[v] /\ Kept(v) = Span(held[v])
    BY <1>0, <1>4 DEF Kept, TypeOK, Span
  <2>3. Span(held'[owner]) = (start .. at - 1) \cup Mask
    <3>1. held'[owner] = [base |-> start, count |-> count]
      BY <1>0, <1>4 DEF TypeOK
    <3> QED BY <1>0, <1>1, <1>4, <3>1 DEF Span
  <2> QED BY <1>0, <1>2, <1>4, <2>1, <2>2, <2>3 DEF Span
<1> QED BY <1>3, <1>4 DEF Mark, Return, searchVars

\* What a shutdown has lost stays marked: apu_sge_alloc cannot find it.
LostMarked == lost \subseteq used

LEMMA AccountedStep ==
  ASSUME SgeInv, EntriesAccounted, LostMarked, Call, UNCHANGED lost
  PROVE  EntriesAccounted' /\ LostMarked'
<1>1. ASSUME UNCHANGED <<used, held>>, \A v \in Owners : Kept(v)' = Kept(v),
             pc # "mark", pc' = "mark" => start' .. at' - 1 = {}
      PROVE  EntriesAccounted' /\ LostMarked'
  BY <1>1 DEF EntriesAccounted, LostMarked
<1>2. CASE \E v \in Owners, n \in Counts \cup {0} : Submit(v, n)
  <2>1. \A w \in Owners : Kept(w)' = Kept(w)
    BY <1>2 DEF SgeInv, TypeOK, Submit, Kept, Span
  <2> QED BY <1>1, <1>2, <2>1 DEF Submit
<1>4. CASE Clear
  <2>1. /\ \A v \in Owners : Kept(v)' = Kept(v) \ Mask
        /\ used' = used \ Mask /\ pc = "clear" /\ pc' # "mark"
    BY <1>4, ClearKept, SgeAssumption DEF Clear, Return
  <2>2. used \ lost = UNION {Kept(v) : v \in Owners}
    BY <2>1 DEF EntriesAccounted
  <2>3. EntriesAccounted'
    BY <2>1, <2>2 DEF EntriesAccounted
  <2>4. Mask \subseteq Kept(owner) /\ owner \in Owners
    <3>1. /\ owner \in Owners /\ left > 0 /\ MaskLength \in 1 .. left
          /\ at \in Nat /\ left \in Nat
      BY <2>1, MaskFacts, SgeAssumption DEF SgeInv, CallSound, TypeOK
    <3> QED BY <2>1, <3>1 DEF Kept, Mask
  <2>5. Mask \cap lost = {}
    BY <2>2, <2>4
  <2> QED BY <2>1, <2>3, <2>5 DEF LostMarked
<1>5. ASSUME pc \in {"scan", "extend"}, pc' # "clear", UNCHANGED <<used, held>>,
             pc' = "mark" => at' = start' /\ start' \in Nat
      PROVE  EntriesAccounted' /\ LostMarked'
  <2>1. \A v \in Owners : Kept(v)' = Kept(v)
    BY <1>5, SearchKeeps
  <2>2. pc' = "mark" => start' .. at' - 1 = {}
    BY <1>5
  <2> QED BY <1>1, <1>5, <2>1, <2>2
<1>6. start' \in Nat
  BY NextStep DEF SgeInv, TypeOK, Next
<1>7. CASE ScanFull     BY <1>5, <1>7 DEF ScanFull
<1>8. CASE ScanWord     BY <1>5, <1>6, <1>8 DEF ScanWord, Found
<1>9. CASE ScanFails    BY <1>5, <1>9 DEF ScanFails, GiveUp, Return
<1>10. CASE ExtendFails BY <1>5, <1>10 DEF ExtendFails, GiveUp, Return
<1>11. CASE ExtendBlocked BY <1>5, <1>11 DEF ExtendBlocked
<1>12. CASE ExtendWord  BY <1>5, <1>6, <1>12 DEF ExtendWord
<1>13. CASE Mark
  <2>0. /\ used' = used \cup Mask /\ pc = "mark"
        /\ \A x : x \in used \ lost <=> \/ \E v \in Owners : x \in Kept(v)
                                       \/ x \in start .. at - 1
    <3>1. used' = used \cup Mask /\ pc = "mark"
      BY <1>13 DEF Mark
    <3>2. used \ lost = (UNION {Kept(v) : v \in Owners}) \cup (start .. at - 1)
      BY <3>1, Zenon DEF EntriesAccounted
    <3> QED BY <3>1, <3>2, Zenon
  <2>3. LostMarked' /\ (used \ lost)' = (used \ lost) \cup Mask
    <3>1. Mask \cap used = {}
      <4>1. /\ left > 0 /\ MaskLength \in 1 .. left /\ at \in Nat /\ left \in Nat
            /\ at .. at + left - 1 \subseteq Entries \ used
        BY <2>0, MaskFacts, SgeAssumption DEF SgeInv, SearchSound, TypeOK
      <4> QED BY <4>1 DEF Mask
    <3> QED BY <2>0, <3>1 DEF LostMarked
  <2>1. CASE pc' = "mark"
    <3>1. /\ \A v \in Owners : Kept(v)' = Kept(v)
          /\ start' .. at' - 1 = (start .. at - 1) \cup Mask
      BY <1>13, <2>1, MarkKept
    <3>2. \A x : x \in (used \ lost)' <=> \/ \E v \in Owners : x \in Kept(v)'
                                       \/ x \in start' .. at' - 1
      BY <2>0, <2>3, <3>1
    <3>3. (used \ lost)' = (UNION {Kept(v)' : v \in Owners}) \cup (start' .. at' - 1)
      BY <3>2, Zenon
    <3>4. EntriesAccounted'
      BY <2>1, <3>3, Zenon DEF EntriesAccounted
    <3> QED BY <2>3, <3>4
  <2>2. CASE pc' # "mark"
    <3>1. /\ \A v \in Owners : Kept(v)' = IF v = owner
                                        THEN (start .. at - 1) \cup Mask
                                        ELSE Kept(v)
          /\ Kept(owner) = {} /\ owner \in Owners
      BY <1>13, <2>2, MarkKept
    <3>2. \A x : x \in (used \ lost)' <=> \E v \in Owners : x \in Kept(v)'
      <4>1. ASSUME NEW x, NEW v \in Owners, x \in Kept(v)'
            PROVE  x \in (used \ lost)'
        BY <2>0, <2>3, <3>1, <4>1
      <4>2. ASSUME NEW x, x \in (used \ lost)'
            PROVE  \E v \in Owners : x \in Kept(v)'
        <5>1. CASE \E v \in Owners : x \in Kept(v)
          BY <3>1, <5>1
        <5>2. CASE x \in (start .. at - 1) \cup Mask
          BY <3>1, <5>2
        <5> QED BY <2>0, <2>3, <4>2, <5>1, <5>2
      <4> QED BY <4>1, <4>2
    <3>3. EntriesAccounted'
      BY <2>2, <3>2 DEF EntriesAccounted
    <3> QED BY <2>3, <3>3
  <2> QED BY <2>1, <2>2, <2>3
<1> QED
  BY <1>2, <1>4, <1>7, <1>8, <1>9, <1>10, <1>11, <1>12, <1>13 DEF Call

LEMMA RestartAccounted ==
  ASSUME SgeInv, EntriesAccounted, LostMarked, Restart
  PROVE  EntriesAccounted' /\ LostMarked'
<1>1. /\ \A v \in Owners : Kept(v) = Span(held[v])
      /\ \A v \in Owners : Kept(v)' = {}
      /\ pc = "idle" /\ pc' = "idle" /\ used' = used
      /\ lost' = lost \cup UNION {Span(held[v]) : v \in Owners}
  BY DEF Restart, Kept, Span, Nothing
<1>2. used \ lost = UNION {Kept(v) : v \in Owners}
  BY <1>1 DEF EntriesAccounted
<1>3. \A x : x \in lost' <=> x \in lost \/ \E v \in Owners : x \in Kept(v)
  BY <1>1
<1>4. \A x : x \in lost' <=> x \in used
  BY <1>2, <1>3 DEF LostMarked
<1>5. lost' = used'
  BY <1>1, <1>4
<1> QED BY <1>1, <1>5 DEF EntriesAccounted, LostMarked

LEMMA InitAccounted == Init => EntriesAccounted /\ LostMarked
<1> SUFFICES ASSUME Init PROVE EntriesAccounted /\ LostMarked
  OBVIOUS
<1>1. Span(Nothing) = {}
  BY DEF Span, Nothing
<1>2. \A v \in Owners : Kept(v) = {}
  <2>1. \A v \in Owners : held[v] = Nothing /\ Kept(v) = Span(held[v])
    BY DEF Init, Kept, Span
  <2> QED BY <1>1, <2>1
<1> QED BY <1>2 DEF EntriesAccounted, LostMarked, Init

-----------------------------------------------------------------------------
\* Whatever voices are created and destroyed, and even over a shutdown, the
\* ranges apu_sge_alloc hands out stay disjoint and inside the bitmap.
THEOREM NoEntryShared == Spec => [](NoSharing /\ TypeOK)
<1>1. SgeInv => NoSharing /\ TypeOK
  BY DEF SgeInv
<1> QED BY InitStep, NextStep, <1>1, PTL DEF Spec

-----------------------------------------------------------------------------
(* The loops of apu_sge_alloc implement SgePool *)

\* At the end of a call's release the bitmap is what SgePool knows as taken.
LEMMA TakenIsUsed ==
  ASSUME EntriesAccounted, LostMarked, pc \in {"scan", "extend"}
  PROVE  Pool!Taken = used
<1>1. \A v \in Owners : Kept(v) = Span(held[v])
  BY DEF Kept, Span
<1>2. used \ lost = UNION {Span(held[v]) : v \in Owners}
  BY <1>1 DEF EntriesAccounted
<1> QED BY <1>2 DEF LostMarked, Pool!Taken, Pool!Span, Span

\* Nothing is taken or given back while a request is served.
LEMMA TakenKept ==
  ASSUME UNCHANGED <<held, lost>>
  PROVE  /\ Pool!Taken' = Pool!Taken
         /\ \A s : Pool!FirstFreeOfWord(s)' = Pool!FirstFreeOfWord(s)
         /\ \A s, n : Pool!Fits(s, n)' = Pool!Fits(s, n)
BY DEF Pool!Taken, Pool!Span, Pool!FirstFreeOfWord, Pool!Fits, Pool!Entries

\* The entries of word d are those whose quotient by Width is d.
LEMMA WordOfEntry ==
  ASSUME NEW d \in 0 .. Words - 1, NEW x \in Nat
  PROVE  x \in WordBits(d) <=> x \div Width = d
<1> DEFINE q == x \div Width
           r == x % Width
<1>1. q \in Nat /\ r \in 0 .. Width - 1 /\ x = Width * q + r
  BY SgeAssumption
<1>2. d \in Nat /\ Width \in Nat \ {0}
  BY SgeAssumption
<1>3. ASSUME q < d PROVE x < d * Width
  <2>1. (q + 1) * Width <= d * Width
    BY <1>1, <1>2, <1>3
  <2> HIDE DEF q, r
  <2> QED BY <1>1, <1>2, <2>1
<1>4. ASSUME q > d PROVE x >= d * Width + Width
  <2>1. (d + 1) * Width <= q * Width
    BY <1>1, <1>2, <1>4
  <2> HIDE DEF q, r
  <2> QED BY <1>1, <1>2, <2>1
<1> HIDE DEF q, r
<1>5. q = d => x \in WordBits(d)
  BY <1>1, <1>2 DEF WordBits, First, Last
<1>6. d * Width \in Nat
  BY <1>2
<1>7. x \in WordBits(d) => q = d
  BY <1>1, <1>2, <1>3, <1>4, <1>6 DEF WordBits, First, Last
<1> QED BY <1>5, <1>7 DEF q
\* Where the first free entry of a word is; no other entry of it is granted.
LEMMA FirstOfWord ==
  ASSUME NEW d \in 0 .. Words - 1, NEW s \in WordBits(d),
         s \notin Pool!Taken, First(d) .. s - 1 \subseteq Pool!Taken
  PROVE  /\ Pool!FirstFreeOfWord(s)
         /\ \A t \in WordBits(d) : t # s => ~Pool!Fits(t, count)
<1>1. /\ First(d) \in Nat /\ Last(d) \in Nat /\ s \in Nat
      /\ First(d) <= s /\ s <= Last(d)
      /\ Last(d) < Words * Width /\ Words * Width \in Nat
  BY WordFacts, SgeAssumption DEF WordBits
<1>2. s \in Pool!Entries \ Pool!Taken /\ s \div Width = d
  BY <1>1, WordOfEntry DEF Pool!Entries
<1>3. ASSUME NEW t \in Pool!Entries \ Pool!Taken, t \div Width = d
      PROVE  s <= t
  <2>1. t \in Nat /\ t \in WordBits(d)
    BY <1>3, WordOfEntry DEF Pool!Entries
  <2>2. First(d) <= t /\ t \notin First(d) .. s - 1
    BY <1>1, <2>1 DEF WordBits
  <2> QED BY <1>1, <2>1, <2>2
<1>4. Pool!FirstFreeOfWord(s)
  BY <1>2, <1>3 DEF Pool!FirstFreeOfWord
<1>5. ASSUME NEW t \in WordBits(d), t # s, Pool!FirstFreeOfWord(t)
      PROVE  FALSE
  <2>1. t \in Nat
    BY <1>1 DEF WordBits
  <2>2. t \div Width = d
    BY <2>1, WordOfEntry
  <2>3. t <= s /\ s <= t
    BY <1>2, <1>4, <1>5, <2>2 DEF Pool!FirstFreeOfWord
  <2> QED BY <1>1, <1>5, <2>1, <2>3
<1> QED BY <1>4, <1>5 DEF Pool!Fits

\* A request that starts in s .. e needs the entry after e, if it would have
\* done so from s.
LEMMA ShortRunFails ==
  ASSUME NEW s \in Nat, NEW e \in Nat, NEW t \in s .. e, count \in Nat,
         e - s + 1 < count, e + 1 \notin Pool!Entries \ Pool!Taken
  PROVE  ~Pool!Fits(t, count)
<1>1. e + 1 \in t .. t + count - 1
  OBVIOUS
<1> QED BY <1>1 DEF Pool!Fits


\* A call begins its search at the first entry.
LEMMA SubmitSearch ==
  ASSUME PoolInv, NEW v \in Owners, NEW n \in Counts \cup {0}, Submit(v, n)
  PROVE  HoldsOrNothing' /\ SearchComplete'
<1>1. HoldsOrNothing'
  BY DEF Submit, PoolInv, HoldsOrNothing, Nothing, Counts
<1>2. dword' = 0 /\ pc' \in {"clear", "scan"}
  BY DEF Submit, searchVars, PoolInv, SearchComplete
<1>3. First(0) = 0 /\ 0 .. 0 - 1 = {}
  BY SgeAssumption DEF First
<1>4. SearchComplete'
  <2>1. First(dword)' = 0
    BY <1>2, <1>3 DEF First
  <2> QED BY <1>2, <1>3, <2>1 DEF SearchComplete, NoneFitsBefore
<1> QED BY <1>1, <1>4

LEMMA RestartSearch ==
  ASSUME PoolInv, Restart
  PROVE  HoldsOrNothing' /\ SearchComplete'
BY DEF Restart, PoolInv, HoldsOrNothing, SearchComplete, Nothing, Counts,
       searchVars

LEMMA ClearSearch ==
  ASSUME PoolInv, Clear
  PROVE  HoldsOrNothing' /\ SearchComplete'
<1> USE DEF PoolInv
<1>0. owner \in Owners /\ held \in [Owners -> [base : Nat, count : Nat]]
  BY DEF Clear, SgeInv, CallSound, TypeOK
<1>1. dword = 0 /\ dword' = 0 /\ pc' \in {"idle", "clear", "scan"}
  BY DEF Clear, Return, searchVars, SearchComplete
<1>2. HoldsOrNothing'
  BY <1>0 DEF Clear, Return, HoldsOrNothing, Nothing, Counts
<1>3. First(0) = 0 /\ 0 .. 0 - 1 = {}
  BY SgeAssumption DEF First
<1>4. First(dword)' = 0
  BY <1>1, <1>3 DEF First
<1> QED BY <1>1, <1>2, <1>3, <1>4 DEF SearchComplete, NoneFitsBefore

\* The words of the bitmap that the search leaves behind.
LEMMA NextWord ==
  ASSUME PoolInv, UNCHANGED <<held, lost, count>>, NEW d \in 0 .. Words - 1,
         NoneFitsBefore(First(d)), dword' = d + 1, pc' = "scan",
         \A t \in WordBits(d) : ~Pool!Fits(t, count)
  PROVE  SearchComplete'
<1>1. /\ First(d) \in Nat /\ Last(d) \in Nat /\ First(d) <= Last(d)
      /\ First(d + 1) = Last(d) + 1
  BY WordFacts
<1>2. First(dword)' = Last(d) + 1
  BY <1>1 DEF First
<1>3. \A t \in 0 .. Last(d) : ~Pool!Fits(t, count)
  BY <1>1 DEF NoneFitsBefore, WordBits
<1>4. \A t \in 0 .. Last(d) : ~Pool!Fits(t, count)'
  BY <1>3, TakenKept
<1> QED BY <1>1, <1>2, <1>4 DEF SearchComplete, NoneFitsBefore

LEMMA ScanFullSearch ==
  ASSUME PoolInv, ScanFull, UNCHANGED lost
  PROVE  HoldsOrNothing' /\ SearchComplete'
<1> USE DEF PoolInv
<1>1. HoldsOrNothing'
  BY DEF ScanFull, HoldsOrNothing
<1>2. dword \in 0 .. Words - 1 /\ NoneFitsBefore(First(dword))
  BY SgeAssumption DEF ScanFull, SearchComplete, SgeInv, TypeOK
<1>3. \A t \in WordBits(dword) : ~Pool!Fits(t, count)
  BY TakenIsUsed DEF ScanFull, LostMarked, Pool!Fits, Pool!FirstFreeOfWord
<1>4. SearchComplete'
  BY <1>2, <1>3, NextWord DEF ScanFull
<1> QED BY <1>1, <1>4
\* The search settles on the first free entry of a word it has come to.
LEMMA SettledOn ==
  ASSUME PoolInv, UNCHANGED <<used, held, lost, count>>, NEW s \in Nat,
         pc \in {"scan", "extend"}, pc' = "mark", start' = s,
         Pool!FirstFreeOfWord(s), NoneFitsBefore(s), SearchSound',
         at' = s, left' = count
  PROVE  SearchComplete'
<1>1. s .. s + count - 1 \subseteq Entries \ used
  BY <1>1 DEF SearchSound, Entries
<1>2. Pool!Fits(s, count)
  BY <1>1, TakenIsUsed DEF PoolInv, LostMarked, Pool!Fits, Pool!Entries, Entries
<1>3. Pool!Fits(s, count)' /\ NoneFitsBefore(s)'
  BY <1>2, TakenKept DEF NoneFitsBefore
<1> QED BY <1>3 DEF SearchComplete, NoneFitsBefore

LEMMA ScanWordSearch ==
  ASSUME PoolInv, ScanWord, UNCHANGED lost
  PROVE  HoldsOrNothing' /\ SearchComplete'
<1> USE DEF PoolInv
<1>0. /\ dword \in 0 .. Words - 1 /\ pc = "scan" /\ count \in Nat
      /\ NoneFitsBefore(First(dword)) /\ Pool!Taken = used
      /\ UNCHANGED <<used, held, refused, owner, count>>
  BY TakenIsUsed, SgeAssumption
     DEF ScanWord, SearchComplete, SgeInv, TypeOK, LostMarked
<1>1. HoldsOrNothing'
  BY <1>0 DEF HoldsOrNothing
<1>2. PICK s \in WordBits(dword), e \in WordBits(dword) :
        /\ s \notin used /\ First(dword) .. s - 1 \subseteq used
        /\ s <= e /\ RunEnds(s, e, dword)
        /\ start' = s /\ run' = e - s + 1
        /\ \/ run' >= count /\ Found(s)
           \/ /\ run' < count /\ e = Last(dword)
              /\ pc' = "extend"
              /\ UNCHANGED <<dword, markVars>>
           \/ /\ run' < count /\ e # Last(dword)
              /\ dword' = dword + 1
              /\ UNCHANGED <<pc, markVars>>
  BY DEF ScanWord
<1>3. /\ First(dword) \in Nat /\ Last(dword) \in Nat /\ s \in Nat /\ e \in Nat
      /\ First(dword) <= s /\ e <= Last(dword)
  BY <1>0, WordFacts DEF WordBits
<1>4. /\ Pool!FirstFreeOfWord(s)
      /\ \A t \in WordBits(dword) : t # s => ~Pool!Fits(t, count)
  BY <1>0, <1>2, FirstOfWord
<1>5. NoneFitsBefore(s)
  <2>1. \A t \in 0 .. s - 1 : t \in 0 .. First(dword) - 1
                              \/ (t \in WordBits(dword) /\ t # s)
    BY <1>3 DEF WordBits
  <2> QED BY <1>0, <1>4, <2>1 DEF NoneFitsBefore
<1>6. CASE run' >= count /\ Found(s)
  <2>1. SearchSound'
    BY ScanWordStep DEF SgeInv
  <2> QED BY <1>0, <1>1, <1>2, <1>3, <1>4, <1>5, <1>6, <2>1, SettledOn DEF Found
<1>7. CASE run' < count /\ e = Last(dword) /\ pc' = "extend"
           /\ UNCHANGED <<dword, markVars>>
  <2>1. Pool!FirstFreeOfWord(s)' /\ NoneFitsBefore(s)'
    BY <1>0, <1>4, <1>5, TakenKept DEF NoneFitsBefore
  <2>2. Last(dword)' = Last(dword) /\ Last(dword) - s + 1 < count
    BY <1>2, <1>7 DEF Last
  <2> QED BY <1>0, <1>1, <1>2, <1>7, <2>1, <2>2
          DEF SearchComplete, NoneFitsBefore
<1>8. CASE run' < count /\ e # Last(dword) /\ dword' = dword + 1
           /\ UNCHANGED <<pc, markVars>>
  <2>1. ~Pool!Fits(s, count)
    <3>1. e - s + 1 < count /\ e + 1 \in used
      BY <1>2, <1>8 DEF RunEnds
    <3> QED BY <1>0, <1>2, <1>3, <3>1, ShortRunFails
  <2>2. \A t \in WordBits(dword) : ~Pool!Fits(t, count)
    BY <1>4, <2>1
  <2> QED BY <1>0, <1>1, <1>8, <2>2, NextWord
<1> QED BY <1>2, <1>6, <1>7, <1>8

LEMMA GiveUpSearch ==
  ASSUME PoolInv, GiveUp
  PROVE  HoldsOrNothing' /\ SearchComplete'
BY DEF GiveUp, Return, PoolInv, HoldsOrNothing, SearchComplete

\* A run that was too short up to the end of its word, and cannot be extended.
LEMMA RunBlocked ==
  ASSUME PoolInv, pc = "extend", Last(dword) + 1 \notin Pool!Entries \ Pool!Taken
  PROVE  NoneFitsBefore(First(dword + 1)) /\ dword \in 0 .. Words - 1
<1>1. /\ dword \in 0 .. Words - 1 /\ start \in Nat /\ count \in Nat
      /\ Last(dword) - start + 1 < count /\ NoneFitsBefore(start)
  BY SgeAssumption DEF PoolInv, SearchComplete, SgeInv, SearchSound, TypeOK
<1>2. Last(dword) \in Nat /\ First(dword + 1) = Last(dword) + 1
  BY <1>1, WordFacts
<1>3. \A t \in start .. Last(dword) : ~Pool!Fits(t, count)
  BY <1>1, <1>2, ShortRunFails
<1>4. \A t \in 0 .. First(dword + 1) - 1 :
        t \in 0 .. start - 1 \/ t \in start .. Last(dword)
  BY <1>1, <1>2
<1> QED BY <1>1, <1>3, <1>4 DEF NoneFitsBefore

LEMMA ExtendBlockedSearch ==
  ASSUME PoolInv, ExtendBlocked, UNCHANGED lost
  PROVE  HoldsOrNothing' /\ SearchComplete'
<1> USE DEF PoolInv
<1>1. HoldsOrNothing'
  BY DEF ExtendBlocked, HoldsOrNothing
<1>2. dword \in 0 .. Words - 1
  BY SgeAssumption DEF ExtendBlocked, SgeInv, TypeOK
<1>3. Last(dword) + 1 \in Pool!Taken
  <2>1. First(dword + 1) = Last(dword) + 1
    BY <1>2, WordFacts
  <2> QED BY <2>1, TakenIsUsed DEF ExtendBlocked, LostMarked
<1>4. NoneFitsBefore(First(dword + 1))
  BY <1>3, RunBlocked DEF ExtendBlocked
<1>5. NoneFitsBefore(First(dword))'
  BY <1>4, TakenKept DEF ExtendBlocked, NoneFitsBefore, First
<1> QED BY <1>1, <1>5 DEF ExtendBlocked, SearchComplete, NoneFitsBefore

LEMMA ExtendWordSearch ==
  ASSUME PoolInv, ExtendWord, UNCHANGED lost
  PROVE  HoldsOrNothing' /\ SearchComplete'
<1> USE DEF PoolInv
<1> DEFINE d == dword + 1
<1>0. /\ dword \in 0 .. Words - 1 /\ d \in 0 .. Words - 1 /\ pc = "extend"
      /\ count \in Nat /\ start \in Nat /\ start <= Last(dword)
      /\ UNCHANGED <<used, held, refused, owner, count, start>>
      /\ dword' = d /\ Pool!Taken = used
      /\ Pool!FirstFreeOfWord(start) /\ NoneFitsBefore(start)
  BY TakenIsUsed, SgeAssumption
     DEF ExtendWord, SearchComplete, SgeInv, SearchSound, TypeOK, LostMarked
<1>1. HoldsOrNothing'
  BY <1>0 DEF HoldsOrNothing
<1>2. PICK e \in WordBits(d) :
        /\ RunEnds(First(d), e, d)
        /\ \/ /\ e - start + 1 >= count /\ run' = e - start + 1
              /\ pc' = "mark" /\ at' = start /\ left' = count
           \/ /\ e - start + 1 < count /\ e = Last(d)
              /\ run' = e - start + 1
              /\ UNCHANGED <<pc, markVars>>
           \/ /\ e - start + 1 < count /\ e # Last(d)
              /\ run' = 0 /\ pc' = "scan"
              /\ UNCHANGED markVars
  BY DEF ExtendWord
<1>3. /\ First(d) = Last(dword) + 1 /\ Last(dword) \in Nat /\ First(d) \in Nat
      /\ Last(d) \in Nat /\ e \in Nat /\ First(d) <= e /\ e <= Last(d)
  BY <1>0, WordFacts DEF WordBits
<1>4. CASE pc' = "mark" /\ at' = start /\ left' = count
  <2>1. SearchSound'
    BY ExtendWordStep DEF SgeInv
  <2> QED BY <1>0, <1>1, <1>4, <2>1, SettledOn
<1>5. CASE e - start + 1 < count /\ e = Last(d) /\ UNCHANGED <<pc, markVars>>
  <2>1. Pool!FirstFreeOfWord(start)' /\ NoneFitsBefore(start)'
    BY <1>0, TakenKept DEF NoneFitsBefore
  <2>2. Last(dword)' = Last(d)
    BY <1>0 DEF Last
  <2> QED BY <1>0, <1>1, <1>5, <2>1, <2>2 DEF SearchComplete, NoneFitsBefore
<1>6. CASE e - start + 1 < count /\ e # Last(d) /\ pc' = "scan"
  <2>1. e + 1 \in used
    BY <1>2, <1>6 DEF RunEnds
  <2>2. \A t \in start .. e : ~Pool!Fits(t, count)
    BY <1>0, <1>3, <1>6, <2>1, ShortRunFails
  <2>3. NoneFitsBefore(First(d))
    <3>1. \A t \in 0 .. First(d) - 1 : t \in 0 .. start - 1 \/ t \in start .. e
      BY <1>0, <1>3
    <3> QED BY <1>0, <2>2, <3>1 DEF NoneFitsBefore
  <2>4. NoneFitsBefore(First(dword))'
    BY <1>0, <2>3, TakenKept DEF NoneFitsBefore, First
  <2> QED BY <1>1, <1>6, <2>4 DEF SearchComplete, NoneFitsBefore
<1> QED BY <1>2, <1>4, <1>5, <1>6

LEMMA MarkSearch ==
  ASSUME PoolInv, Mark, UNCHANGED lost
  PROVE  HoldsOrNothing' /\ SearchComplete'
<1> USE DEF PoolInv
<1>0. owner \in Owners /\ held \in [Owners -> [base : Nat, count : Nat]]
      /\ pc = "mark" /\ count > 0
  BY DEF Mark, SgeInv, CallSound, TypeOK
<1>1. CASE pc' = "mark" /\ UNCHANGED <<held, start, count>>
  <2>1. Pool!Fits(start, count)' /\ NoneFitsBefore(start)'
    BY <1>0, <1>1, TakenKept DEF SearchComplete, NoneFitsBefore
  <2> QED BY <1>1, <2>1 DEF SearchComplete, HoldsOrNothing, NoneFitsBefore
<1>2. CASE Return /\ held' = [held EXCEPT ![owner] =
                                [base |-> start, count |-> count]]
  BY <1>0, <1>2 DEF Return, SearchComplete, HoldsOrNothing
<1> QED BY <1>0, <1>1, <1>2 DEF Mark, searchVars

LEMMA PoolStep == PoolInv /\ [Next]_vars => PoolInv'
<1> SUFFICES ASSUME PoolInv, [Next]_vars PROVE PoolInv'
  OBVIOUS
<1>1. SgeInv' /\ EntriesAccounted' /\ LostMarked'
  <2>1. SgeInv'
    BY NextStep DEF PoolInv
  <2>2. CASE Restart
    BY <2>1, <2>2, RestartAccounted DEF PoolInv, LostMarked
  <2>3. CASE Call /\ UNCHANGED lost
    BY <2>1, <2>3, AccountedStep DEF PoolInv, LostMarked
  <2>4. CASE UNCHANGED vars
    BY <2>1, <2>4 DEF PoolInv, LostMarked, EntriesAccounted, Kept, Span, vars,
                      searchVars, markVars
  <2> QED BY <2>2, <2>3, <2>4 DEF Next
<1>2. HoldsOrNothing' /\ SearchComplete'
  <2>1. CASE Restart
    BY <2>1, RestartSearch
  <2>2. ASSUME Call, UNCHANGED lost PROVE HoldsOrNothing' /\ SearchComplete'
    <3>1. ASSUME NEW v \in Owners, NEW n \in Counts \cup {0}, Submit(v, n)
          PROVE  HoldsOrNothing' /\ SearchComplete'
      BY <3>1, SubmitSearch
    <3>2. CASE Clear          BY <3>2, ClearSearch
    <3>3. CASE ScanFull       BY <2>2, <3>3, ScanFullSearch
    <3>4. CASE ScanWord       BY <2>2, <3>4, ScanWordSearch
    <3>5. CASE ScanFails      BY <3>5, GiveUpSearch DEF ScanFails
    <3>6. CASE ExtendFails    BY <3>6, GiveUpSearch DEF ExtendFails
    <3>7. CASE ExtendBlocked  BY <2>2, <3>7, ExtendBlockedSearch
    <3>8. CASE ExtendWord     BY <2>2, <3>8, ExtendWordSearch
    <3>9. CASE Mark           BY <2>2, <3>9, MarkSearch
    <3> QED BY <2>2, <3>1, <3>2, <3>3, <3>4, <3>5, <3>6, <3>7, <3>8, <3>9 DEF Call
  <2>3. CASE UNCHANGED vars
    <3>1. Pool!FirstFreeOfWord(start)' = Pool!FirstFreeOfWord(start)
          /\ \A s : Pool!Fits(s, count)' = Pool!Fits(s, count)
      BY <2>3, TakenKept DEF vars, searchVars
    <3> QED BY <2>3, <3>1 DEF PoolInv, HoldsOrNothing, SearchComplete,
                       NoneFitsBefore, First, Last, vars, searchVars, markVars
  <2> QED BY <2>1, <2>2, <2>3 DEF Next
<1> QED BY <1>1, <1>2 DEF PoolInv, LostMarked
\* The variables of SgePool, seen in this state.
Asking == IF pc \in {"scan", "extend", "mark"}
            THEN [owner |-> owner, count |-> count]
            ELSE [owner |-> NoOwner, count |-> 0]
poolVars == <<held, Asking, refused, lost>>

LEMMA PoolInit == Init => Pool!Init
BY DEF Init, Pool!Init, Pool!Nothing, Nothing, Pool!NoRequest

\* A search under way is a request under way.
LEMMA RequestUnderWay ==
  ASSUME PoolInv
  PROVE  /\ pc \in {"scan", "extend", "mark"} => Asking # Pool!NoRequest
         /\ pc \in {"idle", "clear"} => Asking = Pool!NoRequest
BY SgeAssumption DEF PoolInv, SgeInv, CallSound, TypeOK, Asking, Pool!NoRequest

LEMMA SubmitMaps ==
  ASSUME PoolInv, NEW v \in Owners, NEW n \in Counts \cup {0}, Submit(v, n),
         UNCHANGED lost
  PROVE  Pool!Next \/ UNCHANGED poolVars
<1>1. Asking = Pool!NoRequest
  BY RequestUnderWay DEF Submit
<1>2. CASE pc' = "clear"
  BY <1>1, <1>2 DEF Submit, poolVars, Asking, Pool!NoRequest
<1>3. CASE pc' = "scan" /\ held[v].count = 0 /\ n > 0
  <2>1. held' = [held EXCEPT ![v] = Pool!Nothing]
    BY <1>3 DEF PoolInv, SgeInv, TypeOK, HoldsOrNothing, Submit, Nothing,
                Pool!Nothing
  <2>2. Asking' = [owner |-> v, count |-> n] /\ n \in Pool!Counts
    BY <1>3, SgeAssumption DEF Submit, Asking, Counts, Pool!Counts
  <2>3. Pool!Ask(v, n)
    BY <1>1, <2>1, <2>2 DEF Submit, Pool!Ask, Asking
  <2> QED BY <2>2, <2>3 DEF Pool!Next
<1> QED BY <1>2, <1>3 DEF Submit

LEMMA ClearMaps ==
  ASSUME PoolInv, Clear, UNCHANGED lost
  PROVE  Pool!Next \/ UNCHANGED poolVars
<1>0. /\ Asking = Pool!NoRequest /\ pc = "clear" /\ owner \in Owners
      /\ held[owner].count > 0 /\ count \in Counts \cup {0}
  BY RequestUnderWay, SgeAssumption
     DEF Clear, PoolInv, SgeInv, CallSound, TypeOK, HoldsOrNothing
<1>1. CASE UNCHANGED <<held, pc, owner, count, searchVars>>
  BY <1>1 DEF Clear, poolVars, Asking
<1>2. CASE held' = [held EXCEPT ![owner] = Nothing] /\ count = 0 /\ Return
  <2>1. held[owner] # Pool!Nothing
    BY <1>0 DEF Pool!Nothing
  <2>2. Pool!GiveBack(owner)
    BY <1>0, <1>2, <2>1
       DEF Clear, Return, Pool!GiveBack, Asking, Nothing, Pool!Nothing
  <2> QED BY <1>0, <2>2 DEF Pool!Next
<1>3. CASE /\ held' = [held EXCEPT ![owner] = Nothing] /\ count > 0
           /\ pc' = "scan" /\ UNCHANGED <<owner, count, searchVars>>
  <2>1. count \in Pool!Counts
    BY <1>0, <1>3 DEF Counts, Pool!Counts
  <2>2. Pool!Ask(owner, count)
    BY <1>0, <1>3 DEF Clear, Pool!Ask, Asking, Nothing, Pool!Nothing
  <2> QED BY <1>0, <2>1, <2>2 DEF Pool!Next
<1> QED BY <1>1, <1>2, <1>3 DEF Clear

\* A search that ends without a range had none to find.
LEMMA GiveUpMaps ==
  ASSUME PoolInv, ScanFails \/ ExtendFails, UNCHANGED lost
  PROVE  Pool!Next
<1>0. pc \in {"scan", "extend"} /\ GiveUp
  BY DEF ScanFails, ExtendFails
<1>1. \A s \in Pool!Entries : ~Pool!Fits(s, count)
  <2>1. CASE pc = "scan" /\ dword = Words
    <3>1. \A s \in Pool!Entries : s \in 0 .. First(dword) - 1
      BY <2>1, SgeAssumption DEF Pool!Entries, First
    <3> QED BY <2>1, <3>1 DEF PoolInv, SearchComplete, NoneFitsBefore
  <2>2. CASE pc = "extend" /\ dword + 1 >= Words
    <3>1. dword \in 0 .. Words - 1 /\ dword + 1 = Words
      BY <2>2, SgeAssumption DEF PoolInv, SgeInv, SearchSound, TypeOK
    <3>2. First(dword + 1) = Words * Width /\ First(dword + 1) = Last(dword) + 1
      BY <3>1, WordFacts DEF First
    <3>3. Last(dword) + 1 \notin Pool!Entries
      BY <3>2, SgeAssumption DEF Pool!Entries
    <3>4. NoneFitsBefore(First(dword + 1))
      BY <2>2, <3>3, RunBlocked
    <3> QED BY <3>2, <3>4 DEF NoneFitsBefore, Pool!Entries
  <2> QED BY <2>1, <2>2 DEF ScanFails, ExtendFails
<1>2. Asking = [owner |-> owner, count |-> count] /\ Asking # Pool!NoRequest
  BY <1>0, RequestUnderWay DEF Asking
<1>3. Asking' = Pool!NoRequest /\ refused' = TRUE /\ held' = held
  BY <1>0 DEF GiveUp, Return, Asking, Pool!NoRequest
<1>4. Pool!Refuse
  BY <1>1, <1>2, <1>3 DEF Pool!Refuse, Asking
<1> QED BY <1>4 DEF Pool!Next

LEMMA MarkMaps ==
  ASSUME PoolInv, Mark, UNCHANGED lost
  PROVE  Pool!Next \/ UNCHANGED poolVars
<1>1. CASE UNCHANGED <<held, refused, pc, owner, count, searchVars>>
  BY <1>1 DEF poolVars, Asking
<1>2. CASE /\ held' = [held EXCEPT ![owner] = [base |-> start, count |-> count]]
           /\ refused' = FALSE /\ Return
  <2>1. /\ pc = "mark" /\ start \in Nat /\ count \in Nat
        /\ Pool!Fits(start, count) /\ NoneFitsBefore(start)
    BY DEF Mark, PoolInv, SearchComplete, SgeInv, TypeOK
  <2>2. Asking = [owner |-> owner, count |-> count] /\ Asking # Pool!NoRequest
    BY <2>1, RequestUnderWay DEF Asking
  <2>3. start \in Pool!Entries
    BY <2>1 DEF Pool!Fits, Pool!FirstFreeOfWord
  <2>4. ASSUME NEW t \in Pool!Entries, Pool!Fits(t, count) PROVE start <= t
    <3>1. t \in Nat /\ t \notin 0 .. start - 1
      BY <2>1, <2>4 DEF NoneFitsBefore, Pool!Entries
    <3> QED BY <2>1, <3>1
  <2>5. Asking' = Pool!NoRequest
    BY <1>2 DEF Return, Asking, Pool!NoRequest
  <2>6. Pool!Grant
    BY <1>2, <2>1, <2>2, <2>3, <2>4, <2>5 DEF Pool!Grant, Asking
  <2> QED BY <2>6 DEF Pool!Next
<1> QED BY <1>1, <1>2 DEF Mark

LEMMA RestartMaps ==
  ASSUME PoolInv, Restart
  PROVE  Pool!Next
<1>1. Asking = Pool!NoRequest /\ Asking' = Asking
  BY RequestUnderWay DEF Restart, Asking
<1>2. lost' = Pool!Taken
  BY DEF Restart, Pool!Taken, Pool!Span, Span
<1>3. Pool!Shutdown
  BY <1>1, <1>2 DEF Restart, Pool!Shutdown, Asking, Nothing, Pool!Nothing
<1> QED BY <1>3 DEF Pool!Next

\* The steps of the search in between are not seen.
LEMMA SearchMaps ==
  ASSUME ScanFull \/ ScanWord \/ ExtendBlocked \/ ExtendWord, UNCHANGED lost
  PROVE  UNCHANGED poolVars
<1>1. /\ UNCHANGED <<held, refused, owner, count>>
      /\ pc \in {"scan", "extend"} /\ pc' \in {"scan", "extend", "mark"}
  BY DEF ScanFull, ScanWord, ExtendBlocked, ExtendWord, Found
<1> QED BY <1>1 DEF poolVars, Asking

LEMMA PoolMaps ==
  PoolInv /\ [Next]_vars => Pool!Next \/ UNCHANGED poolVars
<1> SUFFICES ASSUME PoolInv, [Next]_vars
             PROVE  Pool!Next \/ UNCHANGED poolVars
  OBVIOUS
<1>1. CASE Restart
  BY <1>1, RestartMaps
<1>2. ASSUME Call, UNCHANGED lost PROVE Pool!Next \/ UNCHANGED poolVars
  <2>1. ASSUME NEW v \in Owners, NEW n \in Counts \cup {0}, Submit(v, n)
        PROVE  Pool!Next \/ UNCHANGED poolVars
    BY <1>2, <2>1, SubmitMaps
  <2>2. CASE Clear  BY <1>2, <2>2, ClearMaps
  <2>3. CASE Mark   BY <1>2, <2>3, MarkMaps
  <2>4. CASE ScanFails \/ ExtendFails
    BY <1>2, <2>4, GiveUpMaps
  <2>5. CASE ScanFull \/ ScanWord \/ ExtendBlocked \/ ExtendWord
    BY <1>2, <2>5, SearchMaps
  <2> QED BY <1>2, <2>1, <2>2, <2>3, <2>4, <2>5 DEF Call
<1>3. CASE UNCHANGED vars
  BY <1>3 DEF vars, searchVars, markVars, poolVars, Asking
<1> QED BY <1>1, <1>2, <1>3 DEF Next

LEMMA PoolInitStep == Init => PoolInv
<1> SUFFICES ASSUME Init PROVE PoolInv
  OBVIOUS
<1>1. SgeInv /\ EntriesAccounted /\ LostMarked
  BY InitStep, InitAccounted
<1>2. HoldsOrNothing /\ SearchComplete
  BY DEF Init, HoldsOrNothing, SearchComplete
<1> QED BY <1>1, <1>2 DEF PoolInv, LostMarked

\* The inductive invariant of all of it, which the run checks as well: what the
\* search has passed over could not be granted.
THEOREM PoolInvariance == Spec => []PoolInv
BY PoolInitStep, PoolStep, PTL DEF Spec

\* At every step the bitmap is exactly what the voices hold and what shutdowns
\* over live voices have lost: apu_sge_alloc and apu_sge_free leak nothing of
\* their own, and an entry once lost is never given to another voice.
THEOREM NoEntryLost == Spec => []EntriesAccounted
<1>1. PoolInv => EntriesAccounted
  BY DEF PoolInv
<1> QED BY <1>1, PoolInvariance, PTL

\* The word-by-word search of apu_sge_alloc, with its run carried over word
\* boundaries, and the mask loops answer every request exactly as SgePool does,
\* for every size of the bitmap: the lowest word whose first free run is long
\* enough, and -1 only if there is none.
THEOREM SearchImplementsPool == Spec => ImplementsPool
<1>1. Init => Pool!Init
  BY PoolInit
<1>2. PoolInv /\ [Next]_vars => [Pool!Next]_<<held, Asking, refused, lost>>
  BY PoolMaps DEF poolVars
<1> QED
  BY <1>1, <1>2, PoolInvariance, PTL
     DEF ImplementsPool, Pool!Spec, Spec, Asking
=============================================================================
