---------------------------- MODULE BufferProofs ----------------------------
(***************************************************************************)
(* That the voice processor is led to the bytes of the buffers it is given *)
(* (SslSplit), for every number of voices, every size of the tables and    *)
(* pages, every format and buffer, wherever the pages of the buffer lie.   *)
(*                                                                         *)
(* The invariant (SplitInv) follows the walk over a buffer: what is done   *)
(* of it is described by the entries made (QueueInv), what the probe has   *)
(* gone over is contiguous and ends at a page (ProbeInv), and the entries  *)
(* are in the table one by one (WriteInv); the slots, and the ranges of    *)
(* the voices, lie apart.  Two more say how far the walk gets: to the last *)
(* whole block (WholeInv), and never less far than any other split with as *)
(* many entries (GreedyInv).                                               *)
(*                                                                         *)
(* Where entries end is a recursive function.  Induction over it is by the *)
(* least number for which a claim is false (Least).  That an entry can     *)
(* count the samples of its piece is the assertion of audio_buffer.c:120,  *)
(* a hypothesis here (PiecesCanBeCounted).                                 *)
(*                                                                         *)
(* At the end: the position in the buffer of a voice (PlaybackOffset).     *)
(***************************************************************************)
EXTENDS SslSplit, PlaybackOffset, FiniteSetTheorems, WellFoundedInduction, TLAPS

-----------------------------------------------------------------------------
(***************************************************************************)
(* Least elements and sums.                                                *)
(***************************************************************************)
\* A nonempty set of natural numbers has a least element: the intervals from
\* zero to its elements are ordered by strict inclusion.
LEMMA Least ==
  ASSUME NEW T \in SUBSET Nat, T # {}
  PROVE  \E x \in T : \A y \in T : x <= y
<1>1. PICK t \in T : TRUE
  OBVIOUS
<1> DEFINE S == 0 .. t
           U == {0 .. x : x \in T \cap S}
<1>2. IsWellFoundedOn(StrictSubsetOrdering(S), FiniteSubsetsOf(S))
  BY FS_StrictSubsetOrderingWellFounded
<1>3. FiniteSubsetsOf(S) = SUBSET S
  <2>1. IsFiniteSet(S)
    BY <1>1, FS_Interval
  <2> HIDE DEF S
  <2> QED BY <2>1, FS_FiniteSubsetsOfFinite
<1>4. U \subseteq SUBSET S /\ U # {}
  BY <1>1
<1>5. \E u \in U : \A w \in U : <<w, u>> \notin StrictSubsetOrdering(S)
  <2> HIDE DEF U, S
  <2> QED BY <1>2, <1>3, <1>4, WFMin
<1>6. PICK x \in T \cap S : \A y \in T \cap S : <<0 .. y, 0 .. x>> \notin StrictSubsetOrdering(S)
  BY <1>5
<1>7. ASSUME NEW y \in T, y < x PROVE FALSE
  <2>1. y \in T \cap S /\ y \in Nat /\ x \in Nat
    BY <1>7, <1>6, <1>1
  <2>2. 0 .. y \subseteq 0 .. x /\ x \in 0 .. x /\ x \notin 0 .. y
    BY <2>1, <1>7
  <2>3. 0 .. y \in SUBSET S /\ 0 .. x \in SUBSET S
    BY <2>1, <1>6
  <2>4. <<0 .. y, 0 .. x>> \in StrictSubsetOrdering(S)
    <3> HIDE DEF S
    <3> QED BY <2>2, <2>3 DEF StrictSubsetOrdering
  <2> QED BY <2>4, <2>1, <1>6
<1> QED BY <1>6, <1>7

\* Sums of the first numbers of a list: there is one function of them.
Sums(e, n, g) == e = [k \in 0 .. n |-> IF k = 0 THEN 0 ELSE e[k - 1] + g[k]]

LEMMA SumsExist ==
  ASSUME NEW n \in Nat, NEW g \in [1 .. n -> Nat]
  PROVE  \E e \in [0 .. n -> Nat] : Sums(e, n, g)
<1> DEFINE Bad == {m \in Nat : m <= n /\ ~ \E e \in [0 .. m -> Nat] : Sums(e, m, g)}
<1>1. ASSUME Bad # {} PROVE FALSE
  <2>1. PICK m \in Bad : \A y \in Bad : m <= y
    BY <1>1, Least
  <2>2. m \in Nat /\ m <= n
    BY <2>1
  <2>3. CASE m = 0
    <3> DEFINE e == [k \in 0 .. 0 |-> 0]
    <3>1. e \in [0 .. m -> Nat] /\ Sums(e, m, g)
      BY <2>3 DEF Sums
    <3> QED BY <3>1, <2>1
  <2>4. CASE m # 0
    <3>1. m - 1 \in Nat /\ m - 1 \notin Bad /\ m - 1 <= n
      <4> HIDE DEF Bad
      <4> QED BY <2>1, <2>2, <2>4
    <3>2. PICK d \in [0 .. m - 1 -> Nat] : Sums(d, m - 1, g)
      BY <3>1
    <3> DEFINE e == [k \in 0 .. m |-> IF k = m THEN d[m - 1] + g[m] ELSE d[k]]
    <3>3. e \in [0 .. m -> Nat]
      BY <2>2, <2>4, <3>1
    <3>4. ASSUME NEW k \in 0 .. m
          PROVE  e[k] = IF k = 0 THEN 0 ELSE e[k - 1] + g[k]
      <4>1. CASE k = m
        <5>1. k - 1 \in 0 .. m /\ k - 1 # m /\ k # 0
          BY <4>1, <2>2, <2>4
        <5> QED BY <4>1, <5>1
      <4>2. CASE k # m
        <5>1. k \in 0 .. m - 1
          BY <4>2, <2>2
        <5>2. d[k] = IF k = 0 THEN 0 ELSE d[k - 1] + g[k]
          BY <5>1, <3>2 DEF Sums
        <5>3. k # 0 => k - 1 \in 0 .. m /\ k - 1 # m
          BY <5>1, <2>2
        <5> QED BY <4>2, <5>1, <5>2, <5>3
      <4> QED BY <4>1, <4>2
    <3>5. Sums(e, m, g)
      <4> HIDE DEF e
      <4> QED BY <3>3, <3>4 DEF Sums
    <3> QED BY <3>3, <3>5, <2>1
  <2> QED BY <2>3, <2>4
<1>2. n \notin Bad
  <2> HIDE DEF Bad
  <2> QED BY <1>1
<1> QED BY <1>2

IsSums(e, n, g) == e[0] = 0 /\ \A k \in 1 .. n : e[k] = e[k - 1] + g[k]

LEMMA SumsUnique ==
  ASSUME NEW n \in Nat, NEW m \in Nat, m <= n, NEW g, NEW h, NEW d, NEW e,
         \A k \in 1 .. m : g[k] = h[k], IsSums(d, m, g), IsSums(e, n, h)
  PROVE  \A k \in 0 .. m : d[k] = e[k]
<1> DEFINE Bad == {k \in Nat : k <= m /\ d[k] # e[k]}
<1>1. ASSUME Bad # {} PROVE FALSE
  <2>1. PICK k \in Bad : \A y \in Bad : k <= y
    BY <1>1, Least
  <2>2. k # 0
    BY <2>1 DEF IsSums
  <2>3. k \in 1 .. m /\ k \in 1 .. n /\ k - 1 \in Nat /\ k - 1 <= m /\ k - 1 \notin Bad
    BY <2>1, <2>2
  <2>4. d[k - 1] = e[k - 1]
    BY <2>3
  <2>5. d[k] = d[k - 1] + g[k] /\ e[k] = e[k - 1] + h[k] /\ g[k] = h[k]
    BY <2>3 DEF IsSums
  <2> QED BY <2>4, <2>5, <2>1
<1> QED BY <1>1

LEMMA SumsNat ==
  ASSUME NEW n \in Nat, NEW g \in [1 .. n -> Nat], NEW e, Sums(e, n, g)
  PROVE  e \in [0 .. n -> Nat] /\ IsSums(e, n, g)
<1>1. IsSums(e, n, g)
  BY DEF Sums, IsSums
<1>2. PICK d \in [0 .. n -> Nat] : Sums(d, n, g)
  BY SumsExist
<1>3. IsSums(d, n, g)
  BY <1>2 DEF Sums, IsSums
<1>4. \A k \in 0 .. n : d[k] = e[k]
  BY <1>1, <1>3, SumsUnique
<1>5. \A k \in 0 .. n : e[k] \in Nat
  BY <1>4, <1>2
<1>6. e = [k \in 0 .. n |-> e[k]]
  BY DEF Sums
<1> QED BY <1>1, <1>5, <1>6

-----------------------------------------------------------------------------
(***************************************************************************)
(* Blocks and lists of entries.                                            *)
(***************************************************************************)
EntryT == [addr : Int, samples : Nat, container : {"ADPCM", "B8", "B16", "B32"},
           channels : Nat \ {0}]

LEMMA BlockFacts ==
  ASSUME SplitAssumption, NEW f \in Formats
  PROVE  /\ BlockBytes(f) \in Nat \ {0} /\ BlockSamples(f) \in Nat \ {0}
         /\ MaxBytes(f) \in Nat \ {0} /\ f \in Format
<1>1. /\ f \in Format /\ AdpcmBytes \in Nat \ {0} /\ AdpcmSamples \in Nat \ {0}
      /\ FieldSize - 1 \in Nat \ {0}
  BY DEF SplitAssumption
<1>2. f.channels \in Nat \ {0} /\ f.bytes_per_sample \in 1 .. 4
  BY <1>1 DEF Format
<1>3. BlockSamples(f) \in Nat \ {0}
  BY <1>1 DEF BlockSamples
<1>4. \A m, n \in Nat \ {0} : m * n \in Nat \ {0}
  OBVIOUS
<1>5. Container(f) \in Nat \ {0}
  BY <1>2 DEF Container
<1>6. BlockBytes(f) \in Nat \ {0}
  BY <1>1, <1>2, <1>4, <1>5 DEF BlockBytes
<1> QED BY <1>1, <1>3, <1>4, <1>6 DEF MaxBytes

LEMMA BytesNat ==
  ASSUME SplitAssumption, NEW f \in Formats, NEW e \in EntryT
  PROVE  BytesOf(e, f) \in Nat
<1>1. e.samples \in Nat /\ BlockBytes(f) \in Nat /\ BlockSamples(f) \in Nat \ {0}
  BY BlockFacts DEF EntryT
<1>2. \A m \in Nat, d \in Nat \ {0} : m \div d \in Nat
  OBVIOUS
<1>3. \A m, n \in Nat : m * n \in Nat
  OBVIOUS
<1> QED BY <1>1, <1>2, <1>3 DEF BytesOf

\* What is known of where the entries of a list end.
EndsAt(end, es, f) ==
  /\ end \in [0 .. Len(es) -> Nat] /\ end[0] = 0
  /\ \A k \in 1 .. Len(es) : end[k] = end[k - 1] + BytesOf(es[k], f)

LEMMA EndsFacts ==
  ASSUME SplitAssumption, NEW f \in Formats, NEW es \in Seq(EntryT)
  PROVE  EndsAt(Ends(es, f), es, f)
<1> DEFINE n == Len(es)
           g == [k \in 1 .. n |-> BytesOf(es[k], f)]
           Is(e) == e = [k \in 0 .. n |-> IF k = 0 THEN 0 ELSE e[k - 1] + BytesOf(es[k], f)]
<1>1. n \in Nat /\ g \in [1 .. n -> Nat]
  <2>1. ASSUME NEW k \in 1 .. n PROVE BytesOf(es[k], f) \in Nat
    <3>1. es[k] \in EntryT
      OBVIOUS
    <3> QED BY <3>1, BytesNat
  <2> QED BY <2>1
<1>2. PICK e : Sums(e, n, g)
  BY <1>1, SumsExist
<1>3. ASSUME NEW d PROVE Is(d) <=> Sums(d, n, g)
  <2>1. \A k \in 0 .. n : k # 0 => g[k] = BytesOf(es[k], f)
    BY <1>1
  <2>2. [k \in 0 .. n |-> IF k = 0 THEN 0 ELSE d[k - 1] + BytesOf(es[k], f)]
        = [k \in 0 .. n |-> IF k = 0 THEN 0 ELSE d[k - 1] + g[k]]
    <3> HIDE DEF g, n
    <3> QED BY <2>1
  <2> HIDE DEF g, n
  <2> QED BY <2>2 DEF Sums
<1>4. Is(e)
  <2> HIDE DEF Is, g, n
  <2> QED BY <1>2, <1>3
<1>5. Ends(es, f) = CHOOSE d : Is(d)
  BY DEF Ends
<1>6. Is(Ends(es, f))
  <2> HIDE DEF Is
  <2> QED BY <1>4, <1>5
<1>7. Sums(Ends(es, f), n, g)
  <2> HIDE DEF Is
  <2> QED BY <1>3, <1>6
<1>8. Ends(es, f) \in [0 .. n -> Nat] /\ IsSums(Ends(es, f), n, g)
  <2> HIDE DEF g, n
  <2> QED BY <1>1, <1>7, SumsNat
<1> QED BY <1>8 DEF IsSums, EndsAt

LEMMA EndsAppend ==
  ASSUME SplitAssumption, NEW f \in Formats, NEW es \in Seq(EntryT), NEW e \in EntryT
  PROVE  /\ \A k \in 0 .. Len(es) : Ends(Append(es, e), f)[k] = Ends(es, f)[k]
         /\ Ends(Append(es, e), f)[Len(es) + 1] = Ends(es, f)[Len(es)] + BytesOf(e, f)
<1> DEFINE n == Len(es)
           fs == Append(es, e)
           g == [k \in 1 .. n |-> BytesOf(es[k], f)]
           h == [k \in 1 .. n + 1 |-> BytesOf(fs[k], f)]
<1>1. fs \in Seq(EntryT) /\ Len(fs) = n + 1 /\ n \in Nat
  OBVIOUS
<1>2. EndsAt(Ends(es, f), es, f) /\ EndsAt(Ends(fs, f), fs, f)
  <2> HIDE DEF fs
  <2> QED BY EndsFacts, <1>1
<1>3. \A k \in 1 .. n : fs[k] = es[k] /\ fs[n + 1] = e
  OBVIOUS
<1>4. fs[n + 1] = e
  OBVIOUS
<1> HIDE DEF fs, n
<1>5. IsSums(Ends(es, f), n, g) /\ IsSums(Ends(fs, f), n + 1, h)
  BY <1>1, <1>2 DEF IsSums, EndsAt, n
<1>6. \A k \in 1 .. n : g[k] = h[k]
  BY <1>1, <1>3
<1>7. \A k \in 0 .. n : Ends(es, f)[k] = Ends(fs, f)[k]
  <2>1. n + 1 \in Nat /\ n <= n + 1
    BY <1>1
  <2> HIDE DEF g, h
  <2> QED BY SMTT(40), <1>1, <1>5, <1>6, <2>1, SumsUnique
<1>8. Ends(fs, f)[n + 1] = Ends(fs, f)[n] + BytesOf(e, f)
  BY <1>1, <1>2, <1>4 DEF EndsAt
<1> QED BY <1>7, <1>8, <1>1 DEF n, fs

-----------------------------------------------------------------------------
(***************************************************************************)
(* Quotients and remainders.                                               *)
(***************************************************************************)
LEMMA ProductNat == \A p, q \in Nat : p * q \in Nat
OBVIOUS

LEMMA DivMod ==
  ASSUME NEW x \in Nat, NEW d \in Nat \ {0}
  PROVE  x \div d \in Nat /\ x % d \in 0 .. d - 1 /\ x = d * (x \div d) + (x % d)
OBVIOUS

IsDivided(x, d, q, r) == x = d * q + r

LEMMA DivUnique ==
  ASSUME NEW x \in Nat, NEW q \in Nat, NEW d \in Nat \ {0}, NEW r \in 0 .. d - 1,
         IsDivided(x, d, q, r)
  PROVE  x \div d = q /\ x % d = r
<1> USE DEF IsDivided
<1>1. d * q \in Nat
  OBVIOUS
<1>2. x \div d \in Nat /\ x % d \in 0 .. d - 1 /\ x = d * (x \div d) + (x % d)
  BY <1>1, DivMod
<1>3. ASSUME NEW a \in Nat, NEW b \in Nat, a < b PROVE d * b >= d * a + d
  <2>1. PICK c \in Nat : b = a + 1 + c
    <3>1. b - a - 1 \in Nat /\ b = a + 1 + (b - a - 1)
      BY <1>3
    <3> QED BY <3>1
  <2>2. d * b = d * a + d + d * c /\ d * c >= 0
    BY <2>1
  <2> QED BY <2>2
<1>4. ~ (x \div d < q) /\ ~ (q < x \div d)
  <2>1. ASSUME x \div d < q PROVE FALSE
    <3>1. d * q >= d * (x \div d) + d
      BY <2>1, <1>2, <1>3
    <3> QED BY <3>1, <1>1, <1>2
  <2>2. ASSUME q < x \div d PROVE FALSE
    <3>1. d * (x \div d) >= d * q + d
      BY <2>2, <1>2, <1>3
    <3> QED BY <3>1, <1>1, <1>2
  <2> QED BY <2>1, <2>2
<1>5. x \div d = q
  BY <1>2, <1>4
<1> QED BY <1>1, <1>2, <1>5

\* Numbers of one page.
LEMMA SamePage ==
  ASSUME NEW x \in Nat, NEW j \in Nat, NEW d \in Nat \ {0}, (x % d) + j < d
  PROVE  (x + j) \div d = x \div d /\ (x + j) % d = (x % d) + j
<1>1. x \div d \in Nat /\ x % d \in 0 .. d - 1 /\ x = d * (x \div d) + (x % d)
  BY DivMod
<1>2. (x % d) + j \in 0 .. d - 1
  BY <1>1
<1>3. IsDivided(x + j, d, x \div d, (x % d) + j)
  BY <1>1 DEF IsDivided
<1>4. x + j \in Nat
  OBVIOUS
<1> QED BY <1>1, <1>2, <1>3, <1>4, DivUnique

LEMMA DivLess ==
  ASSUME NEW x \in Nat, NEW q \in Nat, NEW d \in Nat \ {0}, x < d * q
  PROVE  x \div d < q
<1>1. x \div d \in Nat /\ x % d \in 0 .. d - 1 /\ x = d * (x \div d) + (x % d)
  BY DivMod
<1>2. ASSUME q <= x \div d PROVE FALSE
  <2>1. PICK c \in Nat : x \div d = q + c
    <3>1. (x \div d) - q \in Nat /\ x \div d = q + ((x \div d) - q)
      BY <1>1, <1>2
    <3> QED BY <3>1
  <2>2. d * (x \div d) = d * q + d * c /\ d * c \in Nat /\ d * q \in Nat
    BY <2>1
  <2> QED BY <2>2, <1>1
<1> QED BY <1>1, <1>2

-----------------------------------------------------------------------------
(***************************************************************************)
(* Buffers and the bytes they lie in.                                      *)
(***************************************************************************)
LEMMA BufferFacts ==
  ASSUME SplitAssumption, NEW b \in Buffers
  PROVE  /\ b.frames \in Seq(Nat) /\ b.at \in Nat /\ b.size \in Nat \ {0}
         /\ b.at < PageSize /\ b.direct \in BOOLEAN
         /\ b.at + b.size <= PageSize * Len(b.frames)
         /\ PageSize \in Nat \ {0} /\ b # Nobody
<1>1. b \in Buffer /\ PageSize \in Nat \ {0} /\ b.at + b.size <= PageSize * Len(b.frames)
  BY DEF SplitAssumption
<1> QED BY <1>1 DEF Buffer, Nobody

\* Bytes of a buffer, from the beginning of its first page.
LEMMA Position ==
  ASSUME SplitAssumption, NEW b \in Buffers, NEW n \in Nat, n < b.size
  PROVE  b.at + n \in Nat /\ b.at + n < PageSize * Len(b.frames)
<1> DEFINE at == b.at
           size == b.size
           fr == b.frames
           m == Len(fr)
           e == PageSize * m
<1>1. /\ at \in Nat /\ size \in Nat /\ fr \in Seq(Nat) /\ PageSize \in Nat
      /\ at + size <= e /\ n < size
  BY BufferFacts
<1>2. m \in Nat
  <2> HIDE DEF fr
  <2> QED BY <1>1
<1> HIDE DEF m, at, size
<1>3. e \in Nat
  BY <1>1, <1>2, ProductNat
<1> HIDE DEF e
<1>4. at + n \in Nat /\ at + n < e
  BY <1>1, <1>3
<1> QED BY <1>4 DEF at, e, m

LEMMA PhysFacts ==
  ASSUME SplitAssumption, NEW b \in Buffers, NEW n \in Nat, n < b.size
  PROVE  /\ 1 + (b.at + n) \div PageSize \in 1 .. Len(b.frames)
         /\ b.frames[1 + (b.at + n) \div PageSize] \in Nat
         /\ Phys(b, n) \in Nat
         /\ Phys(b, n) % PageSize = (b.at + n) % PageSize
         /\ Phys(b, n) - (Phys(b, n) % PageSize)
              = b.frames[1 + (b.at + n) \div PageSize] * PageSize
<1> DEFINE x == b.at + n
           m == Len(b.frames)
           a == b.frames[1 + x \div PageSize]
<1>1. /\ b.frames \in Seq(Nat) /\ x \in Nat /\ m \in Nat /\ PageSize \in Nat \ {0}
      /\ x < PageSize * m
  <2>1. b.frames \in Seq(Nat) /\ PageSize \in Nat \ {0}
    BY BufferFacts
  <2>2. x \in Nat /\ x < PageSize * m
    BY Position
  <2>3. m \in Nat
    BY <2>1
  <2> QED BY <2>1, <2>2, <2>3
<1>2. x \div PageSize \in Nat /\ x % PageSize \in 0 .. PageSize - 1
  BY <1>1, DivMod
<1>3. x \div PageSize < m
  <2> HIDE DEF x, m
  <2> QED BY <1>1, DivLess
<1>4. 1 + x \div PageSize \in 1 .. m
  <2> DEFINE y == x \div PageSize
  <2>1. y \in Nat /\ m \in Nat /\ y < m
    BY <1>1, <1>2, <1>3
  <2> HIDE DEF x, m, y
  <2>2. 1 + y \in 1 .. m
    BY <2>1
  <2> QED BY <2>2 DEF y
<1>5. a \in Nat
  <2> DEFINE fr == b.frames
             k == 1 + x \div PageSize
  <2>1. fr \in Seq(Nat) /\ k \in 1 .. Len(fr)
    BY <1>1, <1>4
  <2> HIDE DEF fr, k
  <2>2. fr[k] \in Nat
    BY <2>1
  <2> QED BY <2>2 DEF fr, k
<1>6. Phys(b, n) = PageSize * a + (x % PageSize)
  <2>1. Phys(b, n) = a * PageSize + (x % PageSize)
    BY DEF Phys
  <2>2. a * PageSize = PageSize * a
    BY SMTT(20), <1>5, <1>1
  <2> QED BY <2>1, <2>2
<1> HIDE DEF a, x, m
<1>7. PageSize * a \in Nat /\ PageSize * a = a * PageSize
  BY <1>1, <1>5
<1>8. Phys(b, n) \in Nat
  BY <1>2, <1>6, <1>7
<1>9. Phys(b, n) % PageSize = x % PageSize
  <2>1. IsDivided(Phys(b, n), PageSize, a, x % PageSize)
    BY <1>6 DEF IsDivided
  <2> QED BY <1>1, <1>2, <1>5, <1>8, <2>1, DivUnique
<1>10. Phys(b, n) - (Phys(b, n) % PageSize) = a * PageSize
  BY <1>1, <1>2, <1>6, <1>7, <1>9
<1> QED BY <1>4, <1>5, <1>8, <1>9, <1>10 DEF a, x, m

\* Byte n and the j-th after it are in one page.
OnPage(b, n, j) == ((b.at + n) % PageSize) + j < PageSize

\* To the end of a page the bytes follow one another.
LEMMA PageRun ==
  ASSUME SplitAssumption, NEW b \in Buffers, NEW n \in Nat, NEW j \in Nat,
         n + j < b.size, OnPage(b, n, j)
  PROVE  Phys(b, n + j) = Phys(b, n) + j
<1> DEFINE x == b.at + n
<1>1. b.at \in Nat /\ b.size \in Nat /\ PageSize \in Nat \ {0}
  BY BufferFacts
<1>2. x \in Nat /\ b.at + (n + j) = x + j /\ n < b.size
  <2> DEFINE at == b.at
             size == b.size
  <2>1. at \in Nat /\ size \in Nat /\ n + j < size
    BY <1>1
  <2> HIDE DEF at, size
  <2>2. at + n \in Nat /\ at + (n + j) = (at + n) + j /\ n < size
    BY <2>1
  <2> QED BY <2>2 DEF at, size
<1>3. (x + j) \div PageSize = x \div PageSize /\ (x + j) % PageSize = (x % PageSize) + j
  <2> HIDE DEF x
  <2>1. (x % PageSize) + j < PageSize
    BY DEF x, OnPage
  <2>2. x \in Nat
    BY <1>2
  <2> QED BY <1>1, <2>1, <2>2, SamePage
<1>4. b.frames[1 + x \div PageSize] * PageSize \in Nat /\ x % PageSize \in Nat
  <2>1. b.frames[1 + x \div PageSize] \in Nat
    BY <1>2, PhysFacts
  <2>2. x % PageSize \in 0 .. PageSize - 1
    BY <1>1, <1>2, DivMod
  <2> HIDE DEF x
  <2> DEFINE a == b.frames[1 + x \div PageSize]
             c == x % PageSize
  <2>3. a \in Nat /\ c \in 0 .. PageSize - 1 /\ PageSize \in Nat
    BY <1>1, <2>1, <2>2
  <2> HIDE DEF a, c
  <2>4. a * PageSize \in Nat /\ c \in Nat
    BY <2>3, ProductNat
  <2> QED BY <2>4 DEF a, c
<1>5. Phys(b, n) = b.frames[1 + x \div PageSize] * PageSize + (x % PageSize)
  BY DEF Phys
<1>6. Phys(b, n + j) = b.frames[1 + (x + j) \div PageSize] * PageSize + ((x + j) % PageSize)
  BY <1>2 DEF Phys
<1> HIDE DEF x
<1>7. Phys(b, n + j) = b.frames[1 + x \div PageSize] * PageSize + ((x % PageSize) + j)
  BY <1>3, <1>6
<1> DEFINE a == b.frames[1 + x \div PageSize] * PageSize
           c == x % PageSize
<1>8. a \in Nat /\ c \in Nat /\ Phys(b, n) = a + c /\ Phys(b, n + j) = a + (c + j)
  BY <1>4, <1>5, <1>7
<1> HIDE DEF a, c
<1> QED BY <1>8

\* The rest of the page of byte n; a page begins behind it.
PageBegins(b, n) == (b.at + n) % PageSize = 0

LEMMA RestFacts ==
  ASSUME SplitAssumption, NEW b \in Buffers, NEW n \in Nat, n < b.size
  PROVE  /\ RestOfPage(b, n) \in 1 .. PageSize
         /\ \A j \in Nat : j < RestOfPage(b, n) => OnPage(b, n, j)
         /\ PageBegins(b, n + RestOfPage(b, n))
<1> DEFINE x == b.at + n
           r == x % PageSize
           q == x \div PageSize
<1>1. b.at \in Nat /\ PageSize \in Nat \ {0} /\ x \in Nat
  <2>1. b.at \in Nat /\ PageSize \in Nat \ {0}
    BY BufferFacts
  <2>2. x \in Nat
    BY Position
  <2> QED BY <2>1, <2>2
<1>2. r \in 0 .. PageSize - 1 /\ q \in Nat /\ x = PageSize * q + r
  BY <1>1, DivMod
<1>3. RestOfPage(b, n) = PageSize - r
  BY PhysFacts DEF RestOfPage
<1>4. b.at + (n + RestOfPage(b, n)) = x + (PageSize - r)
  <2>1. r \in Int
    BY <1>2
  <2> HIDE DEF r
  <2> QED BY <1>1, <1>3, <2>1
<1>5. (x + (PageSize - r)) % PageSize = 0
  <2> HIDE DEF x, q, r
  <2>1. PageSize * q \in Nat /\ PageSize * (q + 1) = PageSize * q + PageSize
    BY SMTT(20), <1>1, <1>2
  <2>2. IsDivided(x + (PageSize - r), PageSize, q + 1, 0)
    BY <1>1, <1>2, <2>1 DEF IsDivided
  <2>3. x + (PageSize - r) \in Nat /\ q + 1 \in Nat /\ 0 \in 0 .. PageSize - 1
    BY <1>1, <1>2
  <2> QED BY <1>1, <2>2, <2>3, DivUnique
<1>6. RestOfPage(b, n) \in 1 .. PageSize
  <2> HIDE DEF x, q, r
  <2> QED BY SMTT(20), <1>1, <1>2, <1>3
<1>7. \A j \in Nat : j < RestOfPage(b, n) => r + j < PageSize
  <2> HIDE DEF x, q, r
  <2> QED BY <1>1, <1>2, <1>3
<1> QED BY <1>4, <1>5, <1>6, <1>7 DEF PageBegins, OnPage

\* The bytes of a buffer in the direct-mapped region follow one another.
LEMMA FirstFrame ==
  ASSUME SplitAssumption, NEW b \in Buffers
  PROVE  b.frames[1] \in Nat
<1> DEFINE n == b.size
<1>0. b.frames \in Seq(Nat) /\ n \in Nat \ {0}
  BY BufferFacts
<1> HIDE DEF n
<1>a. 0 \in Nat /\ 0 < n
  BY <1>0
<1>1. b.frames \in Seq(Nat) /\ 0 \in Nat /\ 0 < b.size
  BY <1>0, <1>a DEF n
<1>2. 1 + (b.at + 0) \div PageSize \in 1 .. Len(b.frames)
  BY <1>1, PhysFacts
<1> DEFINE s == b.frames
           i == 1 + (b.at + 0) \div PageSize
<1>3. s \in Seq(Nat) /\ i \in 1 .. Len(s)
  BY <1>1, <1>2
<1> HIDE DEF s, i
<1>4. Len(s) \in Nat /\ s \in [1 .. Len(s) -> Nat]
  BY <1>3
<1>5. 1 \in 1 .. Len(s)
  BY <1>3, <1>4
<1> QED BY <1>4, <1>5 DEF s

LEMMA DirectFrames ==
  ASSUME SplitAssumption, NEW b \in Buffers, b.direct
  PROVE  \A k \in 1 .. Len(b.frames) : b.frames[k] = b.frames[1] + (k - 1)
<1> DEFINE Bad == {k \in Nat : k \in 1 .. Len(b.frames) /\ b.frames[k] # b.frames[1] + (k - 1)}
<1>1. b.frames \in Seq(Nat)
  BY BufferFacts
<1>2. \A k \in 1 .. Len(b.frames) - 1 : b.frames[k + 1] = b.frames[k] + 1
  BY DEF SplitAssumption
<1>3. ASSUME Bad # {} PROVE FALSE
  <2>1. PICK k \in Bad : \A y \in Bad : k <= y
    <3> HIDE DEF Bad
    <3>1. Bad \subseteq Nat
      BY DEF Bad
    <3> QED BY <1>3, <3>1, Least
  <2>2. k # 1
    BY <1>1, <2>1
  <2>3. k - 1 \in 1 .. Len(b.frames) - 1 /\ k - 1 \in Nat /\ k - 1 \notin Bad
    <3>1. k \in 1 .. Len(b.frames) /\ Len(b.frames) \in Nat
      BY <1>1, <2>1
    <3>2. k - 1 \notin Bad
      <4> HIDE DEF Bad
      <4> QED BY <2>1, <3>1
    <3> QED BY <2>2, <3>1, <3>2
  <2>4. b.frames[k - 1] = b.frames[1] + (k - 1 - 1)
    BY <2>3
  <2>5. b.frames[k - 1 + 1] = b.frames[k - 1] + 1
    BY <1>2, <2>3
  <2>6. k \in Nat /\ k - 1 + 1 = k /\ k \in 1 .. Len(b.frames)
    BY <2>1
  <2>7. b.frames[1] \in Nat
    BY FirstFrame
  <2>8. b.frames[k] = (b.frames[1] + (k - 1 - 1)) + 1
    BY <2>4, <2>5, <2>6
  <2>9. b.frames[k] = b.frames[1] + (k - 1)
    <3> DEFINE a == b.frames[1]
               c == b.frames[k]
    <3>1. a \in Nat /\ k \in Nat /\ c = (a + (k - 1 - 1)) + 1
      BY <2>6, <2>7, <2>8
    <3> HIDE DEF a, c, Bad
    <3>2. c = a + (k - 1)
      BY <3>1
    <3> QED BY <3>2 DEF a, c
  <2> QED BY <2>1, <2>9
<1>4. ASSUME NEW k \in 1 .. Len(b.frames) PROVE b.frames[k] = b.frames[1] + (k - 1)
  <2>1. k \in Nat /\ k \notin Bad
    <3> HIDE DEF Bad
    <3> QED BY <1>1, <1>3
  <2> QED BY <2>1
<1> QED BY <1>4

LEMMA DirectRun ==
  ASSUME SplitAssumption, NEW b \in Buffers, b.direct, NEW n \in Nat, n < b.size
  PROVE  /\ Phys(b, n) = b.frames[1] * PageSize + (b.at + n)
         /\ b.frames[1] * PageSize \in Nat
<1> DEFINE x == b.at + n
           r == x % PageSize
           q == x \div PageSize
           a == b.frames[1]
<1>1. b.at \in Nat /\ PageSize \in Nat \ {0} /\ x \in Nat
  <2>1. b.at \in Nat /\ PageSize \in Nat \ {0}
    BY BufferFacts
  <2>2. x \in Nat
    BY Position
  <2> QED BY <2>1, <2>2
<1>2. r \in 0 .. PageSize - 1 /\ q \in Nat /\ x = PageSize * q + r
  BY <1>1, DivMod
<1>3. 1 + q \in 1 .. Len(b.frames) /\ b.frames \in Seq(Nat)
  BY PhysFacts, BufferFacts
<1>4. b.frames[1 + q] = a + ((1 + q) - 1)
  <2> HIDE DEF q
  <2> QED BY <1>3, DirectFrames
<1>5. a \in Nat
  BY FirstFrame
<1>6. Phys(b, n) = b.frames[1 + q] * PageSize + r
  BY DEF Phys
<1> HIDE DEF q, r, x, a
<1>7. Phys(b, n) = (a + q) * PageSize + r
  BY <1>2, <1>4, <1>5, <1>6
<1>8. (a + q) * PageSize = a * PageSize + PageSize * q /\ a * PageSize \in Nat
  <2>1. PageSize \in Nat /\ q \in Nat
    BY <1>1, <1>2
  <2>2. (a + q) * PageSize = a * PageSize + q * PageSize /\ q * PageSize = PageSize * q
    BY <1>5, <2>1
  <2> QED BY <1>5, <2>1, <2>2, ProductNat
<1>9. Phys(b, n) = a * PageSize + x
  BY <1>1, <1>2, <1>7, <1>8
<1> QED BY <1>8, <1>9 DEF a, x

LEMMA RunFits ==
  ASSUME NEW n \in Nat, NEW size \in Nat, NEW rest \in Nat \ {0}, n < size
  PROVE  /\ Shorter(rest, size - n) \in 1 .. size - n /\ Shorter(rest, size - n) <= rest
         /\ n + Shorter(rest, size - n) = size \/ Shorter(rest, size - n) = rest
         /\ Shorter(rest, size - n) \in Nat
<1>1. CASE rest < size - n
  BY <1>1 DEF Shorter
<1>2. CASE ~ rest < size - n
  BY <1>2 DEF Shorter
<1> QED BY <1>1, <1>2

\* A place in a run, from where the run begins.
LEMMA InRun ==
  ASSUME NEW n \in Nat, NEW r \in Nat, NEW size \in Nat, NEW rest \in Nat,
         r <= rest, r <= size - n, NEW j \in n .. n + r - 1
  PROVE  j - n \in Nat /\ n + (j - n) = j /\ j < size /\ j - n < rest
OBVIOUS

LEMMA RunBegins ==
  ASSUME SplitAssumption, NEW b \in Buffers, NEW n \in Nat, n < b.size, NEW r,
         r = Shorter(RestOfPage(b, n), b.size - n)
  PROVE  /\ r \in 1 .. b.size - n /\ Contiguous(b, n, n + r)
         /\ n + r = b.size \/ PageBegins(b, n + r)
<1> DEFINE rest == RestOfPage(b, n)
           size == b.size
<1>1. size \in Nat /\ rest \in 1 .. PageSize /\ PageSize \in Nat
  BY BufferFacts, RestFacts
<1>2. n < size /\ r = Shorter(rest, size - n)
  OBVIOUS
<1>3. /\ r \in 1 .. size - n /\ r <= rest /\ (n + r = size \/ r = rest)
      /\ r \in Nat /\ rest \in Nat
  <2>1. rest \in Nat \ {0} /\ rest \in Nat /\ size \in Nat
    BY <1>1
  <2> HIDE DEF rest, size
  <2> DEFINE q == Shorter(rest, size - n)
  <2>2. /\ q \in 1 .. size - n /\ q <= rest /\ (n + q = size \/ q = rest)
        /\ q \in Nat
    BY <1>2, <2>1, RunFits
  <2>3. r = q
    BY <1>2
  <2> HIDE DEF q
  <2> QED BY <2>1, <2>2, <2>3
<1>4. ASSUME NEW j \in n .. n + r - 1 PROVE Phys(b, j) = Phys(b, n) + j - n
  <2>1. j - n \in Nat /\ n + (j - n) = j /\ j < size /\ j - n < rest
    <3> HIDE DEF rest, size
    <3>1. r \in Nat /\ r <= rest /\ r <= size - n /\ size \in Nat /\ rest \in Nat
      BY <1>1, <1>3
    <3> QED BY <3>1, <1>4, InRun
  <2>2. OnPage(b, n, j - n)
    BY <2>1, RestFacts
  <2>3. Phys(b, n + (j - n)) = Phys(b, n) + (j - n)
    BY SMTT(20), <2>1, <2>2, PageRun
  <2> DEFINE y == Phys(b, n)
             z == Phys(b, j)
  <2>4. y \in Nat
    BY PhysFacts
  <2>5. z = y + (j - n)
    BY <2>1, <2>3
  <2> HIDE DEF y, z
  <2>6. z = y + j - n
    BY <2>4, <2>5
  <2> QED BY <2>6 DEF y, z
<1>5. r = rest => PageBegins(b, n + r)
  BY RestFacts
<1> QED BY <1>3, <1>4, <1>5 DEF Contiguous

\* A run goes on over the page that follows it.
LEMMA RunGrows ==
  ASSUME SplitAssumption, NEW b \in Buffers, NEW m \in Nat, NEW n \in Nat, m < n, n < b.size,
         NEW r, r \in 1 .. b.size - n,
         Contiguous(b, m, n), Contiguous(b, n, n + r), Phys(b, n) = Phys(b, m) + (n - m)
  PROVE  Contiguous(b, m, n + r)
<1>1. b.size \in Nat
  BY BufferFacts
<1>2. Phys(b, m) \in Nat /\ Phys(b, n) \in Nat
  <2>1. m < b.size
    BY <1>1
  <2> QED BY <2>1, PhysFacts
<1>3. ASSUME NEW j \in m .. n + r - 1 PROVE Phys(b, j) = Phys(b, m) + j - m
  <2>1. CASE j < n
    <3>1. j \in m .. n - 1
      BY <2>1
    <3> QED BY <3>1 DEF Contiguous
  <2>2. CASE ~ j < n
    <3>1. j \in n .. n + r - 1 /\ j \in Int /\ r \in Int
      BY <2>2, <1>1
    <3>2. Phys(b, j) = Phys(b, n) + j - n
      BY SMTT(20), <3>1 DEF Contiguous
    <3> QED BY <1>2, <3>1, <3>2
  <2> QED BY <2>1, <2>2
<1> QED BY <1>3 DEF Contiguous

LEMMA ContiguousPart ==
  ASSUME NEW b, NEW m \in Nat, NEW p \in Nat, NEW c \in Nat, p <= c,
         Contiguous(b, m, m + c)
  PROVE  Contiguous(b, m, m + p)
<1>1. m .. m + p - 1 \subseteq m .. m + c - 1
  OBVIOUS
<1> QED BY <1>1 DEF Contiguous

LEMMA DirectContiguous ==
  ASSUME SplitAssumption, NEW b \in Buffers, b.direct, NEW m \in Nat
  PROVE  Contiguous(b, m, b.size)
<1>1. b.size \in Nat /\ b.at \in Nat
  BY BufferFacts
<1>2. ASSUME NEW j \in m .. b.size - 1 PROVE Phys(b, j) = Phys(b, m) + j - m
  <2> DEFINE a == b.frames[1] * PageSize
  <2>1. j \in Nat /\ j < b.size /\ m < b.size
    BY <1>1
  <2>2. Phys(b, j) = a + (b.at + j) /\ Phys(b, m) = a + (b.at + m) /\ a \in Nat
    BY <2>1, DirectRun
  <2> HIDE DEF a
  <2> QED BY SMTT(20), <1>1, <2>1, <2>2
<1> QED BY <1>2 DEF Contiguous

-----------------------------------------------------------------------------
(***************************************************************************)
(* Whole blocks.                                                           *)
(***************************************************************************)
LEMMA Multiples ==
  ASSUME NEW d \in Nat \ {0}, NEW x \in Nat
  PROVE  x % d = 0 <=> \E k \in Nat : x = d * k
<1>1. x \div d \in Nat /\ x = d * (x \div d) + (x % d) /\ d * (x \div d) \in Nat
  BY DivMod, ProductNat
<1>2. x % d = 0 => x = d * (x \div d)
  BY <1>1
<1>3. ASSUME NEW k \in Nat, x = d * k PROVE x % d = 0
  <2>1. IsDivided(x, d, k, 0) /\ 0 \in 0 .. d - 1
    BY <1>3, ProductNat DEF IsDivided
  <2> QED BY <2>1, DivUnique
<1> QED BY <1>1, <1>2, <1>3

LEMMA MultiplesAdd ==
  ASSUME NEW d \in Nat \ {0}, NEW x \in Nat, NEW y \in Nat, x % d = 0, y % d = 0
  PROVE  (x + y) % d = 0
<1>1. PICK k \in Nat : x = d * k
  BY Multiples
<1>2. PICK l \in Nat : y = d * l
  BY Multiples
<1>3. x + y = d * (k + l) /\ k + l \in Nat /\ x + y \in Nat
  BY <1>1, <1>2
<1> QED BY <1>3, Multiples

LEMMA MultiplesSubtract ==
  ASSUME NEW d \in Nat \ {0}, NEW x \in Nat, NEW y \in Nat, x % d = 0, y % d = 0, y <= x
  PROVE  x - y \in Nat /\ (x - y) % d = 0
<1>1. PICK k \in Nat : x = d * k
  BY Multiples
<1>2. PICK l \in Nat : y = d * l
  BY Multiples
<1>3. x - y \in Nat
  OBVIOUS
<1>4. CASE l <= k
  <2>1. x - y = d * (k - l) /\ k - l \in Nat
    BY <1>1, <1>2, <1>4
  <2> QED BY <1>3, <2>1, Multiples
<1>5. CASE k < l
  <2>1. d * l = d * k + d * (l - k) /\ l - k \in Nat
    BY <1>5
  <2>2. d * (l - k) \in Nat
    BY <2>1, ProductNat
  <2>3. x = y
    BY <1>1, <1>2, <2>1, <2>2
  <2>4. x - y = d * 0
    BY <2>3
  <2> QED BY <1>3, <2>4, Multiples
<1> QED BY <1>4, <1>5

\* The whole blocks of x bytes.
LEMMA WholeBlocks ==
  ASSUME NEW d \in Nat \ {0}, NEW x \in Nat
  PROVE  /\ x - (x % d) \in 0 .. x /\ (x - (x % d)) % d = 0 /\ x - (x - (x % d)) < d
         /\ (x - (x % d)) \div d = x \div d
         /\ \A m \in Nat : m % d = 0 /\ m <= x => m <= x - (x % d)
<1> DEFINE q == x \div d
           w == x - (x % d)
<1>1. q \in Nat /\ x % d \in 0 .. d - 1 /\ x = d * q + (x % d) /\ d * q \in Nat
  BY DivMod, ProductNat
<1>2. w = d * q /\ w \in 0 .. x /\ x - w < d
  <2> HIDE DEF q
  <2> QED BY <1>1
<1>3. IsDivided(w, d, q, 0) /\ 0 \in 0 .. d - 1
  <2> HIDE DEF q, w
  <2> QED BY <1>1, <1>2 DEF IsDivided
<1>4. w % d = 0 /\ w \div d = q
  <2> HIDE DEF q, w
  <2> QED BY <1>1, <1>2, <1>3, DivUnique
<1>5. ASSUME NEW m \in Nat, m % d = 0, m <= x PROVE m <= w
  <2>1. PICK k \in Nat : m = d * k
    BY <1>5, Multiples
  <2>2. CASE k <= q
    <3> HIDE DEF q, w
    <3>1. q = k + (q - k) /\ q - k \in Nat
      BY <1>1, <2>2
    <3>2. d * q = d * k + d * (q - k) /\ d * (q - k) \in Nat
      BY <3>1, ProductNat
    <3> QED BY <1>2, <2>1, <3>2
  <2>3. CASE q < k
    <3> HIDE DEF q, w
    <3>1. k = q + 1 + (k - q - 1) /\ k - q - 1 \in Nat
      BY <1>1, <2>3
    <3>2. d * k = d * q + d + d * (k - q - 1) /\ d * (k - q - 1) \in Nat
      BY <1>1, <3>1, ProductNat
    <3>3. m >= w + d /\ x < w + d /\ w \in Nat
      BY <1>2, <2>1, <3>2
    <3> QED BY <1>5, <3>3
  <2> QED BY <1>1, <2>2, <2>3
<1> QED BY <1>2, <1>4, <1>5

-----------------------------------------------------------------------------
(***************************************************************************)
(* The inductive invariant.                                                *)
(***************************************************************************)
CallT == [voice : Voices, slot : Slots, buf : Buffers \cup {Nobody}, va : Nat, left : Nat,
          contig : Nat, entries : Seq(EntryT), i : Nat]

SplitTypes ==
  /\ fmt \in [Voices -> Formats]
  /\ ssl \in [0 .. NumVoices * 2 * MaxSsl - 1 -> EntryT]
  /\ count \in [Voices -> [Slots -> 0 .. MaxSsl]]
  /\ sge \in [0 .. NumSge - 1 -> Int]
  /\ range \in [Voices -> [base : Nat, count : Nat]]
  /\ inbuf \in [Voices -> [base : Nat, ebo : Int]]
  /\ loaded \in [Voices -> [Slots -> Buffers \cup {Nobody}]]
  /\ submitted \in [Voices -> Buffers \cup {Nobody}]
  /\ pc \in {"idle", "split", "probe", "write", "refused", "queued", "pages"}
  /\ calls \in 0 .. MaxCalls /\ call \in CallT /\ call.contig <= call.left

\* A list describes the first va bytes of a buffer.
ListFor(es, b, f, va) ==
  /\ Len(es) <= MaxSsl /\ va \in 0 .. b.size /\ va % BlockBytes(f) = 0
  /\ Describes(es, b, f) /\ Ends(es, f)[Len(es)] = va

\* The entries of the call describe what it has gone through of its buffer.
Queueing == pc \in {"split", "probe", "write", "refused"}
QueueInv ==
  Queueing =>
    /\ call.buf \in Buffers /\ call.va + call.left = call.buf.size
    /\ ListFor(call.entries, call.buf, fmt[call.voice], call.va)
    /\ pc # "write" => call.i = 0

\* The probe has gone over contiguous bytes, up to the end of a page.
ProbeInv ==
  pc = "probe" =>
    /\ call.contig > 0 /\ ~ListFull(Len(call.entries))
    /\ Contiguous(call.buf, call.va, call.va + call.contig)
    /\ \/ call.contig = call.left
       \/ PageBegins(call.buf, call.va + call.contig)

\* The first i entries of the call are in the table.
WriteInv ==
  pc = "write" =>
    /\ call.i <= Len(call.entries)
    /\ \A k \in 1 .. call.i :
         ssl[SslBase(call.voice, call.slot) + k - 1] = call.entries[k]

\* The ranges of the voices lie apart and in the table.
RangesApart ==
  /\ \A v \in Voices : range[v].base + range[v].count <= NumSge
  /\ \A v, w \in Voices : v # w => Entries(v) \cap Entries(w) = {}

\* The first n entries of a voice's range are the pages of a buffer.
PagesOf(v, b, n) ==
  /\ range[v].count = Pages(b)
  /\ \A k \in Nat : k < n => sge[range[v].base + k] = b.frames[k + 1] * PageSize
SubmittedInv ==
  \A v \in Voices : submitted[v] # Nobody =>
    PagesOf(v, submitted[v], Pages(submitted[v])) /\ inbuf[v] = InBuf(v, submitted[v])
PagesInv ==
  pc = "pages" =>
    /\ call.buf \in Buffers /\ submitted[call.voice] = Nobody
    /\ PagesOf(call.voice, call.buf, call.i) /\ call.i <= Pages(call.buf)
    /\ call.i < Pages(call.buf) => call.va = call.i * PageSize

SplitInv ==
  /\ SplitTypes /\ QueueInv /\ ProbeInv /\ WriteInv /\ SslsDescribeBuffers
  /\ RangesApart /\ SubmittedInv /\ PagesInv

\* With blocks that fit the pages the call goes through all whole blocks.
WholeInv ==
  pc = "write" /\ BlocksFitPages(call.buf, fmt[call.voice]) =>
    call.va = call.buf.size - (call.buf.size % BlockBytes(fmt[call.voice]))

\* No split of the buffer gets as far as the call with fewer entries.
Inner(b, f) == {n \in 1 .. b.size - 1 : n % BlockBytes(f) = 0}
GreedyInv ==
  /\ pc = "refused" => ListFull(Len(call.entries))
  /\ pc \in {"split", "probe", "refused"} /\ call.left > 0
     /\ call.buf.size % BlockBytes(fmt[call.voice]) = 0 =>
       \A cuts \in SUBSET Inner(call.buf, fmt[call.voice]) :
         SplitsAt(cuts, call.buf, fmt[call.voice])
           => Len(call.entries) <= Cardinality(cuts \cap (1 .. call.va))
  /\ pc = "refused" => call.left > 0

-----------------------------------------------------------------------------
(***************************************************************************)
(* Lists of entries.                                                       *)
(***************************************************************************)
LEMMA ListEmpty ==
  ASSUME SplitAssumption, NEW b \in Buffers, NEW f \in Formats
  PROVE  ListFor(<<>>, b, f, 0)
<1>1. EndsAt(Ends(<<>>, f), <<>>, f)
  <2>1. <<>> \in Seq(EntryT)
    OBVIOUS
  <2> QED BY <2>1, EndsFacts
<1>2. Len(<<>>) = 0 /\ MaxSsl \in Nat /\ 0 \in 0 .. b.size
  BY BufferFacts DEF SplitAssumption
<1>3. 0 % BlockBytes(f) = 0
  <2>1. BlockBytes(f) \in Nat \ {0}
    BY BlockFacts
  <2>2. 0 = BlockBytes(f) * 0
    BY <2>1
  <2> QED BY <2>1, <2>2, Multiples
<1> QED BY <1>1, <1>2, <1>3 DEF ListFor, Describes, DescribesAt, EndsAt

LEMMA ListAppend ==
  ASSUME SplitAssumption, NEW b \in Buffers, NEW f \in Formats, NEW es \in Seq(EntryT),
         NEW va \in Nat, ListFor(es, b, f, va), Len(es) < MaxSsl,
         NEW p \in Nat, p % BlockBytes(f) = 0, va + p <= b.size,
         NEW e \in EntryT, BytesOf(e, f) = p, e.addr = Phys(b, va),
         e.container = ContainerSize(f), e.channels = f.channels,
         Contiguous(b, va, va + p), Phys(b, va) \in Nat
  PROVE  ListFor(Append(es, e), b, f, va + p)
<1> DEFINE n == Len(es)
           fs == Append(es, e)
           old == Ends(es, f)
           end == Ends(fs, f)
<1>1. n \in Nat /\ fs \in Seq(EntryT) /\ Len(fs) = n + 1 /\ MaxSsl \in Nat
  BY DEF SplitAssumption
<1>2. \A k \in 1 .. n : fs[k] = es[k]
  OBVIOUS
<1>3. fs[n + 1] = e
  OBVIOUS
<1>4. \A k \in 0 .. n : end[k] = old[k]
  BY EndsAppend
<1>5. end[n + 1] = old[n] + BytesOf(e, f) /\ old[n] = va
  BY EndsAppend DEF ListFor
<1>6. DescribesAt(es, b, f, old)
  BY DEF ListFor, Describes
<1>7. b.size \in Nat /\ BlockBytes(f) \in Nat \ {0}
  BY BufferFacts, BlockFacts
<1>8. (va + p) % BlockBytes(f) = 0
  BY <1>7, MultiplesAdd DEF ListFor
<1> HIDE DEF n, fs, old, end
<1>9. ASSUME NEW k \in 1 .. n + 1
      PROVE  /\ fs[k].container = ContainerSize(f) /\ fs[k].channels = f.channels
             /\ end[k] <= b.size
             /\ \A j \in end[k - 1] .. end[k] - 1 :
                  fs[k].addr + (j - end[k - 1]) = Phys(b, j)
  <2>1. CASE k = n + 1
    <3>1. k - 1 = n /\ n \in 0 .. n
      BY <1>1, <2>1
    <3>2. end[k - 1] = va /\ end[k] = va + p /\ fs[k] = e
      BY <1>3, <1>4, <1>5, <2>1, <3>1
    <3>3. ASSUME NEW j \in va .. va + p - 1 PROVE e.addr + (j - va) = Phys(b, j)
      <4>1. Phys(b, j) = Phys(b, va) + j - va
        BY SMTT(20) DEF Contiguous
      <4> QED BY <4>1
    <3> QED BY SMTT(20), <3>2, <3>3
  <2>2. CASE k # n + 1
    <3>1. k \in 1 .. n /\ k \in 0 .. n /\ k - 1 \in 0 .. n
      BY <1>1, <2>2
    <3>2. fs[k] = es[k] /\ end[k] = old[k] /\ end[k - 1] = old[k - 1]
      BY <1>2, <1>4, <3>1
    <3> QED BY SMTT(20), <1>6, <3>1, <3>2 DEF DescribesAt, n
  <2> QED BY <2>1, <2>2
<1>10. Describes(fs, b, f)
  <2>1. DescribesAt(fs, b, f, end)
    BY SMTT(20), <1>1, <1>9 DEF DescribesAt
  <2> QED BY <2>1 DEF Describes, end
<1>11. Len(fs) <= MaxSsl /\ va + p \in 0 .. b.size
  BY <1>1, <1>7 DEF n
<1>12. end[Len(fs)] = va + p
  BY <1>1, <1>5
<1> QED BY <1>8, <1>10, <1>11, <1>12 DEF ListFor, end, fs

\* The piece that is cut of c contiguous bytes.
PieceOf(c, f) == LET n == Shorter(c, MaxBytes(f)) IN n - (n % BlockBytes(f))

LEMMA PieceFacts ==
  ASSUME SplitAssumption, NEW f \in Formats, NEW c \in Nat
  PROVE  /\ PieceOf(c, f) \in 0 .. c /\ PieceOf(c, f) <= MaxBytes(f)
         /\ PieceOf(c, f) % BlockBytes(f) = 0
         /\ \A m \in Nat : m % BlockBytes(f) = 0 /\ m <= c /\ m <= MaxBytes(f)
                             => m <= PieceOf(c, f)
         /\ PieceOf(c, f) = 0 => c < BlockBytes(f)
<1> DEFINE d == BlockBytes(f)
           x == MaxBytes(f)
           n == Shorter(c, x)
           w == PieceOf(c, f)
<1>1. d \in Nat \ {0} /\ x \in Nat \ {0}
  BY BlockFacts
<1>2. n \in Nat /\ n <= c /\ n <= x /\ n \in {c, x} /\ \A m \in Nat : m <= c /\ m <= x => m <= n
  <2> HIDE DEF x
  <2> QED BY <1>1 DEF Shorter
<1>3. w = n - (n % d)
  BY DEF PieceOf
<1> HIDE DEF n, w
<1>4. /\ w \in 0 .. n /\ w % d = 0 /\ n - w < d
      /\ \A m \in Nat : m % d = 0 /\ m <= n => m <= w
  <2> HIDE DEF d
  <2> QED BY <1>1, <1>2, <1>3, WholeBlocks
<1>5. d <= x
  <2>1. x = (FieldSize - 1) * d /\ FieldSize - 1 \in Nat \ {0}
    BY DEF MaxBytes, SplitAssumption
  <2> HIDE DEF d, x
  <2>2. x = d + (FieldSize - 1 - 1) * d /\ FieldSize - 1 - 1 \in Nat
    BY <1>1, <2>1
  <2>3. (FieldSize - 1 - 1) * d \in Nat
    BY <1>1, <2>2, ProductNat
  <2> QED BY <1>1, <2>2, <2>3
<1>6. w = 0 => c < d
  <2> HIDE DEF d, x
  <2>1. ASSUME w = 0, n = x PROVE FALSE
    BY <1>1, <1>4, <1>5, <2>1
  <2> QED BY <1>1, <1>2, <1>4, <2>1
<1>7. w \in 0 .. c /\ w <= x
  <2> HIDE DEF d, x
  <2> QED BY <1>1, <1>2, <1>4
<1>8. \A m \in Nat : m % d = 0 /\ m <= c /\ m <= x => m <= w
  BY <1>2, <1>4
<1> QED BY <1>4, <1>6, <1>7, <1>8 DEF w

LEMMA DivMonotone ==
  ASSUME NEW d \in Nat \ {0}, NEW x \in Nat, NEW y \in Nat, x <= y
  PROVE  x \div d <= y \div d
<1>1. y \div d \in Nat /\ y % d \in 0 .. d - 1 /\ y = d * (y \div d) + (y % d)
  BY DivMod
<1> DEFINE q == y \div d
<1>2. d * q \in Nat /\ d * (q + 1) = d * q + d
  BY <1>1, ProductNat
<1>3. x < d * (q + 1) /\ q + 1 \in Nat
  <2> HIDE DEF q
  <2> QED BY <1>1, <1>2 DEF q
<1>4. x \div d < q + 1 /\ x \div d \in Nat
  <2> HIDE DEF q
  <2> QED BY <1>3, DivLess, DivMod
<1> HIDE DEF q
<1>5. q \in Nat
  BY <1>1 DEF q
<1>6. x \div d <= q
  BY <1>4, <1>5
<1> QED BY <1>6 DEF q

LEMMA ProductMonotone ==
  ASSUME NEW d \in Nat, NEW x \in Nat, NEW y \in Nat, x <= y
  PROVE  x * d <= y * d
<1>1. y - x \in Nat /\ y * d = x * d + (y - x) * d
  OBVIOUS
<1> QED BY <1>1, ProductNat

EntryOf(c, va, b, f) ==
  Entry(Phys(b, va), (PieceOf(c, f) \div BlockBytes(f)) * BlockSamples(f), f)

\* An entry counts what its piece holds, where the assertion holds.
LEMMA EntryCounts ==
  ASSUME SplitAssumption, PiecesCanBeCounted, NEW b \in Buffers, NEW f \in Formats,
         NEW va \in Nat, NEW c \in Nat \ {0}, va + c <= b.size, Contiguous(b, va, va + c)
  PROVE  BytesOf(EntryOf(c, va, b, f), f) = PieceOf(c, f)
<1> DEFINE d == BlockBytes(f)
           bs == BlockSamples(f)
           w == PieceOf(c, f)
           q == w \div d
           s == q * bs
           x == MaxBytes(f)
<1>1. d \in Nat \ {0} /\ bs \in Nat \ {0} /\ FieldSize \in Nat \ {0}
  BY BlockFacts DEF SplitAssumption
<1>2. w \in 0 .. c /\ w <= x /\ w % d = 0
  BY PieceFacts
<1>3. w \in Nat /\ q \in Nat /\ w = d * q
  <2>1. w \in Nat
    BY <1>2
  <2> HIDE DEF d, w
  <2>2. w \div d \in Nat /\ w = d * (w \div d) + (w % d) /\ d * (w \div d) \in Nat
    BY <1>1, <2>1, DivMod, ProductNat
  <2>3. w = d * (w \div d)
    BY <1>2, <2>2
  <2> QED BY <2>1, <2>2, <2>3
<1>4. s \in Nat
  <2> HIDE DEF bs, q
  <2> QED BY <1>1, <1>3, ProductNat
<1>5. ASSUME f.adpcm PROVE s < FieldSize
  <2>1. bs = AdpcmSamples
    BY <1>5 DEF BlockSamples
  <2>2. (c \div d) * AdpcmSamples < FieldSize
    <3>1. b.size \in Nat /\ va \in 0 .. b.size /\ va + c \in 0 .. b.size /\ va <= va + c
          /\ (va + c) - va = c
      BY SMTT(20), BufferFacts
    <3>2. (((va + c) - va) \div d) * AdpcmSamples < FieldSize
      BY <1>5, <3>1 DEF PiecesCanBeCounted
    <3> QED BY <3>1, <3>2
  <2> HIDE DEF d, bs, w
  <2>3. q <= c \div d /\ c \div d \in Nat
    <3>1. w <= c
      BY <1>2
    <3> QED BY <1>1, <1>3, <3>1, DivMonotone, DivMod
  <2> HIDE DEF q
  <2>4. q * bs <= (c \div d) * bs /\ (c \div d) * bs \in Nat
    BY <1>1, <1>3, <2>3, ProductMonotone, ProductNat
  <2> QED BY <1>4, <2>1, <2>2, <2>4, <1>1
<1>6. ASSUME ~ f.adpcm PROVE s < FieldSize
  <2>1. bs = 1
    BY <1>6 DEF BlockSamples
  <2>2. x = (FieldSize - 1) * d
    BY DEF MaxBytes
  <2> HIDE DEF d, bs, w, x
  <2>3. d * FieldSize = (FieldSize - 1) * d + d
    BY <1>1
  <2>4. (FieldSize - 1) * d \in Nat
    <3>1. FieldSize - 1 \in Nat
      BY <1>1
    <3> QED BY <1>1, <3>1, ProductNat
  <2>5. w < d * FieldSize
    BY <1>1, <1>2, <1>3, <2>2, <2>3, <2>4
  <2>6. q < FieldSize
    BY <1>1, <1>3, <2>5, DivLess
  <2> HIDE DEF q
  <2> QED BY <1>3, <2>1, <2>6
<1>7. s < FieldSize
  <2> HIDE DEF s
  <2> QED BY <1>5, <1>6
<1>8. s % FieldSize = s
  <2> HIDE DEF s
  <2>1. s \in 0 .. FieldSize - 1
    BY <1>1, <1>4, <1>7
  <2>2. IsDivided(s, FieldSize, 0, s)
    BY <1>1, <1>4 DEF IsDivided
  <2> QED BY <1>1, <1>4, <2>1, <2>2, DivUnique
<1>9. s \div bs = q
  <2> HIDE DEF bs, q
  <2>1. s = bs * q
    BY <1>1, <1>3
  <2>2. IsDivided(s, bs, q, 0) /\ 0 \in 0 .. bs - 1
    <3>1. bs * q \in Nat
      BY <1>1, <1>3, ProductNat
    <3> QED BY <2>1, <3>1, <1>1 DEF IsDivided
  <2> HIDE DEF s
  <2> QED BY <1>1, <1>3, <1>4, <2>2, DivUnique
<1>10. BytesOf(EntryOf(c, va, b, f), f) = ((s % FieldSize) \div bs) * d
  BY DEF BytesOf, EntryOf, Entry
<1>11. q * d = w
  <2> HIDE DEF q, d, w
  <2> QED BY <1>1, <1>3
<1> HIDE DEF s, q, d, bs, w
<1>12. BytesOf(EntryOf(c, va, b, f), f) = w
  BY <1>8, <1>9, <1>10, <1>11
<1> QED BY <1>12 DEF w

LEMMA EntryTypes ==
  ASSUME SplitAssumption, NEW f \in Formats, NEW a \in Int, NEW s \in Nat
  PROVE  Entry(a, s, f) \in EntryT
<1>1. s % FieldSize \in Nat
  <2>1. FieldSize \in Nat \ {0}
    BY DEF SplitAssumption
  <2>2. s % FieldSize \in 0 .. FieldSize - 1
    BY <2>1, DivMod
  <2> QED BY <2>1, <2>2
<1>2. f.channels \in Nat \ {0} /\ f.bytes_per_sample \in 1 .. 4
  BY BlockFacts DEF Format
<1>3. ContainerSize(f) \in {"ADPCM", "B8", "B16", "B32"}
  <2>1. \/ f.bytes_per_sample = 1 \/ f.bytes_per_sample = 2
        \/ f.bytes_per_sample = 3 \/ f.bytes_per_sample = 4
    BY <1>2
  <2> QED BY <2>1 DEF ContainerSize
<1> DEFINE k == ContainerSize(f)
           t == s % FieldSize
           ch == f.channels
<1>4. Entry(a, s, f) = [addr |-> a, samples |-> t, container |-> k, channels |-> ch]
  BY DEF Entry
<1>5. t \in Nat /\ ch \in Nat \ {0} /\ k \in {"ADPCM", "B8", "B16", "B32"}
  BY <1>1, <1>2, <1>3
<1> HIDE DEF t, ch, k
<1> QED BY <1>4, <1>5 DEF EntryT

-----------------------------------------------------------------------------
(***************************************************************************)
(* The table of the entries.                                               *)
(***************************************************************************)
LEMMA SslPosition ==
  ASSUME SplitAssumption, NEW v \in Voices, NEW s \in Slots, NEW k \in 0 .. MaxSsl - 1
  PROVE  /\ SslBase(v, s) + k \in 0 .. NumVoices * 2 * MaxSsl - 1
         /\ (SslBase(v, s) + k) \div MaxSsl = 2 * v + s
         /\ (SslBase(v, s) + k) % MaxSsl = k
         /\ SslBase(v, s) \in Nat
<1> DEFINE q == 2 * v + s
           a == SslBase(v, s) + k
<1>1. /\ MaxSsl \in Nat \ {0} /\ NumVoices \in Nat \ {0} /\ v \in Nat /\ v <= NumVoices - 1
      /\ s \in {0, 1}
  BY DEF SplitAssumption, Voices, Slots
<1>2. q \in Nat /\ q <= NumVoices * 2 - 1
  BY <1>1
<1>3. SslBase(v, s) = MaxSsl * q
  <2>1. SslBase(v, s) = v * 2 * MaxSsl + s * MaxSsl
    BY DEF SslBase
  <2>2. s * MaxSsl = MaxSsl * s
    BY <1>1
  <2>3. v * 2 * MaxSsl = MaxSsl * (2 * v)
    BY <1>1
  <2>4. MaxSsl * (2 * v + s) = MaxSsl * (2 * v) + MaxSsl * s
    BY <1>1
  <2> QED BY <2>1, <2>2, <2>3, <2>4
<1>4. MaxSsl * q \in Nat
  <2> HIDE DEF q
  <2> QED BY <1>1, <1>2, ProductNat
<1>5. a = MaxSsl * q + k /\ a \in Nat /\ IsDivided(a, MaxSsl, q, k)
  <2> HIDE DEF q
  <2> QED BY <1>1, <1>3, <1>4 DEF IsDivided
<1>6. a \div MaxSsl = q /\ a % MaxSsl = k
  <2> HIDE DEF q, a
  <2> QED BY <1>1, <1>2, <1>5, DivUnique
<1>7. a \in 0 .. NumVoices * 2 * MaxSsl - 1
  <2> DEFINE m == NumVoices * 2
  <2>1. m \in Nat /\ q <= m - 1
    BY <1>1, <1>2
  <2> HIDE DEF q, a, m
  <2>2. m * MaxSsl = MaxSsl * q + MaxSsl + MaxSsl * (m - 1 - q) /\ m - 1 - q \in Nat
    BY <1>1, <1>2, <2>1
  <2>3. MaxSsl * (m - 1 - q) \in Nat
    BY <1>1, <2>2, ProductNat
  <2> DEFINE all == m * MaxSsl
             over == MaxSsl * (m - 1 - q)
             here == MaxSsl * q
  <2>4. /\ all = here + MaxSsl + over /\ over \in Nat /\ here \in Nat /\ a = here + k
        /\ MaxSsl \in Nat /\ k \in 0 .. MaxSsl - 1
    BY <1>1, <1>4, <1>5, <2>2, <2>3
  <2> HIDE DEF all, over, here
  <2>5. a \in 0 .. all - 1
    BY <2>4
  <2>6. a \in 0 .. m * MaxSsl - 1
    BY <2>5 DEF all
  <2> QED BY <2>6 DEF m
<1>8. SslBase(v, s) \in Nat
  BY <1>3, <1>4
<1> QED BY <1>6, <1>7, <1>8

\* No two slots share a position of the table.
LEMMA SslApart ==
  ASSUME SplitAssumption, NEW v \in Voices, NEW s \in Slots, NEW w \in Voices, NEW t \in Slots,
         NEW k \in 0 .. MaxSsl - 1, NEW l \in 0 .. MaxSsl - 1,
         SslBase(v, s) + k = SslBase(w, t) + l
  PROVE  v = w /\ s = t /\ k = l
<1>1. 2 * v + s = 2 * w + t /\ k = l
  BY SMTT(20), SslPosition
<1>2. v \in Nat /\ w \in Nat /\ s \in {0, 1} /\ t \in {0, 1}
  BY DEF Voices, Slots
<1> QED BY <1>1, <1>2

\* The window shows the position its number and the offset in it name.
LEMMA WindowShows ==
  ASSUME SplitAssumption, NEW k \in Nat
  PROVE  (k \div SegSize) * SegSize + InSegment(k) = k
<1>1. SegSize \in Nat \ {0}
  BY DEF SplitAssumption
<1>2. k \div SegSize \in Nat /\ k % SegSize \in 0 .. SegSize - 1
      /\ k = SegSize * (k \div SegSize) + (k % SegSize)
  BY <1>1, DivMod
<1> DEFINE q == k \div SegSize
           r == k % SegSize
<1>3. q * SegSize = SegSize * q
  <2>1. q \in Nat
    BY <1>2
  <2> HIDE DEF q
  <2> QED BY <1>1, <2>1
<1>4. k = SegSize * q + r
  BY <1>2
<1> QED BY <1>3, <1>4 DEF InSegment

\* A list in a slot stays if the positions of the slot stay.
LEMMA PlayedSame ==
  ASSUME SplitAssumption, SplitTypes, NEW v \in Voices, NEW s \in Slots,
         count'[v][s] = count[v][s],
         \A k \in 0 .. MaxSsl - 1 : ssl'[SslBase(v, s) + k] = ssl[SslBase(v, s) + k]
  PROVE  Played(v, s)' = Played(v, s)
<1> DEFINE n == count[v][s]
           base == SslBase(v, s)
<1>1. n \in 0 .. MaxSsl /\ MaxSsl \in Nat
  BY DEF SplitTypes, SplitAssumption
<1>2. base \in Nat
  <2>1. 0 \in 0 .. MaxSsl - 1
    BY DEF SplitAssumption
  <2> QED BY <2>1, SslPosition
<1>3. \A k \in 1 .. n : ssl'[base + k - 1] = ssl[base + k - 1]
  <2> HIDE DEF n, base
  <2>1. ASSUME NEW k \in 1 .. n PROVE ssl'[base + k - 1] = ssl[base + k - 1]
    <3>1. k - 1 \in 0 .. MaxSsl - 1 /\ base + (k - 1) = base + k - 1
      BY <1>1, <1>2
    <3> QED BY <3>1 DEF base
  <2> QED BY <2>1
<1>4. Played(v, s)' = [k \in 1 .. n |-> ssl'[base + k - 1]]
  BY DEF Played, SslBase
<1>5. Played(v, s) = [k \in 1 .. n |-> ssl[base + k - 1]]
  BY DEF Played
<1> HIDE DEF n, base
<1> QED BY <1>3, <1>4, <1>5

\* What is loaded in a slot is described as before.
LEMMA SlotSame ==
  ASSUME SplitAssumption, SplitTypes, SslsDescribeBuffers, NEW v \in Voices, NEW s \in Slots,
         ~ BeingWritten(v, s), fmt' = fmt, loaded'[v][s] = loaded[v][s],
         count'[v][s] = count[v][s], loaded'[v][s] # Nobody,
         \A k \in 0 .. MaxSsl - 1 : ssl'[SslBase(v, s) + k] = ssl[SslBase(v, s) + k]
  PROVE  Describes(Played(v, s)', loaded'[v][s], fmt'[v])
BY PlayedSame DEF SslsDescribeBuffers

-----------------------------------------------------------------------------
(***************************************************************************)
(* The steps.                                                              *)
(***************************************************************************)
LEMMA TablesSame ==
  ASSUME SplitAssumption, SplitInv, UNCHANGED <<fmt, table, loaded, submitted>>, pc # "write"
  PROVE  SslsDescribeBuffers' /\ RangesApart' /\ SubmittedInv'
<1>1. \A v \in Voices, s \in Slots : Played(v, s)' = Played(v, s)
  BY DEF Played, table
<1>2. ASSUME NEW v \in Voices, NEW s \in Slots, loaded'[v][s] # Nobody
      PROVE  Describes(Played(v, s)', loaded'[v][s], fmt'[v])
  <2>1. ~ BeingWritten(v, s)
    BY DEF BeingWritten
  <2>2. Describes(Played(v, s), loaded[v][s], fmt[v])
    BY <1>2, <2>1 DEF SplitInv, SslsDescribeBuffers
  <2> QED BY <1>1, <2>2
<1>3. SslsDescribeBuffers'
  BY <1>2 DEF SslsDescribeBuffers
<1>4. RangesApart'
  BY DEF SplitInv, RangesApart, Entries, table
<1>5. SubmittedInv'
  BY DEF SplitInv, SubmittedInv, PagesOf, InBuf, table
<1> QED BY <1>3, <1>4, <1>5

LEMMA InitStep == ASSUME SplitAssumption, Init PROVE SplitInv
<1>1. 0 \in Voices /\ 0 \in Slots /\ MaxSsl \in Nat /\ NumSge \in Nat
  BY DEF SplitAssumption, Voices, Slots
<1>2. NoCall \in CallT
  BY <1>1 DEF NoCall, CallT
<1>3. NoEntry \in EntryT
  BY DEF NoEntry, EntryT
<1>4. SplitTypes
  <2>1. MaxCalls \in Nat
    BY DEF SplitAssumption
  <2> QED BY <1>1, <1>2, <1>3, <2>1 DEF Init, SplitTypes, NoCall
<1>5. QueueInv /\ ProbeInv /\ WriteInv /\ PagesInv
  BY DEF Init, QueueInv, Queueing, ProbeInv, WriteInv, PagesInv
<1>6. SslsDescribeBuffers /\ SubmittedInv
  BY DEF Init, SslsDescribeBuffers, SubmittedInv
<1>7. RangesApart
  BY SMTT(20), <1>1 DEF Init, RangesApart, Entries
<1> QED BY <1>4, <1>5, <1>6, <1>7 DEF SplitInv

LEMMA QueueStep ==
  ASSUME SplitAssumption, SplitInv, NEW v \in Voices, NEW s \in Slots, NEW b \in Buffers,
         Queue(v, s, b)
  PROVE  SplitInv'
<1>1. b.size \in Nat /\ fmt[v] \in Formats
  BY BufferFacts DEF SplitInv, SplitTypes
<1>2. /\ call' = [voice |-> v, slot |-> s, buf |-> b, va |-> 0, left |-> b.size,
                  contig |-> 0, entries |-> <<>>, i |-> 0]
      /\ pc' = "split" /\ pc = "idle" /\ calls < MaxCalls /\ calls' = calls + 1
      /\ UNCHANGED <<fmt, table, loaded, submitted>>
  BY DEF Queue, NoCall
<1>3. call' \in CallT
  <2>1. <<>> \in Seq(EntryT)
    OBVIOUS
  <2> QED BY <1>1, <1>2, <2>1 DEF CallT
<1>4. SplitTypes'
  <2>1. calls' \in 0 .. MaxCalls
    BY <1>2 DEF SplitInv, SplitTypes, SplitAssumption
  <2>2. call'.contig <= call'.left
    BY <1>1, <1>2
  <2> QED BY <1>2, <1>3, <2>1, <2>2 DEF SplitInv, SplitTypes, table
<1>5. ListFor(<<>>, b, fmt[v], 0)
  BY <1>1, ListEmpty
<1>6. QueueInv'
  BY <1>1, <1>2, <1>5 DEF QueueInv
<1>7. ProbeInv' /\ WriteInv' /\ PagesInv'
  BY <1>2 DEF ProbeInv, WriteInv, PagesInv
<1> QED BY <1>2, <1>4, <1>6, <1>7, TablesSame DEF SplitInv

LEMMA RefuseStep ==
  ASSUME SplitAssumption, SplitInv, Refuse PROVE SplitInv'
<1>1. pc = "split" /\ pc' = "refused" /\ UNCHANGED <<fmt, table, loaded, submitted, calls, call>>
  BY DEF Refuse
<1>2. SplitTypes'
  BY <1>1 DEF SplitInv, SplitTypes, table
<1>3. QueueInv' /\ ProbeInv' /\ WriteInv' /\ PagesInv'
  BY <1>1 DEF SplitInv, QueueInv, Queueing, ProbeInv, WriteInv, PagesInv
<1> QED BY <1>1, <1>2, <1>3, TablesSame DEF SplitInv

LEMMA ProbeStep ==
  ASSUME SplitAssumption, SplitInv, Probe PROVE SplitInv'
<1> DEFINE b == call.buf
           c == IF b.direct THEN call.left ELSE Shorter(RestOfPage(b, call.va), call.left)
<1>1. /\ pc = "split" /\ pc' = "probe" /\ call.left > 0 /\ ~ListFull(Len(call.entries))
      /\ call' = [call EXCEPT !.contig = c]
      /\ UNCHANGED <<fmt, table, loaded, submitted, calls>>
  BY DEF Probe
<1>2. b \in Buffers /\ call.va + call.left = b.size /\ call \in CallT
  BY <1>1 DEF SplitInv, QueueInv, Queueing, SplitTypes
<1>3. call.va \in Nat /\ call.left \in Nat /\ b.size \in Nat /\ call.left = b.size - call.va
      /\ call.va < b.size
  BY SMTT(20), <1>1, <1>2, BufferFacts DEF CallT
<1>4. /\ c \in 1 .. call.left /\ Contiguous(b, call.va, call.va + c)
      /\ c = call.left \/ PageBegins(b, call.va + c)
  <2>1. CASE b.direct
    <3>1. c = call.left /\ call.va + c = b.size
      BY <1>3, <2>1
    <3> QED BY SMTT(20), <1>1, <1>2, <1>3, <2>1, <3>1, DirectContiguous
  <2>2. CASE ~ b.direct
    <3>1. c = Shorter(RestOfPage(b, call.va), b.size - call.va)
      BY <1>3, <2>2
    <3> HIDE DEF c, b
    <3>2. c \in 1 .. b.size - call.va /\ Contiguous(b, call.va, call.va + c)
          /\ (call.va + c = b.size \/ PageBegins(b, call.va + c))
      BY <1>2, <1>3, <3>1, RunBegins
    <3> QED BY <1>3, <3>2
  <2> QED BY <2>1, <2>2
<1> HIDE DEF c
<1>5. /\ call'.contig = c /\ call'.buf = b /\ call'.va = call.va /\ call'.left = call.left
      /\ call'.entries = call.entries /\ call'.voice = call.voice
  BY <1>1, <1>2 DEF CallT
<1>6. call' \in CallT
  <2>1. c \in Nat
    BY <1>3, <1>4
  <2> QED BY <1>1, <1>2, <2>1 DEF CallT
<1>7. SplitTypes'
  <2>1. call'.contig <= call'.left
    BY <1>3, <1>4, <1>5
  <2> QED BY <1>1, <1>6, <2>1 DEF SplitInv, SplitTypes, table
<1>8. QueueInv'
  BY <1>1, <1>5 DEF SplitInv, QueueInv, Queueing
<1>9. ProbeInv'
  <2>1. c > 0
    BY <1>3, <1>4
  <2> QED BY <1>1, <1>4, <1>5, <2>1 DEF ProbeInv
<1>10. WriteInv' /\ PagesInv'
  BY <1>1 DEF WriteInv, PagesInv
<1> QED BY <1>1, <1>7, <1>8, <1>9, <1>10, TablesSame DEF SplitInv

LEMMA ProbeNextStep ==
  ASSUME SplitAssumption, SplitInv, ProbeNext PROVE SplitInv'
<1> DEFINE b == call.buf
           m == call.va
           n == call.va + call.contig
           r == Shorter(RestOfPage(b, n), call.left - call.contig)
<1>1. /\ pc = "probe" /\ pc' = "probe" /\ call.contig < call.left
      /\ Phys(b, n) = Phys(b, m) + call.contig
      /\ call' = [call EXCEPT !.contig = call.contig + r]
      /\ UNCHANGED <<fmt, table, loaded, submitted, calls>>
  BY DEF ProbeNext, Continues
<1>2. b \in Buffers /\ call.va + call.left = b.size /\ call \in CallT
  BY <1>1 DEF SplitInv, QueueInv, Queueing, SplitTypes
<1>3. /\ call.contig > 0 /\ ~ListFull(Len(call.entries)) /\ Contiguous(b, m, n)
  BY <1>1 DEF SplitInv, ProbeInv
<1>4. /\ m \in Nat /\ n \in Nat /\ m < n /\ n < b.size /\ b.size \in Nat
      /\ call.contig \in Nat /\ call.left \in Nat /\ n - m = call.contig
      /\ call.left - call.contig = b.size - n /\ call.left = b.size - m
  <2> DEFINE c == call.contig
             left == call.left
             size == b.size
  <2>1. m \in Nat /\ c \in Nat /\ left \in Nat /\ size \in Nat
    BY <1>2, BufferFacts DEF CallT
  <2>2. c < left /\ c > 0 /\ m + left = size /\ n = m + c
    BY <1>1, <1>2, <1>3
  <2> HIDE DEF b, m, n, c, left, size
  <2>3. m < n /\ n < size /\ n \in Nat /\ n - m = c /\ left - c = size - n /\ left = size - m
    BY <2>1, <2>2
  <2> QED BY <2>1, <2>3 DEF c, left, size
<1>5. /\ r \in 1 .. b.size - n /\ Contiguous(b, n, n + r)
      /\ n + r = b.size \/ PageBegins(b, n + r)
  <2>1. r = Shorter(RestOfPage(b, n), b.size - n)
    BY <1>4
  <2> HIDE DEF b, n, r
  <2> QED BY <1>2, <1>4, <2>1, RunBegins
<1>6. Contiguous(b, m, n + r)
  <2>1. Phys(b, n) = Phys(b, m) + (n - m)
    BY <1>1, <1>4
  <2> HIDE DEF b, m, n, r
  <2> QED BY <1>2, <1>3, <1>4, <1>5, <2>1, RunGrows
<1> DEFINE c == call.contig + r
<1>7. c \in 1 .. call.left /\ m + c = n + r /\ c \in Nat
  <2> DEFINE k == call.contig
             left == call.left
             size == b.size
  <2>1. /\ m \in Nat /\ n \in Nat /\ k \in Nat /\ left \in Nat /\ size \in Nat
        /\ n - m = k /\ left - k = size - n /\ r \in 1 .. size - n /\ c = k + r
    BY <1>4, <1>5
  <2> HIDE DEF r, b, n, m, c, k, left, size
  <2>2. c \in 1 .. left /\ m + c = n + r /\ c \in Nat
    BY <2>1
  <2> QED BY <2>2 DEF left
<1>8. c = call.left \/ PageBegins(b, m + c)
  <2>1. n + r = b.size => c = call.left
    <3> DEFINE left == call.left
               size == b.size
    <3>1. m \in Nat /\ c \in Nat /\ left = size - m /\ size \in Nat /\ m + c = n + r
      BY <1>4, <1>7
    <3> HIDE DEF r, b, n, m, c, left, size
    <3>2. n + r = size => c = left
      BY <3>1
    <3> QED BY <3>2 DEF left, size
  <2> HIDE DEF r, b, n, m, c
  <2> QED BY <1>5, <1>7, <2>1
<1>9. call' = [call EXCEPT !.contig = c] /\ Contiguous(b, m, m + c)
  <2> HIDE DEF r, b, n, m
  <2> QED BY <1>1, <1>6, <1>7
<1> HIDE DEF c
<1>10. /\ call'.contig = c /\ call'.buf = b /\ call'.va = m /\ call'.left = call.left
       /\ call'.entries = call.entries /\ call'.voice = call.voice
  BY <1>2, <1>9 DEF CallT
<1>11. call' \in CallT
  BY <1>2, <1>7, <1>9 DEF CallT
<1>12. SplitTypes'
  <2>1. call'.contig <= call'.left
    BY <1>4, <1>7, <1>10
  <2> QED BY <1>1, <1>11, <2>1 DEF SplitInv, SplitTypes, table
<1>13. QueueInv'
  BY <1>1, <1>10 DEF SplitInv, QueueInv, Queueing
<1>14. ProbeInv'
  <2>1. c > 0
    BY <1>4, <1>7
  <2> QED BY <1>1, <1>3, <1>8, <1>9, <1>10, <2>1 DEF ProbeInv
<1>15. WriteInv' /\ PagesInv'
  BY <1>1 DEF WriteInv, PagesInv
<1> QED BY <1>1, <1>12, <1>13, <1>14, <1>15, TablesSame DEF SplitInv

LEMMA EmitStep ==
  ASSUME SplitAssumption, PiecesCanBeCounted, SplitInv, Emit PROVE SplitInv'
<1> DEFINE f == fmt[call.voice]
           b == call.buf
           va == call.va
           es == call.entries
           c == call.contig
           p == PieceOf(c, f)
           e == EntryOf(c, va, b, f)
<1>1. /\ pc = "probe" /\ Piece(f) = p
      /\ UNCHANGED <<fmt, table, loaded, submitted, calls>>
  BY DEF Emit, Piece, PieceOf
<1>2. \/ p = 0 /\ pc' = "write" /\ call' = [call EXCEPT !.contig = 0]
      \/ /\ p # 0 /\ pc' = "split"
         /\ call' = [call EXCEPT !.va = va + p, !.left = call.left - p, !.contig = 0,
                                 !.entries = Append(es, e)]
  BY <1>1 DEF Emit, EntryOf, Samples
<1>3. /\ b \in Buffers /\ va + call.left = b.size /\ call \in CallT /\ f \in Formats
      /\ ListFor(es, b, f, va)
  BY <1>1 DEF SplitInv, QueueInv, Queueing, SplitTypes, CallT
<1>4. c > 0 /\ ~ListFull(Len(es)) /\ Contiguous(b, va, va + c) /\ c <= call.left
  BY <1>1 DEF SplitInv, ProbeInv, SplitTypes
<1>5. /\ va \in Nat /\ c \in Nat \ {0} /\ call.left \in Nat /\ es \in Seq(EntryT)
      /\ b.size \in Nat /\ va + c <= b.size /\ va < b.size
  BY SMTT(20), <1>3, <1>4, BufferFacts DEF CallT
<1>6. p \in 0 .. c /\ p % BlockBytes(f) = 0
  <2> HIDE DEF f, c
  <2> QED BY <1>3, <1>5, PieceFacts
<1>7. BytesOf(e, f) = p
  <2> HIDE DEF f, c, b, va
  <2> QED BY <1>3, <1>4, <1>5, EntryCounts
<1>8. Phys(b, va) \in Nat
  <2> HIDE DEF b, va
  <2> QED BY <1>3, <1>5, PhysFacts
<1>9. /\ e \in EntryT /\ e.addr = Phys(b, va) /\ e.container = ContainerSize(f)
      /\ e.channels = f.channels
  <2> DEFINE s == (PieceOf(c, f) \div BlockBytes(f)) * BlockSamples(f)
  <2>1. s \in Nat
    <3>1. BlockBytes(f) \in Nat \ {0} /\ BlockSamples(f) \in Nat /\ p \in Nat
      BY SMTT(20), <1>3, <1>5, <1>6, BlockFacts
    <3>2. p \div BlockBytes(f) \in Nat
      <4> HIDE DEF f, p
      <4> QED BY <3>1, DivMod
    <3> QED BY <3>1, <3>2, ProductNat
  <2>2. e = Entry(Phys(b, va), s, f)
    BY DEF EntryOf
  <2> HIDE DEF s, b, f, va, e
  <2>3. Entry(Phys(b, va), s, f) \in EntryT
    BY SMTT(20), <1>3, <1>8, <2>1, EntryTypes
  <2> QED BY <2>2, <2>3 DEF Entry
<1> HIDE DEF e, p
<1>10. ASSUME p = 0 PROVE SplitInv'
  <2>1. pc' = "write" /\ call' = [call EXCEPT !.contig = 0]
    BY <1>2, <1>10
  <2>2. /\ call'.contig = 0 /\ call'.buf = b /\ call'.va = va /\ call'.left = call.left
        /\ call'.entries = es /\ call'.voice = call.voice /\ call'.i = call.i
        /\ call' \in CallT
    BY <1>3, <2>1 DEF CallT
  <2>3. SplitTypes'
    <3>1. call'.contig <= call'.left
      BY <1>5, <2>2
    <3> QED BY <1>1, <2>1, <2>2, <3>1 DEF SplitInv, SplitTypes, table
  <2>4. QueueInv'
    BY <1>1, <1>3, <2>1, <2>2 DEF QueueInv
  <2>5. ProbeInv' /\ PagesInv'
    BY <2>1 DEF ProbeInv, PagesInv
  <2>6. WriteInv'
    <3>1. call'.i = 0 /\ Len(es) \in Nat
      BY <1>1, <1>5, <2>2 DEF SplitInv, QueueInv, Queueing
    <3> QED BY <2>2, <3>1 DEF WriteInv
  <2> QED BY <1>1, <2>3, <2>4, <2>5, <2>6, TablesSame DEF SplitInv
<1>11. ASSUME p # 0 PROVE SplitInv'
  <2>1. /\ pc' = "split"
        /\ call' = [call EXCEPT !.va = va + p, !.left = call.left - p, !.contig = 0,
                                !.entries = Append(es, e)]
    BY <1>2, <1>11
  <2>2. p \in Nat /\ p <= c /\ va + p <= b.size /\ call.left - p \in Nat
        /\ (va + p) + (call.left - p) = b.size /\ va + p \in Nat
    <3> DEFINE left == call.left
               size == b.size
    <3>1. /\ p \in Nat /\ p <= c /\ c <= left /\ va + left = size
          /\ va \in Nat /\ left \in Nat /\ c \in Nat
      BY <1>3, <1>4, <1>5, <1>6
    <3> HIDE DEF va, c, b, left, size
    <3>2. p \in Nat /\ p <= c /\ va + p <= size /\ left - p \in Nat
          /\ (va + p) + (left - p) = size /\ va + p \in Nat
      BY <3>1
    <3> QED BY <3>2 DEF left, size
  <2>3. ListFor(Append(es, e), b, f, va + p)
    <3>1. Contiguous(b, va, va + p)
      <4>1. p \in Nat /\ p <= c /\ va \in Nat /\ c \in Nat
        BY <1>5, <2>2
      <4> HIDE DEF va, c, b
      <4> QED BY <1>4, <4>1, ContiguousPart
    <3>2. Len(es) < MaxSsl
      BY <1>4, <1>5 DEF ListFull, SplitAssumption
    <3> HIDE DEF b, f, es, va, c
    <3> QED BY <1>3, <1>5, <1>6, <1>7, <1>8, <1>9, <2>2, <3>1, <3>2, ListAppend
  <2>4. Append(es, e) \in Seq(EntryT)
    <3> HIDE DEF es
    <3> QED BY <1>5, <1>9
  <2>5. /\ call'.contig = 0 /\ call'.buf = b /\ call'.va = va + p
        /\ call'.left = call.left - p /\ call'.entries = Append(es, e)
        /\ call'.voice = call.voice /\ call'.i = call.i /\ call' \in CallT
    BY <1>3, <2>1, <2>2, <2>4 DEF CallT
  <2>6. SplitTypes'
    <3>1. call'.contig <= call'.left
      BY <2>2, <2>5
    <3> QED BY <1>1, <2>1, <2>5, <3>1 DEF SplitInv, SplitTypes, table
  <2>7. QueueInv'
    <3>1. fmt'[call'.voice] = f /\ call'.i = 0
      BY <1>1, <2>5 DEF SplitInv, QueueInv, Queueing
    <3> HIDE DEF b, f, es, va
    <3> QED BY <1>3, <2>2, <2>3, <2>5, <3>1 DEF QueueInv
  <2>8. ProbeInv' /\ WriteInv' /\ PagesInv'
    BY <2>1 DEF ProbeInv, WriteInv, PagesInv
  <2> QED BY <1>1, <2>6, <2>7, <2>8, TablesSame DEF SplitInv
<1> QED BY <1>10, <1>11

LEMMA SplitDoneStep ==
  ASSUME SplitAssumption, SplitInv, SplitDone PROVE SplitInv'
<1>1. pc = "split" /\ pc' = "write" /\ UNCHANGED <<fmt, table, loaded, submitted, calls, call>>
  BY DEF SplitDone
<1>2. SplitTypes'
  BY <1>1 DEF SplitInv, SplitTypes, table
<1>3. QueueInv' /\ ProbeInv' /\ PagesInv'
  BY <1>1 DEF SplitInv, QueueInv, Queueing, ProbeInv, PagesInv
<1>4. WriteInv'
  <2>1. call.i = 0 /\ Len(call.entries) \in Nat
    BY <1>1 DEF SplitInv, QueueInv, Queueing, SplitTypes, CallT
  <2> QED BY <1>1, <2>1 DEF WriteInv
<1> QED BY <1>1, <1>2, <1>3, <1>4, TablesSame DEF SplitInv

\* A write through the window leaves the positions of the other slots alone.
LEMMA OthersKept ==
  ASSUME SplitAssumption, SplitInv, WriteSsl, NEW w \in Voices, NEW t \in Slots,
         ~ BeingWritten(w, t)
  PROVE  \A l \in 0 .. MaxSsl - 1 : ssl'[SslBase(w, t) + l] = ssl[SslBase(w, t) + l]
<1> DEFINE v == call.voice
           s == call.slot
           i == call.i
           k == SslBase(v, s) + i
           es == call.entries
<1>1. /\ pc = "write" /\ i < Len(es) /\ segment' = k \div SegSize
      /\ ssl' = [ssl EXCEPT ![segment' * SegSize + InSegment(k)] = es[i + 1]]
  BY DEF WriteSsl
<1>2. /\ v \in Voices /\ s \in Slots /\ i \in Nat /\ Len(es) \in Nat
      /\ Len(es) <= MaxSsl /\ MaxSsl \in Nat
  BY <1>1 DEF SplitInv, SplitTypes, CallT, QueueInv, Queueing, ListFor, SplitAssumption
<1>3. i \in 0 .. MaxSsl - 1
  <2> HIDE DEF i, es
  <2> QED BY <1>1, <1>2
<1>4. k \in Nat
  <2>1. SslBase(v, s) \in Nat
    <3> HIDE DEF v, s, i
    <3> QED BY <1>2, <1>3, SslPosition
  <2> HIDE DEF v, s, i
  <2> QED BY <1>2, <2>1
<1>5. ssl' = [ssl EXCEPT ![k] = es[i + 1]]
  <2> HIDE DEF k
  <2> QED BY <1>1, <1>4, WindowShows
<1>6. v # w \/ s # t
  BY <1>1 DEF BeingWritten
<1>7. ASSUME NEW l \in 0 .. MaxSsl - 1
      PROVE  ssl'[SslBase(w, t) + l] = ssl[SslBase(w, t) + l]
  <2>1. ASSUME SslBase(w, t) + l = k PROVE FALSE
    <3>1. SslBase(v, s) + i = SslBase(w, t) + l /\ v \in Voices /\ s \in Slots
      BY <1>2, <2>1
    <3> HIDE DEF v, s, i
    <3>2. v = w /\ s = t
      BY <1>3, <3>1, SslApart
    <3> QED BY <1>6, <3>2
  <2>2. SslBase(w, t) + l \in DOMAIN ssl
    BY SslPosition DEF SplitInv, SplitTypes
  <2> HIDE DEF k, es, i
  <2> QED BY <1>5, <2>1, <2>2
<1> QED BY <1>7

LEMMA WriteSslStep ==
  ASSUME SplitAssumption, SplitInv, WriteSsl PROVE SplitInv'
<1> DEFINE v == call.voice
           s == call.slot
           i == call.i
           k == SslBase(v, s) + i
           es == call.entries
<1>1. /\ pc = "write" /\ pc' = "write" /\ i < Len(es)
      /\ ssl' = [ssl EXCEPT ![segment' * SegSize + InSegment(k)] = es[i + 1]]
      /\ segment' = k \div SegSize
      /\ call' = [call EXCEPT !.i = i + 1]
      /\ UNCHANGED <<fmt, count, sge, range, inbuf, loaded, submitted, calls>>
  BY DEF WriteSsl
<1>2. /\ call \in CallT /\ v \in Voices /\ s \in Slots /\ i \in Nat /\ es \in Seq(EntryT)
      /\ Len(es) <= MaxSsl /\ Len(es) \in Nat /\ MaxSsl \in Nat
  BY <1>1 DEF SplitInv, SplitTypes, CallT, QueueInv, Queueing, ListFor, SplitAssumption
<1>3. i \in 0 .. MaxSsl - 1
  <2> HIDE DEF i, es
  <2> QED BY <1>1, <1>2
<1>4. k \in 0 .. NumVoices * 2 * MaxSsl - 1 /\ k \in Nat
  <2>1. k \in 0 .. NumVoices * 2 * MaxSsl - 1 /\ SslBase(v, s) \in Nat
    <3> HIDE DEF v, s, i
    <3> QED BY <1>2, <1>3, SslPosition
  <2> HIDE DEF v, s, i
  <2> QED BY <1>2, <2>1
<1>5. ssl' = [ssl EXCEPT ![k] = es[i + 1]]
  <2> HIDE DEF k
  <2> QED BY <1>1, <1>4, WindowShows
<1>6. es[i + 1] \in EntryT
  <2> HIDE DEF es, i
  <2>1. i + 1 \in 1 .. Len(es)
    BY <1>1, <1>2
  <2> QED BY <1>2, <2>1
<1>7. /\ call'.voice = v /\ call'.slot = s /\ call'.buf = call.buf /\ call'.va = call.va
      /\ call'.left = call.left /\ call'.contig = call.contig /\ call'.entries = es
      /\ call'.i = i + 1 /\ call' \in CallT
  <2> DEFINE j == i + 1
  <2>1. call \in CallT /\ call' = [call EXCEPT !.i = j]
    BY <1>1, <1>2
  <2>2. j \in Nat
    <3> HIDE DEF i
    <3> QED BY <1>2
  <2> HIDE DEF j
  <2> QED BY <2>1, <2>2 DEF CallT, j
<1>8. SplitTypes'
  <2>1. ssl' \in [0 .. NumVoices * 2 * MaxSsl - 1 -> EntryT]
    <3> HIDE DEF k, es, i
    <3> QED BY <1>4, <1>5, <1>6 DEF SplitInv, SplitTypes
  <2> QED BY <1>1, <1>7, <2>1 DEF SplitInv, SplitTypes
<1>9. QueueInv'
  BY <1>1, <1>7 DEF SplitInv, QueueInv, Queueing
<1>10. ProbeInv' /\ PagesInv'
  BY <1>1 DEF ProbeInv, PagesInv
<1>11. WriteInv'
  <2>1. ASSUME NEW j \in 1 .. i + 1 PROVE ssl'[SslBase(v, s) + j - 1] = es[j]
    <3>1. SslBase(v, s) \in Nat /\ j \in Nat /\ SslBase(v, s) + j - 1 = SslBase(v, s) + (j - 1)
      <4>1. SslBase(v, s) \in Nat
        <5> HIDE DEF v, s
        <5> QED BY <1>2, <1>3, SslPosition
      <4> HIDE DEF i, v, s
      <4> QED BY <1>2, <4>1
    <3>2. j - 1 \in 0 .. MaxSsl - 1
      <4> HIDE DEF i
      <4> QED BY <1>2, <1>3
    <3>3. SslBase(v, s) + (j - 1) \in DOMAIN ssl
      <4> HIDE DEF v, s
      <4> QED BY <1>2, <3>2, SslPosition DEF SplitInv, SplitTypes
    <3>4. CASE j = i + 1
      <4>1. SslBase(v, s) + (j - 1) = k
        <5> HIDE DEF v, s, i
        <5> QED BY <1>2, <3>1, <3>4
      <4> HIDE DEF k, es, i
      <4> QED BY <1>5, <3>1, <3>3, <3>4, <4>1
    <3>5. CASE j # i + 1
      <4>1. j \in 1 .. i /\ j - 1 # i
        <5> HIDE DEF i
        <5> QED BY <1>2, <3>5
      <4>2. SslBase(v, s) + (j - 1) # k
        <5> HIDE DEF v, s, i
        <5> QED BY <1>2, <1>3, <3>2, <4>1, SslApart
      <4>3. ssl[SslBase(v, s) + j - 1] = es[j]
        BY <1>1, <4>1 DEF SplitInv, WriteInv
      <4> HIDE DEF k, es, i
      <4> QED BY <1>5, <3>1, <3>3, <4>2, <4>3
    <3> QED BY <3>4, <3>5
  <2>2. i + 1 <= Len(es)
    <3> HIDE DEF i, es
    <3> QED BY <1>1, <1>2
  <2>3. SslBase(v, s)' = SslBase(call'.voice, call'.slot)
    BY DEF SslBase
  <2> QED BY <1>7, <2>1, <2>2 DEF WriteInv
<1>12. SslsDescribeBuffers'
  <2> SUFFICES ASSUME NEW w \in Voices, NEW t \in Slots, loaded'[w][t] # Nobody,
                      ~ BeingWritten(w, t)'
               PROVE  Describes(Played(w, t)', loaded'[w][t], fmt'[w])
    BY DEF SslsDescribeBuffers
  <2>1. (v # w \/ s # t) /\ ~ BeingWritten(w, t)
    BY <1>1, <1>7 DEF BeingWritten
  <2>2. \A l \in 0 .. MaxSsl - 1 : ssl'[SslBase(w, t) + l] = ssl[SslBase(w, t) + l]
    BY <2>1, OthersKept
  <2> QED BY <1>1, <2>1, <2>2, SlotSame DEF SplitInv
<1>13. RangesApart' /\ SubmittedInv'
  BY <1>1 DEF SplitInv, RangesApart, Entries, SubmittedInv, PagesOf, InBuf
<1> QED BY <1>8, <1>9, <1>10, <1>11, <1>12, <1>13 DEF SplitInv

\* The slot then holds the entries of the call.
LEMMA SlotLoaded ==
  ASSUME SplitAssumption, SplitInv, SetVoiceSsl
  PROVE  Played(call.voice, call.slot)' = call.entries
<1> DEFINE v == call.voice
           s == call.slot
           es == call.entries
           n == Len(es)
<1>1. /\ pc = "write" /\ call.i = n /\ count' = [count EXCEPT ![v][s] = n]
      /\ UNCHANGED <<ssl, call>>
  BY DEF SetVoiceSsl
<1>2. v \in Voices /\ s \in Slots /\ es \in Seq(EntryT)
  BY DEF SplitInv, SplitTypes, CallT
<1>3. count'[v][s] = n
  <2> HIDE DEF n, v, s
  <2> QED BY <1>1, <1>2 DEF SplitInv, SplitTypes
<1>4. \A k \in 1 .. n : ssl[SslBase(v, s) + k - 1] = es[k]
  BY <1>1 DEF SplitInv, WriteInv
<1>5. Played(v, s)' = [k \in 1 .. count'[v][s] |-> ssl'[SslBase(v, s) + k - 1]]
  BY <1>1 DEF Played, SslBase
<1>6. es = [k \in 1 .. n |-> es[k]]
  <2> HIDE DEF es
  <2> QED BY <1>2
<1>7. [k \in 1 .. n |-> ssl[SslBase(v, s) + k - 1]] = es
  <2> HIDE DEF n, v, s, es
  <2> QED BY <1>4, <1>6
<1> HIDE DEF n, es
<1>8. Played(v, s)' = es
  BY <1>1, <1>3, <1>5, <1>7
<1> QED BY <1>8 DEF es

LEMMA SetVoiceSslStep ==
  ASSUME SplitAssumption, SplitInv, SetVoiceSsl PROVE SplitInv'
<1> DEFINE v == call.voice
           s == call.slot
           es == call.entries
           n == Len(es)
<1>1. /\ pc = "write" /\ pc' = "queued" /\ call.i = n
      /\ count' = [count EXCEPT ![v][s] = n]
      /\ loaded' = [loaded EXCEPT ![v][s] = call.buf]
      /\ UNCHANGED <<fmt, ssl, segment, sge, range, inbuf, submitted, calls, call>>
  BY DEF SetVoiceSsl
<1>2. /\ call \in CallT /\ v \in Voices /\ s \in Slots /\ es \in Seq(EntryT)
      /\ call.buf \in Buffers /\ Describes(es, call.buf, fmt[v])
      /\ n \in 0 .. MaxSsl /\ MaxSsl \in Nat
  BY <1>1 DEF SplitInv, SplitTypes, CallT, QueueInv, Queueing, ListFor, SplitAssumption
<1>3. /\ count'[v][s] = n /\ loaded'[v][s] = call.buf
      /\ \A w \in Voices, t \in Slots : w # v \/ t # s =>
           count'[w][t] = count[w][t] /\ loaded'[w][t] = loaded[w][t]
      /\ count' \in [Voices -> [Slots -> 0 .. MaxSsl]]
      /\ loaded' \in [Voices -> [Slots -> Buffers \cup {Nobody}]]
  <2> HIDE DEF n, v, s
  <2> QED BY <1>1, <1>2 DEF SplitInv, SplitTypes
<1>4. SplitTypes'
  BY <1>1, <1>3 DEF SplitInv, SplitTypes
<1>5. QueueInv' /\ ProbeInv' /\ WriteInv' /\ PagesInv'
  BY <1>1 DEF QueueInv, Queueing, ProbeInv, WriteInv, PagesInv
<1>6. Played(v, s)' = es
  BY SlotLoaded
<1>7. SslsDescribeBuffers'
  <2> SUFFICES ASSUME NEW w \in Voices, NEW t \in Slots, loaded'[w][t] # Nobody
               PROVE  Describes(Played(w, t)', loaded'[w][t], fmt'[w])
    BY DEF SslsDescribeBuffers
  <2>1. CASE w = v /\ t = s
    BY <1>1, <1>2, <1>3, <1>6, <2>1
  <2>2. CASE w # v \/ t # s
    <3>1. ~ BeingWritten(w, t)
      BY <2>2 DEF BeingWritten
    <3> QED BY <1>1, <1>3, <2>2, <3>1, SlotSame DEF SplitInv
  <2> QED BY <2>1, <2>2
<1>8. RangesApart' /\ SubmittedInv'
  BY <1>1 DEF SplitInv, RangesApart, Entries, SubmittedInv, PagesOf, InBuf
<1> QED BY <1>4, <1>5, <1>7, <1>8 DEF SplitInv

LEMMA ReturnStep ==
  ASSUME SplitAssumption, SplitInv, Return PROVE SplitInv'
<1>1. /\ pc # "write" /\ pc' = "idle" /\ call' = NoCall
      /\ UNCHANGED <<fmt, table, loaded, submitted, calls>>
  BY DEF Return
<1>2. call' \in CallT /\ call'.contig <= call'.left
  <2>1. 0 \in Voices /\ 0 \in Slots
    BY DEF SplitAssumption, Voices, Slots
  <2> QED BY <1>1, <2>1 DEF NoCall, CallT
<1>3. SplitTypes'
  BY <1>1, <1>2 DEF SplitInv, SplitTypes, table
<1>4. QueueInv' /\ ProbeInv' /\ WriteInv' /\ PagesInv'
  BY <1>1 DEF QueueInv, Queueing, ProbeInv, WriteInv, PagesInv
<1> QED BY <1>1, <1>3, <1>4, TablesSame DEF SplitInv

\* A buffer lies in as many pages as it has entries; entry i is for the page
\* its byte i * PageSize is in.
LEMMA PagesFacts ==
  ASSUME SplitAssumption, NEW b \in Buffers
  PROVE  /\ Pages(b) \in Nat /\ Pages(b) <= Len(b.frames)
         /\ \A n \in Nat : n < b.size => (b.at + n) \div PageSize < Pages(b)
<1> DEFINE x == b.at + b.size + PageSize - 1
           m == Len(b.frames)
<1>1. /\ b.frames \in Seq(Nat) /\ b.at \in Nat /\ b.size \in Nat \ {0}
      /\ PageSize \in Nat \ {0} /\ b.at + b.size <= PageSize * m
  BY BufferFacts
<1>2. m \in Nat
  BY <1>1
<1>3. x \in Nat
  BY <1>1
<1>4. Pages(b) = x \div PageSize
  BY DEF Pages
<1>5. x \div PageSize \in Nat /\ x % PageSize \in 0 .. PageSize - 1
      /\ x = PageSize * (x \div PageSize) + (x % PageSize)
  <2> HIDE DEF x
  <2> QED BY <1>1, <1>3, DivMod
<1>6. x \div PageSize < m + 1
  <2>1. PageSize * (m + 1) = PageSize * m + PageSize /\ PageSize * m \in Nat
    <3> HIDE DEF m
    <3> QED BY <1>1, <1>2, ProductNat
  <2>2. x < PageSize * (m + 1) /\ m + 1 \in Nat
    <3> HIDE DEF m
    <3> QED BY <1>1, <1>2, <2>1
  <2> HIDE DEF x, m
  <2> QED BY <1>1, <1>3, <2>2, DivLess
<1>7. ASSUME NEW n \in Nat, n < b.size
      PROVE  (b.at + n) \div PageSize < Pages(b)
  <2> DEFINE p == Pages(b)
             y == b.at + n
             q == PageSize * p
  <2>1. p \in Nat /\ q \in Nat
    <3>1. p \in Nat
      BY <1>4, <1>5
    <3> HIDE DEF p
    <3> QED BY <1>1, <3>1, ProductNat
  <2>2. x < q + PageSize
    <3>1. x = q + (x % PageSize)
      BY <1>4, <1>5
    <3> HIDE DEF x, q
    <3> QED BY <1>1, <1>5, <2>1, <3>1
  <2>3. y < q /\ y \in Nat
    <3> DEFINE at == b.at
               size == b.size
    <3>1. /\ at \in Nat /\ size \in Nat /\ PageSize \in Nat /\ q \in Nat /\ n < size
          /\ at + size + PageSize - 1 < q + PageSize
      BY <1>1, <1>7, <2>1, <2>2
    <3> HIDE DEF q, at, size
    <3>2. at + n < q /\ at + n \in Nat
      BY SMTT(20), <3>1
    <3> QED BY <3>2 DEF at
  <2> HIDE DEF y, p
  <2>4. y < PageSize * p
    BY <2>3
  <2>5. y \div PageSize < p
    BY <1>1, <2>1, <2>3, <2>4, DivLess
  <2> QED BY <2>5 DEF y, p
<1>8. x \div PageSize <= m
  <2> DEFINE p == x \div PageSize
  <2>1. p \in Nat /\ p < m + 1 /\ m \in Nat
    BY <1>2, <1>5, <1>6
  <2> HIDE DEF p, m
  <2>2. p <= m
    BY <2>1
  <2> QED BY <2>2 DEF p
<1> QED BY <1>4, <1>5, <1>7, <1>8

LEMMA PhysPage ==
  ASSUME SplitAssumption, NEW b \in Buffers, NEW i \in Nat, i < Pages(b)
  PROVE  /\ Phys(b, i * PageSize) - (Phys(b, i * PageSize) % PageSize)
              = b.frames[i + 1] * PageSize
         /\ b.frames[i + 1] * PageSize \in Nat
<1> DEFINE x == b.at + i * PageSize
           a == b.frames[i + 1]
<1>1. /\ b.frames \in Seq(Nat) /\ b.at \in Nat /\ PageSize \in Nat \ {0}
      /\ b.at < PageSize /\ i + 1 \in 1 .. Len(b.frames)
  <2>1. Pages(b) \in Nat /\ Pages(b) <= Len(b.frames) /\ b.frames \in Seq(Nat)
    BY PagesFacts, BufferFacts
  <2>2. Len(b.frames) \in Nat
    BY <2>1
  <2>3. i + 1 \in 1 .. Len(b.frames)
    BY <2>1, <2>2
  <2> QED BY <2>1, <2>3, BufferFacts
<1>2. a \in Nat
  <2> DEFINE fr == b.frames
             k == i + 1
  <2>1. fr \in Seq(Nat) /\ k \in 1 .. Len(fr)
    BY <1>1
  <2> HIDE DEF fr, k
  <2>2. fr[k] \in Nat
    BY SMTT(20), <2>1
  <2> QED BY <2>2 DEF fr, k
<1>3. x \div PageSize = i /\ x % PageSize = b.at
  <2>1. i * PageSize \in Nat /\ i * PageSize = PageSize * i
    BY <1>1, ProductNat
  <2>2. x \in Nat /\ b.at \in 0 .. PageSize - 1 /\ IsDivided(x, PageSize, i, b.at)
    <3> DEFINE at == b.at
               e == PageSize * i
    <3>1. /\ at \in Nat /\ at < PageSize /\ PageSize \in Nat /\ e \in Nat
          /\ i * PageSize = e
      BY <1>1, <2>1
    <3>2. x = e + at
      <4> HIDE DEF e, at
      <4>1. at + e = e + at
        BY <3>1
      <4> QED BY <3>1, <4>1 DEF at
    <3> HIDE DEF x, e, at
    <3>3. x \in Nat /\ at \in 0 .. PageSize - 1
      BY <3>1, <3>2
    <3> QED BY <3>2, <3>3 DEF IsDivided, e, at
  <2> HIDE DEF x
  <2> QED BY <1>1, <2>2, DivUnique
<1>4. Phys(b, i * PageSize) = b.frames[1 + i] * PageSize + b.at
  BY <1>3 DEF Phys
<1> HIDE DEF x
<1>5. 1 + i = i + 1
  OBVIOUS
<1>6. Phys(b, i * PageSize) = a * PageSize + b.at
  BY <1>4, <1>5
<1> HIDE DEF a
<1>7. a * PageSize \in Nat /\ a * PageSize = PageSize * a
  BY SMTT(20), <1>1, <1>2, ProductNat
<1> DEFINE y == Phys(b, i * PageSize)
<1>8. y \in Nat /\ b.at \in 0 .. PageSize - 1 /\ IsDivided(y, PageSize, a, b.at)
  <2>1. y = a * PageSize + b.at
    BY <1>6
  <2> HIDE DEF y
  <2> DEFINE at == b.at
             e == a * PageSize
  <2>2. at \in Nat /\ at < PageSize /\ PageSize \in Nat /\ e \in Nat /\ y = e + at
    BY <1>1, <1>7, <2>1
  <2>3. e = PageSize * a
    BY <1>7
  <2> HIDE DEF at, e
  <2>4. y \in Nat /\ at \in 0 .. PageSize - 1
    BY <2>2
  <2> QED BY <2>2, <2>3, <2>4 DEF IsDivided, at
<1>9. y % PageSize = b.at
  <2> HIDE DEF y
  <2> QED BY <1>1, <1>2, <1>8, DivUnique
<1>10. y - (y % PageSize) = a * PageSize
  BY SMTT(20), <1>1, <1>6, <1>7, <1>9
<1> QED BY <1>7, <1>10 DEF a

LEMMA SubmitStep ==
  ASSUME SplitAssumption, SplitInv, NEW v \in Voices, NEW b \in Buffers, Submit(v, b)
  PROVE  SplitInv'
<1> DEFINE n == Pages(b)
<1>1. /\ pc = "idle" /\ pc' = "pages" /\ calls < MaxCalls /\ calls' = calls + 1
      /\ submitted[v] = Nobody
      /\ call' = [voice |-> v, slot |-> 0, buf |-> b, va |-> 0, left |-> 0,
                  contig |-> 0, entries |-> <<>>, i |-> 0]
      /\ UNCHANGED <<fmt, ssl, segment, count, sge, inbuf, loaded, submitted>>
  BY DEF Submit, NoCall
<1>2. PICK k \in 0 .. NumSge - n :
        /\ \A w \in Voices : Entries(w) \cap (k .. k + n - 1) = {}
        /\ range' = [range EXCEPT ![v] = [base |-> k, count |-> n]]
  BY DEF Submit
<1>3. n \in Nat /\ k \in Nat /\ k + n <= NumSge
  <2>1. n \in Nat /\ NumSge \in Nat
    BY PagesFacts DEF SplitAssumption
  <2> HIDE DEF n
  <2> QED BY <2>1, <1>2
<1> HIDE DEF n
<1>4. /\ range'[v] = [base |-> k, count |-> n]
      /\ \A w \in Voices : w # v => range'[w] = range[w]
      /\ range' \in [Voices -> [base : Nat, count : Nat]]
  BY <1>2, <1>3 DEF SplitInv, SplitTypes
<1>5. call' \in CallT
  <2>1. <<>> \in Seq(EntryT) /\ 0 \in Slots
    BY DEF Slots
  <2> QED BY <1>1, <2>1 DEF CallT
<1>6. SplitTypes'
  <2>1. calls' \in 0 .. MaxCalls
    BY SMTT(20), <1>1 DEF SplitInv, SplitTypes, SplitAssumption
  <2>2. call'.contig <= call'.left
    BY <1>1
  <2> QED BY <1>1, <1>4, <1>5, <2>1, <2>2 DEF SplitInv, SplitTypes
<1>7. QueueInv' /\ ProbeInv' /\ WriteInv'
  BY <1>1 DEF QueueInv, Queueing, ProbeInv, WriteInv
<1>8. SslsDescribeBuffers'
  <2> SUFFICES ASSUME NEW w \in Voices, NEW t \in Slots, loaded'[w][t] # Nobody
               PROVE  Describes(Played(w, t)', loaded'[w][t], fmt'[w])
    BY DEF SslsDescribeBuffers
  <2>1. ~ BeingWritten(w, t)
    BY <1>1 DEF BeingWritten
  <2> QED BY <1>1, <2>1, SlotSame DEF SplitInv
<1>9. RangesApart'
  <2>1. Entries(v)' = k .. k + n - 1
    BY <1>4 DEF Entries
  <2>2. \A w \in Voices : w # v => Entries(w)' = Entries(w)
    BY <1>4 DEF Entries
  <2>3. ASSUME NEW w \in Voices PROVE range'[w].base + range'[w].count <= NumSge
    BY SMTT(20), <1>3, <1>4 DEF SplitInv, RangesApart
  <2>4. ASSUME NEW w \in Voices, NEW u \in Voices, w # u
        PROVE  Entries(w)' \cap Entries(u)' = {}
    BY <1>2, <2>1, <2>2, <2>4 DEF SplitInv, RangesApart
  <2> QED BY <2>3, <2>4 DEF RangesApart
<1>10. SubmittedInv'
  BY SMTT(20), <1>1, <1>4 DEF SplitInv, SubmittedInv, PagesOf, InBuf
<1>11. PagesInv'
  <2>1. 0 = 0 * PageSize
    BY DEF SplitAssumption
  <2> QED BY <1>1, <1>3, <1>4, <2>1 DEF PagesInv, PagesOf, n
<1> QED BY <1>6, <1>7, <1>8, <1>9, <1>10, <1>11 DEF SplitInv

LEMMA WriteSgeStep ==
  ASSUME SplitAssumption, SplitInv, WriteSge PROVE SplitInv'
<1> DEFINE v == call.voice
           b == call.buf
           i == call.i
           base == range[v].base
           n == range[v].count
           d == IF i + 1 < n THEN PageSize ELSE 0
           a == b.frames[i + 1] * PageSize
           page == Phys(b, call.va) - (Phys(b, call.va) % PageSize)
<1>1. /\ pc = "pages" /\ pc' = "pages" /\ i < n
      /\ sge' = [sge EXCEPT ![base + i] = page]
      /\ call' = [call EXCEPT !.i = i + 1, !.va = call.va + d]
      /\ UNCHANGED <<fmt, ssl, segment, count, range, inbuf, loaded, submitted, calls>>
  BY DEF WriteSge
<1>2. /\ call \in CallT /\ v \in Voices /\ i \in Nat /\ call.va \in Nat
      /\ b \in Buffers /\ submitted[v] = Nobody /\ n = Pages(b) /\ n \in Nat /\ base \in Nat
      /\ (i < n => call.va = i * PageSize) /\ base + n <= NumSge
      /\ \A k \in Nat : k < i => sge[base + k] = b.frames[k + 1] * PageSize
  BY <1>1 DEF SplitInv, SplitTypes, CallT, PagesInv, PagesOf, RangesApart
<1>3. page = a /\ a \in Nat
  <2>1. i \in Nat /\ i < Pages(b) /\ call.va = i * PageSize
    BY <1>1, <1>2
  <2>2. b \in Buffers
    BY <1>2
  <2>3. page = Phys(b, i * PageSize) - (Phys(b, i * PageSize) % PageSize)
    BY <2>1
  <2> HIDE DEF b, i, page
  <2>4. /\ Phys(b, i * PageSize) - (Phys(b, i * PageSize) % PageSize)
             = b.frames[i + 1] * PageSize
        /\ b.frames[i + 1] * PageSize \in Nat
    BY <2>1, <2>2, PhysPage
  <2> QED BY <2>3, <2>4
<1> HIDE DEF a, page
<1>4. i \in Nat /\ n \in Nat /\ base \in Nat /\ i < n /\ base + n <= NumSge /\ NumSge \in Nat
  BY <1>1, <1>2 DEF SplitAssumption
<1>5. base + i \in 0 .. NumSge - 1
  <2> HIDE DEF base, n, i
  <2> QED BY <1>4
<1>6. /\ sge' \in [0 .. NumSge - 1 -> Int] /\ sge'[base + i] = a
      /\ \A k \in 0 .. NumSge - 1 : k # base + i => sge'[k] = sge[k]
  <2>1. sge \in [0 .. NumSge - 1 -> Int]
    BY DEF SplitInv, SplitTypes
  <2> HIDE DEF base, i
  <2> QED BY <1>1, <1>3, <1>5, <2>1
<1>7. /\ call'.i = i + 1 /\ call'.va = call.va + d /\ call'.voice = v /\ call'.buf = b
      /\ call'.contig = call.contig /\ call'.left = call.left /\ call' \in CallT
  <2> DEFINE j == i + 1
             va == call.va + d
  <2>1. call \in CallT /\ call' = [call EXCEPT !.i = j, !.va = va]
    BY <1>1, <1>2
  <2>2. j \in Nat /\ va \in Nat
    <3>1. PageSize \in Nat
      BY DEF SplitAssumption
    <3>2. d \in Nat
      BY <3>1
    <3> HIDE DEF i, d
    <3> QED BY SMTT(20), <1>2, <3>2
  <2> HIDE DEF j, va
  <2> QED BY <2>1, <2>2 DEF CallT, j, va
<1>8. SplitTypes'
  BY <1>1, <1>6, <1>7 DEF SplitInv, SplitTypes
<1>9. QueueInv' /\ ProbeInv' /\ WriteInv'
  BY <1>1 DEF QueueInv, Queueing, ProbeInv, WriteInv
<1>10. SslsDescribeBuffers'
  <2> SUFFICES ASSUME NEW w \in Voices, NEW t \in Slots, loaded'[w][t] # Nobody
               PROVE  Describes(Played(w, t)', loaded'[w][t], fmt'[w])
    BY DEF SslsDescribeBuffers
  <2>1. ~ BeingWritten(w, t)
    BY <1>1 DEF BeingWritten
  <2> QED BY <1>1, <2>1, SlotSame DEF SplitInv
<1>11. RangesApart'
  BY <1>1 DEF SplitInv, RangesApart, Entries
<1>12. SubmittedInv'
  <2> SUFFICES ASSUME NEW w \in Voices, submitted[w] # Nobody,
                      NEW k \in Nat, k < Pages(submitted[w])
               PROVE  /\ range[w].count = Pages(submitted[w])
                      /\ sge'[range[w].base + k] = submitted[w].frames[k + 1] * PageSize
    BY SMTT(20), <1>1 DEF SubmittedInv, PagesOf, InBuf, SplitInv
  <2> DEFINE p == range[w].base + k
             end == range[w].base + range[w].count
  <2>1. /\ range[w].count = Pages(submitted[w])
        /\ sge[p] = submitted[w].frames[k + 1] * PageSize
    BY DEF SplitInv, SubmittedInv, PagesOf
  <2>2. w # v
    BY <1>2
  <2>3. p \in Entries(w) /\ p \in 0 .. NumSge - 1
    <3> DEFINE bw == range[w].base
               cw == range[w].count
    <3>1. bw \in Nat /\ cw \in Nat /\ k < cw /\ bw + cw <= NumSge /\ p = bw + k
      BY <2>1 DEF SplitInv, SplitTypes, RangesApart
    <3> HIDE DEF bw, cw, p
    <3>2. p \in bw .. bw + cw - 1 /\ p \in 0 .. NumSge - 1
      BY <1>4, <3>1
    <3> QED BY <3>2 DEF Entries, bw, cw
  <2>4. base + i \in Entries(v)
    <3>1. base + i \in base .. base + n - 1
      <4> HIDE DEF base, i, n
      <4> QED BY SMTT(20), <1>4
    <3> QED BY <3>1 DEF Entries
  <2>5. p # base + i
    <3>1. Entries(w) \cap Entries(v) = {}
      BY <1>2, <2>2 DEF SplitInv, RangesApart
    <3> HIDE DEF p, base, i, v
    <3> QED BY <2>3, <2>4, <3>1
  <2>6. sge'[p] = sge[p]
    <3> HIDE DEF p, base, i
    <3> QED BY <1>6, <2>3, <2>5
  <2> QED BY <2>1, <2>6
<1>13. PagesInv'
  <2>1. i + 1 <= n
    <3> HIDE DEF i, n
    <3> QED BY <1>4
  <2>2. ASSUME NEW k \in Nat, k < i + 1
        PROVE  sge'[base + k] = b.frames[k + 1] * PageSize
    <3>1. CASE k = i
      <4>1. b.frames[k + 1] * PageSize = a
        BY <3>1 DEF a
      <4> HIDE DEF base, i, b
      <4> QED BY <1>6, <3>1, <4>1
    <3>2. CASE k # i
      <4>1. k < i /\ base + k # base + i /\ base + k \in 0 .. NumSge - 1
        <5> HIDE DEF base, i, n
        <5> QED BY <1>4, <2>2, <3>2
      <4>2. sge'[base + k] = sge[base + k]
        <5> HIDE DEF base, i
        <5> QED BY <1>6, <4>1
      <4>3. sge[base + k] = b.frames[k + 1] * PageSize
        BY <1>2, <4>1
      <4> QED BY <4>2, <4>3
    <3> QED BY <3>1, <3>2
  <2>3. i + 1 < n => call'.va = (i + 1) * PageSize
    <3>1. ASSUME i + 1 < n PROVE call.va + d = (i + 1) * PageSize
      <4>1. d = PageSize /\ PageSize \in Nat
        BY <3>1 DEF SplitAssumption
      <4>2. i < n /\ (i + 1) * PageSize = i * PageSize + PageSize
        <5> HIDE DEF i, n
        <5> QED BY <1>4, <4>1
      <4> HIDE DEF d, i, n
      <4> QED BY <1>2, <4>1, <4>2
    <3> QED BY <1>7, <3>1
  <2> HIDE DEF b, i
  <2> QED BY <1>1, <1>2, <1>7, <2>1, <2>2, <2>3 DEF PagesInv, PagesOf
<1> QED BY <1>8, <1>9, <1>10, <1>11, <1>12, <1>13 DEF SplitInv

\* The offset of a buffer in its first page is that of its physical address.
LEMMA FirstOffset ==
  ASSUME SplitAssumption, NEW b \in Buffers
  PROVE  Phys(b, 0) % PageSize = b.at
<1>1. /\ b.at \in Nat /\ b.at < PageSize /\ PageSize \in Nat \ {0}
      /\ b.size \in Nat \ {0} /\ 0 < b.size
  BY BufferFacts
<1>2. Phys(b, 0) % PageSize = (b.at + 0) % PageSize
  BY <1>1, PhysFacts
<1> DEFINE at == b.at
<1>3. at \in 0 .. PageSize - 1 /\ at + 0 = at /\ PageSize \in Nat \ {0} /\ at \in Nat
  BY <1>1
<1> HIDE DEF at
<1>4. IsDivided(at, PageSize, 0, at)
  BY <1>3 DEF IsDivided
<1>5. at % PageSize = at
  BY <1>3, <1>4, DivUnique
<1> QED BY <1>2, <1>3, <1>5 DEF at

\* What is written of BUF_BASE and EBO.
LEMMA InBufFacts ==
  ASSUME SplitAssumption, SplitTypes, NEW v \in Voices, NEW b \in Buffers
  PROVE  /\ InBuf(v, b) \in [base : Nat, ebo : Int]
         /\ InBuf(v, b).base = range[v].base * PageSize + b.at
         /\ InBuf(v, b).ebo + 1 = b.size \div BlockBytes(fmt[v])
<1> DEFINE w == range[v].base
           e == w * PageSize
           at == b.at
           n == b.size \div BlockBytes(fmt[v])
<1>1. w \in Nat /\ fmt[v] \in Formats
  BY DEF SplitTypes
<1>2. at \in Nat /\ b.size \in Nat /\ PageSize \in Nat
  BY BufferFacts
<1>3. e \in Nat
  <2> HIDE DEF w
  <2> QED BY <1>1, <1>2, ProductNat
<1>4. BlockBytes(fmt[v]) \in Nat \ {0}
  BY <1>1, BlockFacts
<1>5. n \in Nat
  BY <1>2, <1>4, DivMod
<1>6. InBuf(v, b) = [base |-> e + at, ebo |-> n - 1]
  BY FirstOffset DEF InBuf
<1> HIDE DEF e, at, n
<1>7. e + at \in Nat /\ n - 1 \in Int /\ (n - 1) + 1 = n
  BY <1>2, <1>3, <1>5 DEF at
<1> QED BY <1>6, <1>7 DEF e, at, n

LEMMA SetBufBaseStep ==
  ASSUME SplitAssumption, SplitInv, SetBufBase PROVE SplitInv'
<1> DEFINE v == call.voice
           b == call.buf
           c == InBuf(v, b)
<1>1. /\ pc = "pages" /\ pc' = "queued" /\ call.i = range[v].count
      /\ submitted' = [submitted EXCEPT ![v] = b]
      /\ inbuf' = [inbuf EXCEPT ![v] = c]
      /\ UNCHANGED <<fmt, ssl, segment, count, sge, range, loaded, calls, call>>
  BY DEF SetBufBase
<1>2. /\ v \in Voices /\ b \in Buffers /\ PagesOf(v, b, call.i) /\ call.i = Pages(b)
  BY <1>1 DEF SplitInv, SplitTypes, CallT, PagesInv, PagesOf
<1>3. /\ submitted'[v] = b /\ \A w \in Voices : w # v => submitted'[w] = submitted[w]
      /\ submitted' \in [Voices -> Buffers \cup {Nobody}]
  <2> HIDE DEF v, b
  <2> QED BY <1>1, <1>2 DEF SplitInv, SplitTypes
<1>4. /\ inbuf'[v] = c /\ \A w \in Voices : w # v => inbuf'[w] = inbuf[w]
      /\ inbuf' \in [Voices -> [base : Nat, ebo : Int]]
  <2>1. c \in [base : Nat, ebo : Int]
    <3> HIDE DEF v, b
    <3> QED BY <1>2, InBufFacts DEF SplitInv
  <2>2. inbuf \in [Voices -> [base : Nat, ebo : Int]]
    BY DEF SplitInv, SplitTypes
  <2> HIDE DEF v, c
  <2> QED BY <1>1, <1>2, <2>1, <2>2
<1>5. SplitTypes'
  BY <1>1, <1>3, <1>4 DEF SplitInv, SplitTypes
<1>6. QueueInv' /\ ProbeInv' /\ WriteInv' /\ PagesInv'
  BY <1>1 DEF QueueInv, Queueing, ProbeInv, WriteInv, PagesInv
<1>7. SslsDescribeBuffers'
  <2> SUFFICES ASSUME NEW w \in Voices, NEW t \in Slots, loaded'[w][t] # Nobody
               PROVE  Describes(Played(w, t)', loaded'[w][t], fmt'[w])
    BY DEF SslsDescribeBuffers
  <2>1. ~ BeingWritten(w, t)
    BY <1>1 DEF BeingWritten
  <2> QED BY <1>1, <2>1, SlotSame DEF SplitInv
<1>8. RangesApart'
  BY <1>1 DEF SplitInv, RangesApart, Entries
<1>9. SubmittedInv'
  <2> SUFFICES ASSUME NEW w \in Voices, submitted'[w] # Nobody
               PROVE  /\ PagesOf(w, submitted'[w], Pages(submitted'[w]))
                      /\ inbuf'[w] = InBuf(w, submitted'[w])
    BY <1>1 DEF SubmittedInv, PagesOf, InBuf
  <2>1. CASE w = v
    BY <1>2, <1>3, <1>4, <2>1
  <2>2. CASE w # v
    BY <1>3, <1>4, <2>2 DEF SplitInv, SubmittedInv
  <2> QED BY <2>1, <2>2
<1> QED BY <1>5, <1>6, <1>7, <1>8, <1>9 DEF SplitInv

LEMMA StepsKeepSplitInv ==
  ASSUME SplitAssumption, PiecesCanBeCounted, SplitInv, [Next]_vars PROVE SplitInv'
<1>1. ASSUME NEW v \in Voices, NEW s \in Slots, NEW b \in Buffers, Queue(v, s, b)
      PROVE  SplitInv'
  BY <1>1, QueueStep
<1>2. ASSUME Refuse PROVE SplitInv'
  BY <1>2, RefuseStep
<1>3. ASSUME Probe PROVE SplitInv'
  BY <1>3, ProbeStep
<1>4. ASSUME ProbeNext PROVE SplitInv'
  BY <1>4, ProbeNextStep
<1>5. ASSUME Emit PROVE SplitInv'
  BY <1>5, EmitStep
<1>6. ASSUME SplitDone PROVE SplitInv'
  BY <1>6, SplitDoneStep
<1>7. ASSUME WriteSsl PROVE SplitInv'
  BY <1>7, WriteSslStep
<1>8. ASSUME SetVoiceSsl PROVE SplitInv'
  BY <1>8, SetVoiceSslStep
<1>9. ASSUME Return PROVE SplitInv'
  BY <1>9, ReturnStep
<1>10. ASSUME NEW v \in Voices, NEW b \in Buffers, Submit(v, b) PROVE SplitInv'
  BY <1>10, SubmitStep
<1>11. ASSUME WriteSge PROVE SplitInv'
  BY <1>11, WriteSgeStep
<1>12. ASSUME SetBufBase PROVE SplitInv'
  BY <1>12, SetBufBaseStep
<1>13. ASSUME UNCHANGED vars PROVE SplitInv'
  <2>1. SplitTypes' /\ QueueInv' /\ ProbeInv' /\ WriteInv'
    BY <1>13, Zenon DEF vars, table, SplitInv, SplitTypes, QueueInv, Queueing, ProbeInv, WriteInv
  <2>2. SslsDescribeBuffers'
    BY <1>13, Zenon DEF vars, table, SplitInv, SslsDescribeBuffers, BeingWritten, Played
  <2>3. RangesApart' /\ SubmittedInv' /\ PagesInv'
    BY <1>13, Zenon DEF vars, table, SplitInv, RangesApart, Entries, SubmittedInv, PagesInv,
       PagesOf, InBuf
  <2> QED BY <2>1, <2>2, <2>3 DEF SplitInv
<1> QED BY <1>1, <1>2, <1>3, <1>4, <1>5, <1>6, <1>7, <1>8, <1>9, <1>10, <1>11, <1>12, <1>13
        DEF Next

LEMMA SgesDescribe ==
  ASSUME SplitAssumption, SplitInv PROVE SgesDescribeBuffers
<1> SUFFICES ASSUME NEW v \in Voices, submitted[v] # Nobody
             PROVE  LET b == submitted[v]
                        rest == b.size - (inbuf[v].ebo + 1) * BlockBytes(fmt[v])
                    IN /\ rest \in 0 .. BlockBytes(fmt[v]) - 1
                       /\ \A n \in 0 .. b.size - 1 :
                            LET a == inbuf[v].base + n
                            IN /\ a \div PageSize \in Entries(v)
                               /\ sge[a \div PageSize] + (a % PageSize) = Phys(b, n)
  BY DEF SgesDescribeBuffers
<1> DEFINE b == submitted[v]
           w == range[v].base
           d == BlockBytes(fmt[v])
<1>1. b \in Buffers /\ PagesOf(v, b, Pages(b)) /\ inbuf[v] = InBuf(v, b)
  BY DEF SplitInv, SplitTypes, SubmittedInv
<1>2. /\ b.at \in Nat /\ b.at < PageSize /\ b.size \in Nat \ {0} /\ PageSize \in Nat \ {0}
      /\ w \in Nat /\ d \in Nat \ {0}
  <2>1. b.at \in Nat /\ b.at < PageSize /\ b.size \in Nat \ {0} /\ PageSize \in Nat \ {0}
    BY <1>1, BufferFacts
  <2>2. w \in Nat /\ fmt[v] \in Formats
    BY DEF SplitInv, SplitTypes
  <2> QED BY <2>1, <2>2, BlockFacts
<1>3. inbuf[v].base = w * PageSize + b.at /\ inbuf[v].ebo + 1 = b.size \div d
  <2>1. SplitTypes
    BY DEF SplitInv
  <2> HIDE DEF b
  <2> QED BY <1>1, <2>1, InBufFacts
<1>4. b.size - (inbuf[v].ebo + 1) * d \in 0 .. d - 1
  <2> DEFINE size == b.size
             m == size \div d
             e == d * m
  <2>1. size \in Nat /\ d \in Nat \ {0}
    BY <1>2
  <2>2. m \in Nat /\ size % d \in 0 .. d - 1 /\ size = e + (size % d)
    <3> HIDE DEF size, d
    <3> QED BY <2>1, DivMod
  <2>3. (inbuf[v].ebo + 1) * d = e /\ e \in Nat
    <3>1. inbuf[v].ebo + 1 = m
      BY <1>3
    <3>2. m * d = d * m /\ d * m \in Nat
      <4> HIDE DEF m, d
      <4> QED BY <2>1, <2>2
    <3> QED BY <3>1, <3>2
  <2> DEFINE r == size % d
             x == (inbuf[v].ebo + 1) * d
  <2>4. x = e /\ size = e + r /\ r \in 0 .. d - 1 /\ d \in Nat /\ e \in Nat
    BY <2>1, <2>2, <2>3
  <2> HIDE DEF e, r, d, x, size
  <2>5. size - x \in 0 .. d - 1
    BY <2>4
  <2> QED BY <2>5 DEF size, x, d
<1>5. ASSUME NEW n \in 0 .. b.size - 1
      PROVE  /\ (inbuf[v].base + n) \div PageSize \in Entries(v)
             /\ sge[(inbuf[v].base + n) \div PageSize] + ((inbuf[v].base + n) % PageSize)
                  = Phys(b, n)
  <2> DEFINE a == b.at + n
             q == a \div PageSize
             r == a % PageSize
             x == inbuf[v].base + n
  <2>1. n \in Nat /\ n < b.size
    <3> DEFINE size == b.size
    <3>1. n \in 0 .. size - 1 /\ size \in Nat
      BY <1>2, <1>5
    <3> HIDE DEF size
    <3>2. n \in Nat /\ n < size
      BY <3>1
    <3> QED BY <3>2 DEF size
  <2>2. a \in Nat
    <3> DEFINE at == b.at
    <3>1. at \in Nat
      BY <1>2
    <3> HIDE DEF at
    <3>2. at + n \in Nat
      BY <2>1, <3>1
    <3> QED BY <3>2 DEF at
  <2>3. q \in Nat /\ r \in 0 .. PageSize - 1 /\ a = PageSize * q + r
    <3> HIDE DEF a
    <3> QED BY <1>2, <2>2, DivMod
  <2>4. q < Pages(b)
    <3>1. (b.at + n) \div PageSize < Pages(b)
      <4> HIDE DEF b
      <4> QED BY <1>1, <2>1, PagesFacts
    <3> QED BY <3>1
  <2>5. x \in Nat /\ IsDivided(x, PageSize, w + q, r)
    <3> DEFINE at == b.at
               e == w * PageSize
    <3>1. x = e + at + n /\ at \in Nat /\ e \in Nat /\ at + n = PageSize * q + r
      <4>1. e \in Nat
        <5> HIDE DEF w
        <5> QED BY <1>2, ProductNat
      <4> QED BY <1>2, <1>3, <2>3, <4>1
    <3>2. PageSize * (w + q) = e + PageSize * q /\ PageSize * q \in Nat
      <4> HIDE DEF w, q
      <4> QED BY <1>2, <2>3
    <3> HIDE DEF at, e, x, q, r, w
    <3>3. x = PageSize * (w + q) + r /\ x \in Nat
      BY <1>2, <2>1, <2>3, <3>1, <3>2
    <3> QED BY <3>3 DEF IsDivided
  <2>6. x \div PageSize = w + q /\ x % PageSize = r
    <3>1. w + q \in Nat
      <4> HIDE DEF w, q
      <4> QED BY <1>2, <2>3
    <3> HIDE DEF x, w, q, r
    <3> QED BY <1>2, <2>3, <2>5, <3>1, DivUnique
  <2>7. w + q \in Entries(v) /\ sge[w + q] = b.frames[q + 1] * PageSize
    <3>1. range[v].count = Pages(b) /\ range[v].count \in Nat
      BY <1>1 DEF PagesOf, SplitInv, SplitTypes
    <3>2. w + q \in w .. w + range[v].count - 1
      <4> DEFINE m == range[v].count
      <4>1. m \in Nat /\ q < m
        BY <2>4, <3>1
      <4> HIDE DEF w, q, m
      <4>2. w + q \in w .. w + m - 1
        BY SMTT(20), <1>2, <2>3, <4>1
      <4> QED BY <4>2 DEF m
    <3>3. sge[w + q] = b.frames[q + 1] * PageSize
      <4> HIDE DEF b, q
      <4> QED BY <1>1, <2>3, <2>4 DEF PagesOf
    <3> QED BY <3>2, <3>3 DEF Entries
  <2>8. Phys(b, n) = b.frames[q + 1] * PageSize + r
    <3>1. q + 1 = 1 + q
      <4> HIDE DEF q
      <4> QED BY <2>3
    <3> QED BY <3>1 DEF Phys
  <2> HIDE DEF x, w, q, r, b
  <2>9. x \div PageSize \in Entries(v) /\ sge[x \div PageSize] + (x % PageSize) = Phys(b, n)
    BY <2>6, <2>7, <2>8
  <2> QED BY <2>9 DEF x
<1> QED BY <1>4, <1>5

LEMMA SplitInvTypes == ASSUME SplitInv PROVE TypeOK
BY DEF SplitInv, SplitTypes, TypeOK, CallT

\* Throughout every behaviour the walk, the tables and what is loaded and
\* submitted agree (audio_buffer.c:88-208).
THEOREM SplitInvariance ==
  ASSUME PiecesCanBeCounted PROVE Spec => []SplitInv
<1>1. Init => SplitInv
  BY SplitAssumption, InitStep
<1>2. SplitInv /\ [Next]_vars => SplitInv'
  BY SplitAssumption, StepsKeepSplitInv
<1> QED BY <1>1, <1>2, PTL DEF Spec

\* The entries of every slot lead the VP to the bytes of the buffer last queued
\* there, from the first one on and in order, and the entries of every voice to
\* the bytes of the buffer submitted to it, whatever other calls have written to
\* the tables (audio_buffer.c:88-155 and 173-208).
THEOREM TablesDescribeTheirBuffers ==
  ASSUME PiecesCanBeCounted PROVE Spec => []TablesSound
<1>1. SplitInv => TablesSound
  BY SplitAssumption, SgesDescribe, SplitInvTypes DEF TablesSound, SplitInv
<1> QED BY <1>1, SplitInvariance, PTL

-----------------------------------------------------------------------------
(***************************************************************************)
(* Nothing of a buffer that fits the pages is dropped.                     *)
(***************************************************************************)
WholeSplitInv == SplitInv /\ WholeInv /\ NothingDropped

LEMMA WholeTableSame ==
  ASSUME NothingDropped, UNCHANGED <<fmt, ssl, count, loaded>>, pc # "write"
  PROVE  NothingDropped'
<1> SUFFICES ASSUME NEW v \in Voices, NEW s \in Slots, loaded'[v][s] # Nobody,
                    BlocksFitPages(loaded'[v][s], fmt'[v])
             PROVE  Ends(Played(v, s)', fmt'[v])[count'[v][s]]
                      = loaded'[v][s].size - (loaded'[v][s].size % BlockBytes(fmt'[v]))
  BY DEF NothingDropped
<1>1. Played(v, s)' = Played(v, s)
  BY DEF Played
<1>2. ~ BeingWritten(v, s)
  BY DEF BeingWritten
<1>3. Ends(Played(v, s), fmt[v])[count[v][s]]
        = loaded[v][s].size - (loaded[v][s].size % BlockBytes(fmt[v]))
  BY <1>2 DEF NothingDropped
<1> QED BY <1>1, <1>3

\* Where the rest is less than a block all whole blocks are done.
LEMMA RestOfBlock ==
  ASSUME NEW d \in Nat \ {0}, NEW x \in Nat, NEW r \in Nat, r < d, x % d = 0
  PROVE  x = (x + r) - ((x + r) % d)
<1>1. PICK k \in Nat : x = d * k
  BY Multiples
<1>2. IsDivided(x + r, d, k, r) /\ r \in 0 .. d - 1 /\ x + r \in Nat
  BY <1>1 DEF IsDivided
<1>3. (x + r) % d = r
  BY <1>2, DivUnique
<1> QED BY <1>3

\* A page begins at a block of a buffer that fits the pages.
LEMMA PageAtBlock ==
  ASSUME SplitAssumption, NEW b \in Buffers, NEW f \in Formats, BlocksFitPages(b, f),
         NEW va \in Nat, NEW c \in Nat, va % BlockBytes(f) = 0, PageBegins(b, va + c)
  PROVE  c % BlockBytes(f) = 0
<1> DEFINE d == BlockBytes(f)
           at == b.at
           x == at + (va + c)
<1>1. d \in Nat \ {0} /\ PageSize \in Nat \ {0} /\ at \in Nat
  BY BlockFacts, BufferFacts
<1>2. PageSize % d = 0 /\ at % d = 0 /\ va % d = 0 /\ x % PageSize = 0
  BY DEF BlocksFitPages, PageBegins
<1> HIDE DEF d, at
<1>3. x \in Nat /\ x = (at + va) + c /\ at + va \in Nat /\ at + va <= x
  BY <1>1
<1> HIDE DEF x
<1>4. PICK k \in Nat : x = PageSize * k
  BY <1>1, <1>2, <1>3, Multiples
<1>5. PICK l \in Nat : PageSize = d * l
  BY <1>1, <1>2, Multiples
<1>6. x = d * (l * k) /\ l * k \in Nat
  <2>1. (d * l) * k = d * (l * k)
    BY <1>1
  <2> QED BY <1>4, <1>5, <2>1, ProductNat
<1>7. x % d = 0
  BY <1>1, <1>3, <1>6, Multiples
<1>8. (at + va) % d = 0
  BY <1>1, <1>2, MultiplesAdd
<1>9. (x - (at + va)) % d = 0
  BY <1>1, <1>3, <1>7, <1>8, MultiplesSubtract
<1>10. x - (at + va) = c
  BY <1>1, <1>3
<1> QED BY <1>9, <1>10 DEF d

LEMMA WholeEmit ==
  ASSUME SplitAssumption, SplitInv, Emit PROVE WholeInv'
<1> DEFINE f == fmt[call.voice]
           b == call.buf
           va == call.va
           c == call.contig
           d == BlockBytes(f)
           left == call.left
           size == b.size
<1> SUFFICES ASSUME pc' = "write", BlocksFitPages(call'.buf, fmt'[call'.voice])
             PROVE  call'.va = call'.buf.size - (call'.buf.size % BlockBytes(fmt'[call'.voice]))
  BY DEF WholeInv
<1>1. /\ pc = "probe" /\ PieceOf(c, f) = 0 /\ fmt' = fmt
      /\ call' = [call EXCEPT !.contig = 0]
  BY DEF Emit, Piece, PieceOf
<1>2. /\ b \in Buffers /\ va + left = size /\ call \in CallT /\ f \in Formats
      /\ va % d = 0
  BY <1>1 DEF SplitInv, QueueInv, Queueing, SplitTypes, CallT, ListFor
<1>3. c > 0 /\ (c = left \/ PageBegins(b, va + c))
  BY <1>1 DEF SplitInv, ProbeInv
<1>4. call'.buf = b /\ call'.va = va /\ call'.voice = call.voice
  BY <1>1, <1>2 DEF CallT
<1>5. /\ va \in Nat /\ left \in Nat /\ c \in Nat /\ size \in Nat
      /\ d \in Nat \ {0}
  BY <1>2, BufferFacts, BlockFacts DEF CallT
<1>6. c < d
  <2> HIDE DEF f, c
  <2> QED BY <1>1, <1>2, <1>5, PieceFacts
<1>7. BlocksFitPages(b, f)
  BY <1>1, <1>4
<1>8. c = left
  <2>1. ASSUME PageBegins(b, va + c) PROVE FALSE
    <3>1. c % d = 0
      <4> HIDE DEF b, va, c, f
      <4> QED BY <1>2, <1>5, <1>7, <2>1, PageAtBlock
    <3> HIDE DEF c, d
    <3>2. PICK k \in Nat : c = d * k
      BY <1>5, <3>1, Multiples
    <3>3. k # 0
      BY <1>3, <1>5, <3>2
    <3>4. d * k = d + d * (k - 1) /\ k - 1 \in Nat /\ d * (k - 1) \in Nat
      BY <1>5, <3>2, <3>3, ProductNat
    <3> QED BY <1>5, <1>6, <3>2, <3>4
  <2> QED BY <1>3, <2>1
<1>9. va = size - (size % d)
  <2> HIDE DEF va, left, d, c, size
  <2>1. va = (va + left) - ((va + left) % d)
    BY <1>2, <1>5, <1>6, <1>8, RestOfBlock
  <2> QED BY <1>2, <2>1
<1> QED BY <1>1, <1>4, <1>9

LEMMA WholeStep ==
  ASSUME SplitAssumption, WholeSplitInv, [Next]_vars PROVE WholeInv' /\ NothingDropped'
<1> USE DEF WholeSplitInv
<1>1. ASSUME pc # "write", pc' # "write", UNCHANGED <<fmt, ssl, count, loaded>>
      PROVE  WholeInv' /\ NothingDropped'
  BY <1>1, WholeTableSame DEF WholeInv
<1>2. ASSUME Emit PROVE WholeInv' /\ NothingDropped'
  <2>1. pc # "write" /\ UNCHANGED <<fmt, ssl, count, loaded>>
    BY <1>2 DEF Emit, table
  <2> QED BY <1>2, <2>1, WholeEmit, WholeTableSame
<1>3. ASSUME SplitDone PROVE WholeInv' /\ NothingDropped'
  <2>1. pc = "split" /\ call.left = 0 /\ UNCHANGED <<fmt, ssl, count, loaded, call>>
    BY <1>3 DEF SplitDone, table
  <2> DEFINE d == BlockBytes(fmt[call.voice])
             size == call.buf.size
             va == call.va
  <2>2. d \in Nat \ {0} /\ size \in Nat /\ va \in Nat /\ va + 0 = size /\ va % d = 0
    BY <2>1, BlockFacts, BufferFacts
       DEF SplitInv, QueueInv, Queueing, ListFor, SplitTypes, CallT
  <2>3. va = size - (size % d)
    <3> HIDE DEF d, size, va
    <3> QED BY <2>2
  <2>4. WholeInv'
    BY <2>1, <2>3 DEF WholeInv
  <2> QED BY <2>1, <2>4, WholeTableSame
<1>4. ASSUME WriteSsl PROVE WholeInv' /\ NothingDropped'
  <2>1. /\ pc = "write" /\ pc' = "write" /\ UNCHANGED <<fmt, count, loaded>>
        /\ call' = [call EXCEPT !.i = call.i + 1]
    BY <1>4 DEF WriteSsl
  <2>2. /\ call'.voice = call.voice /\ call'.slot = call.slot /\ call'.buf = call.buf
        /\ call'.va = call.va
    BY <2>1 DEF SplitInv, SplitTypes, CallT
  <2>3. WholeInv'
    BY <2>1, <2>2 DEF WholeInv
  <2>4. ASSUME NEW v \in Voices, NEW s \in Slots, ~ BeingWritten(v, s)'
        PROVE  ~ BeingWritten(v, s) /\ Played(v, s)' = Played(v, s)
    <3>1. ~ BeingWritten(v, s)
      BY <2>1, <2>2, <2>4 DEF BeingWritten
    <3>2. \A l \in 0 .. MaxSsl - 1 : ssl'[SslBase(v, s) + l] = ssl[SslBase(v, s) + l]
      BY <1>4, <3>1, OthersKept
    <3>3. Played(v, s)' = Played(v, s)
      BY <2>1, <3>2, PlayedSame DEF SplitInv
    <3> QED BY <3>1, <3>3
  <2>5. NothingDropped'
    BY <2>1, <2>4 DEF NothingDropped
  <2> QED BY <2>3, <2>5
<1>5. ASSUME SetVoiceSsl PROVE WholeInv' /\ NothingDropped'
  <2> DEFINE v == call.voice
             s == call.slot
             es == call.entries
             f == fmt[v]
  <2>1. /\ pc = "write" /\ pc' = "queued" /\ UNCHANGED <<fmt, ssl, call>>
        /\ count' = [count EXCEPT ![v][s] = Len(es)]
        /\ loaded' = [loaded EXCEPT ![v][s] = call.buf]
    BY <1>5 DEF SetVoiceSsl
  <2>2. /\ v \in Voices /\ s \in Slots
        /\ count \in [Voices -> [Slots -> 0 .. MaxSsl]]
        /\ loaded \in [Voices -> [Slots -> Buffers \cup {Nobody}]]
        /\ Ends(es, f)[Len(es)] = call.va
    BY <2>1 DEF SplitInv, SplitTypes, CallT, QueueInv, Queueing, ListFor
  <2>3. Played(v, s)' = es
    BY <1>5, SlotLoaded
  <2>4. ASSUME NEW w \in Voices, NEW t \in Slots, loaded'[w][t] # Nobody,
               BlocksFitPages(loaded'[w][t], fmt[w])
        PROVE  Ends(Played(w, t)', fmt[w])[count'[w][t]]
                 = loaded'[w][t].size - (loaded'[w][t].size % BlockBytes(fmt[w]))
    <3>1. CASE w = v /\ t = s
      <4>1. count'[v][s] = Len(es) /\ loaded'[v][s] = call.buf
        <5> HIDE DEF v, s, es
        <5> QED BY <2>1, <2>2
      <4>2. call.va = call.buf.size - (call.buf.size % BlockBytes(f))
        BY <2>1, <2>4, <3>1, <4>1 DEF WholeInv
      <4>3. Played(w, t)' = es
        BY <2>1, <2>3, <3>1
      <4> HIDE DEF v, s, es
      <4> QED BY <2>2, <3>1, <4>1, <4>2, <4>3
    <3>2. CASE w # v \/ t # s
      <4>1. count'[w][t] = count[w][t] /\ loaded'[w][t] = loaded[w][t]
        <5> HIDE DEF v, s, es
        <5> QED BY <2>1, <2>2, <3>2
      <4>2. Played(w, t)' = Played(w, t)
        BY <2>1, <4>1 DEF Played
      <4>3. ~ BeingWritten(w, t)
        BY <3>2 DEF BeingWritten
      <4> HIDE DEF v, s, es
      <4>4. loaded[w][t] # Nobody /\ BlocksFitPages(loaded[w][t], fmt[w])
        BY <2>4, <4>1
      <4>5. Ends(Played(w, t), fmt[w])[count[w][t]]
              = loaded[w][t].size - (loaded[w][t].size % BlockBytes(fmt[w]))
        BY <4>3, <4>4 DEF NothingDropped
      <4> QED BY <4>1, <4>2, <4>5
    <3> QED BY <3>1, <3>2
  <2>5. NothingDropped'
    BY <2>1, <2>4 DEF NothingDropped
  <2> QED BY <2>1, <2>5 DEF WholeInv
<1>6. ASSUME UNCHANGED vars PROVE WholeInv' /\ NothingDropped'
  BY <1>6 DEF vars, table, WholeInv, NothingDropped, Played, BeingWritten
<1>7. ASSUME \/ \E v \in Voices, s \in Slots, b \in Buffers : Queue(v, s, b)
             \/ Refuse \/ Probe \/ ProbeNext \/ Return
             \/ \E v \in Voices, b \in Buffers : Submit(v, b)
             \/ WriteSge \/ SetBufBase
      PROVE  WholeInv' /\ NothingDropped'
  <2>1. pc # "write" /\ pc' # "write" /\ UNCHANGED <<fmt, ssl, count, loaded>>
    BY <1>7 DEF Queue, Refuse, Probe, ProbeNext, Return, Submit, WriteSge, SetBufBase, table
  <2> QED BY <1>1, <2>1
<1> QED BY <1>2, <1>3, <1>4, <1>5, <1>6, <1>7 DEF Next

\* A buffer whose blocks divide the pages is described to its last whole block
\* (include/nxaudio.h:213).
THEOREM NothingIsDropped ==
  ASSUME PiecesCanBeCounted PROVE Spec => []NothingDropped
<1>1. Init => WholeInv /\ NothingDropped
  BY DEF Init, WholeInv, NothingDropped
<1>2. SplitInv /\ SplitInv' /\ WholeInv /\ NothingDropped /\ [Next]_vars
        => WholeInv' /\ NothingDropped'
  BY SplitAssumption, WholeStep DEF WholeSplitInv
<1> QED BY <1>1, <1>2, SplitInvariance, PTL DEF Spec

-----------------------------------------------------------------------------
(***************************************************************************)
(* A buffer is refused only when it needs more entries than there are.     *)
(***************************************************************************)
\* The farthest end of a split that is not beyond va.
IsLastEnd(m, ends, va) == m <= va /\ \A n \in ends : n <= va => n <= m
LEMMA LastEnd ==
  ASSUME NEW ends, ends \subseteq Nat, 0 \in ends, NEW va \in Nat
  PROVE  \E m \in ends : IsLastEnd(m, ends, va)
<1> USE DEF IsLastEnd
<1> DEFINE T == {va - n : n \in {n \in ends : n <= va}}
<1>1. T \in SUBSET Nat
  OBVIOUS
<1>2. va - 0 \in T
  OBVIOUS
<1>3. PICK x \in T : \A y \in T : x <= y
  <2> HIDE DEF T
  <2> QED BY <1>1, <1>2, Least
<1>4. PICK m \in ends : m <= va /\ x = va - m
  BY <1>3
<1>5. ASSUME NEW n \in ends, n <= va PROVE n <= m
  <2>1. va - n \in T
    BY <1>5
  <2>2. va - m <= va - n
    BY <1>3, <1>4, <2>1
  <2>3. m \in Nat /\ n \in Nat
    OBVIOUS
  <2> HIDE DEF T
  <2> QED BY <2>2, <2>3
<1> QED BY <1>4, <1>5

LEMMA InnerFacts ==
  ASSUME SplitAssumption, NEW b \in Buffers, NEW f \in Formats,
         NEW cuts \in SUBSET Inner(b, f), b.size % BlockBytes(f) = 0
  PROVE  /\ cuts \cup {0, b.size} \subseteq Nat
         /\ \A n \in cuts \cup {0, b.size} : n % BlockBytes(f) = 0 /\ n <= b.size
<1>1. b.size \in Nat \ {0} /\ BlockBytes(f) \in Nat \ {0}
  BY BufferFacts, BlockFacts
<1>2. 0 % BlockBytes(f) = 0
  <2>1. 0 = BlockBytes(f) * 0
    BY <1>1
  <2> QED BY <1>1, <2>1, Multiples
<1>3. ASSUME NEW n \in cuts PROVE n \in Nat /\ n % BlockBytes(f) = 0 /\ n <= b.size
  <2> DEFINE size == b.size
  <2>1. n \in 1 .. size - 1 /\ size \in Nat /\ n % BlockBytes(f) = 0
    BY <1>1 DEF Inner
  <2> HIDE DEF size
  <2>2. n \in Nat /\ n <= size
    BY <2>1
  <2> QED BY <2>1, <2>2 DEF size
<1> QED BY <1>1, <1>2, <1>3

\* Every split has an end in the piece that is cut.
LEMMA EndInPiece ==
  ASSUME SplitAssumption, NEW b \in Buffers, NEW f \in Formats,
         NEW cuts \in SUBSET Inner(b, f), b.size % BlockBytes(f) = 0, SplitsAt(cuts, b, f),
         NEW va \in Nat, va % BlockBytes(f) = 0, NEW c \in Nat, va + c <= b.size, va < b.size,
         \/ va + c = b.size
         \/ Phys(b, va + c) # Phys(b, va) + c,
         va + PieceOf(c, f) < b.size
  PROVE  \E n \in cuts : va < n /\ n <= va + PieceOf(c, f)
<1> DEFINE ends == cuts \cup {0, b.size}
           d == BlockBytes(f)
           max == MaxBytes(f)
           p == PieceOf(c, f)
           size == b.size
<1>1. size \in Nat \ {0} /\ d \in Nat \ {0} /\ max \in Nat
  BY BufferFacts, BlockFacts
<1>2. ends \subseteq Nat /\ \A n \in ends : n % d = 0 /\ n <= size
  BY InnerFacts
<1>3. ends \subseteq Nat /\ 0 \in ends /\ va \in Nat
  BY <1>2
<1>4. PICK m \in ends : IsLastEnd(m, ends, va)
  <2> HIDE DEF ends
  <2> QED BY <1>3, LastEnd
<1>5. m <= va /\ \A n \in ends : n <= va => n <= m
  <2> HIDE DEF ends
  <2> QED BY <1>4 DEF IsLastEnd
<1>6. m \in Nat /\ m < size /\ size \in ends
  <2>1. m \in Nat /\ m <= va /\ va < size
    BY <1>2, <1>5
  <2> HIDE DEF size
  <2> QED BY <1>1, <2>1 DEF size
<1>7. PICK n \in ends : m < n /\ n - m <= max /\ Contiguous(b, m, n)
  <2>1. ~ \A n \in ends : n <= m
    <3> HIDE DEF ends, size
    <3> QED BY <1>1, <1>6
  <2> QED BY <2>1 DEF SplitsAt
<1>8. n \in Nat /\ n > va /\ n % d = 0 /\ n <= size
  <2> HIDE DEF ends, d, size
  <2> QED BY <1>2, <1>5, <1>6, <1>7
<1>9. p \in 0 .. c /\ \A x \in Nat : x % d = 0 /\ x <= c /\ x <= max => x <= p
  BY PieceFacts
<1>10. (n - va) % d = 0 /\ n - va \in Nat
  <2>1. va % d = 0 /\ n % d = 0 /\ n \in Nat /\ d \in Nat \ {0} /\ va <= n
    BY <1>1, <1>8
  <2> HIDE DEF d
  <2> QED BY <2>1, MultiplesSubtract
<1>11. n - va <= max
  <2> HIDE DEF max, ends
  <2> QED BY SMTT(20), <1>1, <1>5, <1>6, <1>7, <1>8
<1>12. ASSUME n > va + c PROVE FALSE
  <2>1. va + c # size
    <3> HIDE DEF size
    <3> QED BY <1>1, <1>8, <1>12
  <2>2. Phys(b, va + c) # Phys(b, va) + c
    BY <2>1
  <2>3. va + c \in m .. n - 1 /\ va \in m .. n - 1
    <3> HIDE DEF ends
    <3> QED BY <1>5, <1>6, <1>8, <1>12
  <2>4. Phys(b, va + c) = Phys(b, m) + (va + c) - m /\ Phys(b, va) = Phys(b, m) + va - m
    BY <1>7, <2>3 DEF Contiguous
  <2>5. Phys(b, m) \in Nat
    BY <1>6, PhysFacts
  <2> DEFINE x == Phys(b, m)
             y == Phys(b, va)
             z == Phys(b, va + c)
  <2>6. x \in Nat /\ y = x + va - m /\ z = x + (va + c) - m /\ z # y + c
    BY <2>2, <2>4, <2>5
  <2> HIDE DEF x, y, z
  <2> QED BY <1>6, <2>6
<1>13. n <= va + p
  <2>1. n - va <= c
    BY <1>8, <1>12
  <2>2. n - va <= p /\ p \in Nat
    <3> HIDE DEF d, p, max
    <3> QED BY <1>9, <1>10, <1>11, <2>1
  <2> HIDE DEF p
  <2> QED BY <1>8, <2>2
<1>14. n \in cuts
  <2>1. n # 0 /\ n # size
    <3>1. va + p < size
      OBVIOUS
    <3>2. p \in Nat
      BY <1>9
    <3> HIDE DEF p, size
    <3> QED BY SMTT(20), <1>8, <1>13, <3>1, <3>2, <1>1
  <2> QED BY <1>7, <2>1
<1> HIDE DEF p
<1> QED BY <1>8, <1>13, <1>14 DEF p

LEMMA CountGrows ==
  ASSUME NEW cuts \in SUBSET Nat, NEW va \in Nat, NEW e \in Nat,
         NEW n \in cuts, va < n, n <= e
  PROVE  /\ Cardinality(cuts \cap (1 .. e)) >= Cardinality(cuts \cap (1 .. va)) + 1
         /\ Cardinality(cuts \cap (1 .. va)) \in Nat
         /\ Cardinality(cuts \cap (1 .. e)) \in Nat
<1> DEFINE A == cuts \cap (1 .. va)
           B == cuts \cap (1 .. e)
<1>1. IsFiniteSet(1 .. va) /\ IsFiniteSet(1 .. e)
  BY FS_Interval
<1>2. IsFiniteSet(A) /\ IsFiniteSet(B) /\ Cardinality(A) \in Nat /\ Cardinality(B) \in Nat
  <2>1. IsFiniteSet(A)
    BY <1>1, FS_Subset
  <2>2. IsFiniteSet(B)
    BY <1>1, FS_Subset
  <2> QED BY <2>1, <2>2, FS_CardinalityType
<1>3. n \notin A /\ A \cup {n} \subseteq B
  OBVIOUS
<1> HIDE DEF A, B
<1>4. Cardinality(A \cup {n}) = Cardinality(A) + 1
  BY <1>2, <1>3, FS_AddElement
<1>5. Cardinality(A \cup {n}) <= Cardinality(B)
  BY <1>2, <1>3, FS_Subset
<1> QED BY <1>2, <1>4, <1>5 DEF A, B

LEMMA CountNat ==
  ASSUME NEW cuts, NEW va \in Nat
  PROVE  Cardinality(cuts \cap (1 .. va)) \in Nat
<1>1. IsFiniteSet(1 .. va)
  BY FS_Interval
<1>2. IsFiniteSet(cuts \cap (1 .. va))
  BY <1>1, FS_Subset
<1> QED BY <1>2, FS_CardinalityType

LEMMA GreedyEmit ==
  ASSUME SplitAssumption, SplitInv, GreedyInv, Emit, pc' = "split" PROVE GreedyInv'
<1> DEFINE f == fmt[call.voice]
           b == call.buf
           va == call.va
           c == call.contig
           p == PieceOf(c, f)
           es == call.entries
           left == call.left
           size == b.size
<1> SUFFICES ASSUME call'.left > 0, call'.buf.size % BlockBytes(fmt'[call'.voice]) = 0,
                    NEW cuts \in SUBSET Inner(call'.buf, fmt'[call'.voice]),
                    SplitsAt(cuts, call'.buf, fmt'[call'.voice])
             PROVE  Len(call'.entries) <= Cardinality(cuts \cap (1 .. call'.va))
  BY DEF GreedyInv
<1>1. PICK e : /\ pc = "probe" /\ fmt' = fmt /\ ~Continues
               /\ call' = [call EXCEPT !.va = va + p, !.left = left - p, !.contig = 0,
                                       !.entries = Append(es, e)]
  BY DEF Emit, Piece, PieceOf
<1>2. /\ b \in Buffers /\ va + left = size /\ call \in CallT /\ f \in Formats
      /\ va % BlockBytes(f) = 0 /\ c <= left /\ c > 0
  BY <1>1 DEF SplitInv, QueueInv, Queueing, SplitTypes, CallT, ListFor, ProbeInv
<1>3. /\ va \in Nat /\ left \in Nat /\ c \in Nat /\ size \in Nat /\ es \in Seq(EntryT)
  BY <1>2, BufferFacts DEF CallT
<1>4. /\ call'.buf = b /\ call'.va = va + p /\ call'.voice = call.voice
      /\ call'.left = left - p /\ call'.entries = Append(es, e)
  <2> DEFINE x == va + p
             y == left - p
             zs == Append(es, e)
  <2>1. call' = [call EXCEPT !.va = x, !.left = y, !.contig = 0, !.entries = zs]
    BY <1>1
  <2> HIDE DEF x, y, zs
  <2>2. /\ call'.buf = b /\ call'.va = x /\ call'.voice = call.voice
        /\ call'.left = y /\ call'.entries = zs
    BY <1>2, <2>1 DEF CallT
  <2> QED BY <2>2 DEF x, y, zs
<1>5. p \in 0 .. c
  <2> HIDE DEF f, c
  <2> QED BY <1>2, <1>3, PieceFacts
<1>6. va < size /\ va + c <= size /\ va + p < size /\ left > 0
  <2>1. left - p > 0
    BY <1>4
  <2> HIDE DEF left, p, c, va, size
  <2> QED BY <1>2, <1>3, <1>5, <2>1
<1>7. va + c = size \/ Phys(b, va + c) # Phys(b, va) + c
  <2>1. c = left \/ Phys(b, va + c) # Phys(b, va) + c
    <3>1. ~ (c < left) => c = left
      <4> HIDE DEF c, left
      <4> QED BY <1>2, <1>3
    <3> QED BY <1>1, <3>1 DEF Continues
  <2> QED BY <1>2, <2>1
<1>8. /\ cuts \in SUBSET Inner(b, f) /\ size % BlockBytes(f) = 0 /\ SplitsAt(cuts, b, f)
  BY <1>1, <1>4
<1>9. \E n \in cuts : va < n /\ n <= va + p
  <2> HIDE DEF b, f, va, c
  <2> QED BY <1>2, <1>3, <1>6, <1>7, <1>8, EndInPiece
<1>10. Len(es) <= Cardinality(cuts \cap (1 .. va))
  BY <1>1, <1>6, <1>8 DEF GreedyInv
<1>11. cuts \in SUBSET Nat
  BY <1>2, <1>8, InnerFacts
<1>12. va + p \in Nat
  <2> HIDE DEF va, p
  <2> QED BY <1>3, <1>5
<1>13. /\ Cardinality(cuts \cap (1 .. (va + p))) >= Cardinality(cuts \cap (1 .. va)) + 1
       /\ Cardinality(cuts \cap (1 .. va)) \in Nat
       /\ Cardinality(cuts \cap (1 .. (va + p))) \in Nat
  <2> HIDE DEF va, p
  <2> QED BY <1>3, <1>9, <1>11, <1>12, CountGrows
<1>14. Len(Append(es, e)) = Len(es) + 1 /\ Len(es) \in Nat
  <2> HIDE DEF es
  <2> QED BY <1>3
<1> HIDE DEF p, va, es
<1> QED BY <1>4, <1>10, <1>13, <1>14

LEMMA GreedyStep ==
  ASSUME SplitAssumption, SplitInv, GreedyInv, [Next]_vars PROVE GreedyInv'
<1>1. ASSUME NEW v \in Voices, NEW s \in Slots, NEW b \in Buffers, Queue(v, s, b)
      PROVE  GreedyInv'
  <2>1. /\ pc' = "split" /\ call'.entries = <<>> /\ call'.va = 0
    BY <1>1 DEF Queue, NoCall
  <2>2. \A cuts : Cardinality(cuts \cap (1 .. 0)) \in Nat
    BY CountNat
  <2> QED BY <2>1, <2>2 DEF GreedyInv
<1>2. ASSUME Refuse PROVE GreedyInv'
  BY <1>2 DEF Refuse, GreedyInv
<1>3. ASSUME Probe \/ ProbeNext PROVE GreedyInv'
  <2>1. /\ pc \in {"split", "probe"} /\ pc' = "probe" /\ fmt' = fmt
        /\ call'.buf = call.buf /\ call'.voice = call.voice /\ call'.va = call.va
        /\ call'.left = call.left /\ call'.entries = call.entries
    BY <1>3 DEF Probe, ProbeNext, SplitInv, SplitTypes, CallT
  <2> QED BY <2>1 DEF GreedyInv
<1>4. ASSUME Emit PROVE GreedyInv'
  <2>1. pc' = "write" \/ pc' = "split"
    BY <1>4 DEF Emit
  <2> QED BY <1>4, <2>1, GreedyEmit DEF GreedyInv
<1>5. ASSUME pc' \notin {"split", "probe", "refused"} PROVE GreedyInv'
  BY <1>5 DEF GreedyInv
<1>6. ASSUME UNCHANGED vars PROVE GreedyInv'
  BY <1>6 DEF vars, GreedyInv
<1>7. ASSUME \/ SplitDone \/ WriteSsl \/ SetVoiceSsl \/ Return
             \/ \E v \in Voices, b \in Buffers : Submit(v, b)
             \/ WriteSge \/ SetBufBase
      PROVE  pc' \notin {"split", "probe", "refused"}
  BY <1>7 DEF SplitDone, WriteSsl, SetVoiceSsl, Return, Submit, WriteSge, SetBufBase
<1> QED BY <1>1, <1>2, <1>3, <1>4, <1>5, <1>6, <1>7 DEF Next

LEMMA GreedyRefuses ==
  ASSUME SplitAssumption, SplitInv, GreedyInv PROVE RefusedOnlyWhenNeeded
<1> DEFINE f == fmt[call.voice]
           b == call.buf
<1> SUFFICES ASSUME pc = "refused", b.size % BlockBytes(f) = 0,
                    NEW n \in 0 .. MaxSsl - 1, NEW cuts \in kSubset(n, Inner(b, f)),
                    SplitsAt(cuts, b, f)
             PROVE  FALSE
  BY DEF RefusedOnlyWhenNeeded, Inner
<1>1. cuts \in SUBSET Inner(b, f) /\ Cardinality(cuts) = n
  BY DEF kSubset
<1>2. Len(call.entries) <= Cardinality(cuts \cap (1 .. call.va))
  BY <1>1 DEF GreedyInv
<1>3. Len(call.entries) >= MaxSsl
  BY DEF GreedyInv, ListFull
<1>4. /\ call.va \in Nat /\ MaxSsl \in Nat /\ b.size \in Nat /\ Len(call.entries) \in Nat
  <2>1. call \in CallT /\ b \in Buffers
    BY DEF SplitInv, SplitTypes, QueueInv, Queueing
  <2>2. b.size \in Nat
    BY <2>1, BufferFacts
  <2>3. call.entries \in Seq(EntryT) /\ call.va \in Nat
    BY <2>1 DEF CallT
  <2>4. Len(call.entries) \in Nat
    BY <2>3
  <2> QED BY <2>2, <2>3, <2>4 DEF SplitAssumption
<1>5. Cardinality(cuts \cap (1 .. call.va)) <= Cardinality(cuts)
  <2>1. IsFiniteSet(1 .. b.size - 1)
    <3> DEFINE last == b.size - 1
    <3>1. last \in Int /\ 1 \in Int
      BY <1>4
    <3> HIDE DEF last
    <3>2. IsFiniteSet(1 .. last)
      BY <3>1, FS_Interval
    <3> QED BY <3>2 DEF last
  <2>2. cuts \subseteq 1 .. b.size - 1
    BY <1>1 DEF Inner
  <2>3. IsFiniteSet(cuts)
    BY <2>1, <2>2, FS_Subset
  <2> QED BY <2>3, FS_Subset
<1>6. Cardinality(cuts \cap (1 .. call.va)) \in Nat
  BY <1>4, CountNat
<1> HIDE DEF b, f
<1> QED BY <1>1, <1>2, <1>3, <1>4, <1>5, <1>6

\* When nxAudioBufferQueue refuses a buffer of whole blocks, no split of it into
\* MaxSsl contiguous pieces exists (audio_buffer.c:89-92).
THEOREM RefusesOnlyWhenNeeded ==
  ASSUME PiecesCanBeCounted PROVE Spec => []RefusedOnlyWhenNeeded
<1>1. Init => GreedyInv
  BY DEF Init, GreedyInv
<1>2. SplitInv /\ GreedyInv /\ [Next]_vars => GreedyInv'
  BY SplitAssumption, GreedyStep
<1>3. SplitInv /\ GreedyInv => RefusedOnlyWhenNeeded
  BY SplitAssumption, GreedyRefuses
<1> QED BY <1>1, <1>2, <1>3, SplitInvariance, PTL DEF Spec

-----------------------------------------------------------------------------
(***************************************************************************)
(* nxAudioVoiceSetPlaybackOffset (PlaybackOffset): it never places a voice *)
(* behind the end of its buffer, for every format, size of buffer and      *)
(* argument, and with the voice processor taking any step between the two  *)
(* reads and the write of the call.  What makes it so is that the end of   *)
(* the buffer changes in BufferSubmit only, which no thread makes while    *)
(* another is in the call: a checked target stays within the buffer        *)
(* (CheckedTarget).                                                        *)
(***************************************************************************)
CheckedTarget == step = "write" => target <= ebo
OffsetInv == OffsetTypeOK /\ OffsetInBuffer /\ CheckedTarget

\* The blocks in a number of bytes are a natural number.
LEMMA BlocksNat ==
  ASSUME OffsetsAssumption, NEW n \in Nat, block \in Blocks
  PROVE  bytes_to_blocks(n) \in Nat
<1>1. block \in Nat \ {0}
  BY DEF OffsetsAssumption
<1>2. \A m \in Nat, d \in Nat \ {0} : m \div d \in Nat
  OBVIOUS
<1> QED BY <1>1, <1>2 DEF bytes_to_blocks

LEMMA OffsetBegins ==
  ASSUME OffsetsAssumption PROVE OffsetInit => OffsetInv
<1> SUFFICES ASSUME OffsetInit PROVE OffsetInv
  OBVIOUS
<1>1. Positions /\ OffsetInBuffer /\ CheckedTarget
  BY DEF OffsetsAssumption, OffsetInit, Positions, OffsetInBuffer, CheckedTarget
<1>2. Flags
  BY Zenon DEF OffsetInit, Flags, States
<1> QED BY <1>1, <1>2 DEF OffsetInv, OffsetTypeOK

\* What the calls, the voice processor and apu_dpc do to the flags of a voice.
LEMMA FlagsGoOn ==
  ASSUME Flags, OffsetNext PROVE Flags'
<1> USE DEF Flags, States, setup, play, request
<1>1. ASSUME NEW b \in Blocks, VoiceSetFormat(b) PROVE Flags'
  BY <1>1, Zenon DEF VoiceSetFormat
<1>2. ASSUME NEW n \in Sizes, BufferSubmit(n) PROVE Flags'
  <2>1. hasBuffer' \in BOOLEAN
    BY <1>2, Zenon DEF BufferSubmit
  <2> QED BY <1>2, <2>1, Zenon DEF BufferSubmit
<1>3. CASE BufferQueue
  BY <1>3, Zenon DEF BufferQueue
<1>4. CASE BuffersPlayed
  BY <1>4, Zenon DEF BuffersPlayed
<1>5. CASE Unpause
  <2>1. "PAUSED" # "STOPPED" /\ "PLAYING" # "STOPPED"
    OBVIOUS
  <2> QED BY <1>5, <2>1, Zenon DEF Unpause
<1>6. CASE VoiceStart
  <2>1. "PLAYING" # "STOPPED"
    OBVIOUS
  <2> QED BY <1>6, <2>1, Zenon DEF VoiceStart
<1>7. CASE VoiceRelease
  <2>1. "STOPPING" # "STOPPED"
    OBVIOUS
  <2> QED BY <1>7, <2>1, Zenon DEF VoiceRelease
<1>8. CASE VoiceStop
  BY <1>8, Zenon DEF VoiceStop
<1>9. CASE VoicePause
  <2>1. "PAUSED" # "STOPPED"
    OBVIOUS
  <2> QED BY <1>9, <2>1, Zenon DEF VoicePause
<1>10. CASE TakeUp
  BY <1>10, Zenon DEF TakeUp
<1>11. CASE PlayBlock
  <2>1. active' \in {active, FALSE}
    BY <1>11, Zenon DEF PlayBlock
  <2> QED BY <1>11, <2>1, Zenon DEF PlayBlock
<1>12. CASE VoiceEnds
  BY <1>12, Zenon DEF VoiceEnds
<1>13. CASE Retire
  BY <1>13, Zenon DEF Retire
<1>14. ASSUME NEW n \in Offsets, SetOffsetCall(n) PROVE Flags'
  BY <1>14, Zenon DEF SetOffsetCall
<1>15. CASE Waited \/ Check \/ WriteCbo
  BY <1>15, Zenon DEF Waited, Check, WriteCbo
<1> QED BY <1>1, <1>2, <1>3, <1>4, <1>5, <1>6, <1>7, <1>8, <1>9, <1>10, <1>11,
           <1>12, <1>13, <1>14, <1>15, Zenon DEF OffsetNext

LEMMA OffsetGoesOn ==
  ASSUME OffsetsAssumption
  PROVE  OffsetInv /\ [OffsetNext]_offsetVars => OffsetInv'
<1> SUFFICES ASSUME OffsetInv, [OffsetNext]_offsetVars PROVE OffsetInv'
  OBVIOUS
<1> DEFINE Inv == Positions /\ OffsetInBuffer /\ CheckedTarget
<1>0. Inv /\ Flags
  BY DEF OffsetInv, OffsetTypeOK
<1>a. CASE UNCHANGED offsetVars
  BY <1>0, <1>a DEF offsetVars, setup, play, request, OffsetInv, OffsetTypeOK,
     Positions, Flags, OffsetInBuffer, CheckedTarget
<1>b. CASE OffsetNext
  <2> USE <1>0 DEF OffsetsAssumption, Positions, OffsetInBuffer, CheckedTarget,
                   Idle, setup, play, request
  <2>1. ASSUME NEW b \in Blocks, VoiceSetFormat(b) PROVE Inv'
    BY <2>1 DEF VoiceSetFormat
  <2>2. ASSUME NEW n \in Sizes, BufferSubmit(n) PROVE Inv'
    <3> DEFINE total == bytes_to_blocks(n)
    <3>1. total \in Nat
      BY BlocksNat
    <3>2. CASE UNCHANGED <<ebo, cbo>>
      BY <2>2, <3>2 DEF BufferSubmit
    <3>3. CASE total > 0 /\ ebo' = total - 1 /\ cbo' = 0
      <4>1. total - 1 \in Nat
        BY <3>1, <3>3
      <4> QED BY <2>2, <3>3, <4>1 DEF BufferSubmit
    <3> QED BY <2>2, <3>2, <3>3 DEF BufferSubmit
  <2>3. ASSUME BufferQueue \/ BuffersPlayed PROVE Inv'
    BY <2>3 DEF BufferQueue, BuffersPlayed
  <2>4. ASSUME Unpause \/ VoiceStart \/ VoiceRelease \/ VoiceStop \/ VoicePause PROVE Inv'
    BY <2>4 DEF Unpause, VoiceStart, VoiceRelease, VoiceStop, VoicePause
  <2>5. ASSUME TakeUp \/ VoiceEnds \/ Retire PROVE Inv'
    BY <2>5 DEF TakeUp, VoiceEnds, Retire
  <2>6. ASSUME PlayBlock PROVE Inv'
    BY <2>6 DEF PlayBlock
  <2>7. ASSUME NEW n \in Offsets, SetOffsetCall(n) PROVE Inv'
    <3>1. bytes_to_blocks(n) \in Nat
      BY BlocksNat
    <3> QED BY <2>7, <3>1 DEF SetOffsetCall
  <2>8. ASSUME Waited PROVE Inv'
    BY <2>8 DEF Waited
  <2>9. ASSUME Check PROVE Inv'
    BY <2>9 DEF Check, Within
  <2>10. ASSUME WriteCbo PROVE Inv'
    BY <2>10 DEF WriteCbo
  <2>11. Flags'
    BY <1>b, FlagsGoOn
  <2> HIDE DEF Inv
  <2>12. Inv'
    BY <1>b, <2>1, <2>2, <2>3, <2>4, <2>5, <2>6, <2>7, <2>8, <2>9, <2>10, Zenon
       DEF OffsetNext
  <2> QED BY <2>11, <2>12 DEF Inv, OffsetInv, OffsetTypeOK
<1> QED BY <1>a, <1>b

\* The registers of the position and of the end of the buffer are positions, and
\* a voice in NX_STOPPED is one the VP has turned off.
THEOREM OffsetTypes == OffsetSpec => []OffsetTypeOK
<1>1. OffsetInv => OffsetTypeOK
  BY DEF OffsetInv
<1>2. OffsetInit => OffsetInv
  BY OffsetsAssumption, OffsetBegins
<1>3. OffsetInv /\ [OffsetNext]_offsetVars => OffsetInv'
  BY OffsetsAssumption, OffsetGoesOn
<1> QED BY <1>1, <1>2, <1>3, PTL DEF OffsetSpec

\* A voice is never placed behind the end of its buffer.
THEOREM NeverBehindTheEnd == OffsetSpec => []OffsetInBuffer
<1>1. OffsetInv => OffsetInBuffer
  BY DEF OffsetInv
<1>2. OffsetInit => OffsetInv
  BY OffsetsAssumption, OffsetBegins
<1>3. OffsetInv /\ [OffsetNext]_offsetVars => OffsetInv'
  BY OffsetsAssumption, OffsetGoesOn
<1> QED BY <1>1, <1>2, <1>3, PTL DEF OffsetSpec
=============================================================================
