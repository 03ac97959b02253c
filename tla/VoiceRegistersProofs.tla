------------------------ MODULE VoiceRegistersProofs ------------------------
(***************************************************************************)
(* The register image of the voices, for every number of voices, every     *)
(* size of the FIFO and every application whose callback queues only while *)
(* no setter is under way: between calls the registers hold what the calls *)
(* asked for, and no write finds the FIFO full.                            *)
(* The argument looks ahead: what the writes still to come will leave in   *)
(* each register (Final) is what the settings ask of it, and the writes of *)
(* a call reach no register but those of its own voice (Directed).         *)
(***************************************************************************)
EXTENDS VoiceRegisters, TLAPS

-----------------------------------------------------------------------------
(* Lists of writes. *)

Others  == {"WAIT", "CURRENT", "LOCK", "0x350", "0x370", "DATA", "CURRENT_SSL",
            "SEGMENT_OFFSET", "SEGMENT_LENGTH", "INBUF_SGE", "INBUF_SGE_OFFSET",
            "BUF_LBO", "BUF_CBO", "BUF_EBO", "ANTECEDENT_VOICE", "VOICE_ON",
            "VOICE_PAUSE", "VOICE_RELEASE", "VOICE_OFF"}
Contents == UNION {Values(r) : r \in Words}
Buffers  == Voices \X BOOLEAN
Payload  == Nat \cup BOOLEAN \cup HwVoices \cup Contents \cup Buffers
Items    == (Words \cup Others) \X Payload
Lists    == Seq(Items)

\* s writes no register r; the last of its writes to r writes x; and x is what r
\* holds once s is written, where it held old.
Absent(s, r) == \A p \in 1 .. Len(s) : s[p][1] # r
Last(s, r, x) ==
  \E p \in 1 .. Len(s) : s[p] = <<r, x>> /\ \A q \in p + 1 .. Len(s) : s[q][1] # r
Final(s, r, x, old) == Last(s, r, x) \/ (Absent(s, r) /\ x = old)

\* Each write of s has its place in the FIFO, when n are free before the first.
Paced(s, n) ==
  \A p \in 1 .. Len(s) : s[p][1] # "WAIT" =>
    \/ p <= n /\ \A q \in 1 .. p : s[q][1] # "WAIT"
    \/ \E q \in 1 .. p - 1 : /\ s[q][1] = "WAIT" /\ p - q <= s[q][2]
                             /\ \A j \in q + 1 .. p : s[j][1] # "WAIT"

\* The waits can be granted; the writes are to the voice at index i.
Fits(s, i) ==
  \A p \in 1 .. Len(s) :
    /\ s[p][1] = "WAIT" => s[p][2] \in 0 .. FifoSize
    /\ s[p][1] = "CURRENT" => s[p][2] = i
    /\ s[p][1] = "LOCK" => s[p][2] \in BOOLEAN
\* i is the current voice before the first write but SET_CURRENT_VOICE.
Directed(s, i, c) ==
  \/ c = i
  \/ Len(s) >= 1 /\ s[1] = <<"CURRENT", i>>
  \/ Len(s) >= 2 /\ s[1][1] = "WAIT" /\ s[2] = <<"CURRENT", i>>

\* A part of a call's writes, from a wait to the next; the first part of all.
Piece(s, i) ==
  /\ s \in Lists /\ Len(s) >= 2 /\ s[1][1] = "WAIT"
  /\ Fits(s, i) /\ Paced(s, 0)
Opening(s, i) == Piece(s, i) /\ s[2] = <<"CURRENT", i>>

-----------------------------------------------------------------------------
(* The invariant. *)

Settings ==
  [format : Formats, pitch : Pitches \cup {Zero}, looping : BOOLEAN,
   streaming : BOOLEAN, target : Targets \cup {NoTarget, Zero},
   gain : [Knobs -> Levels], amplitude : Params \cup {Zero},
   filter : Params \cup {Zero}, coefficients : Params \cup {Zero}]
WordFile(w) == w = [r \in Words |-> w[r]] /\ \A r \in Words : w[r] \in Values(r)

Shapes ==
  /\ app \in Applications /\ live \subseteq app.voices /\ holds \subseteq live
  /\ state \in [Voices -> {"STOPPED", "PLAYING", "STOPPING"}]
  /\ index \in [Voices -> HwVoices]
  /\ asked = [v \in Voices |-> asked[v]] /\ word = [v \in Voices |-> word[v]]
  /\ image = [i \in HwVoices |-> [r \in Registers |-> image[i][r]]]
  /\ free \subseteq HwVoices /\ current \in HwVoices /\ locked \subseteq HwVoices
  /\ room \in 0 .. FifoSize /\ raised \in BOOLEAN

\* A created voice has an index of its own, of the class of its format.
OwnIndex ==
  \A v \in live :
    /\ index[v] \notin free
    /\ \A u \in live : index[u] = index[v] => u = v
    /\ asked[v].format.is3d = (index[v] < Max3D)

\* The local copies hold what was asked, but for the pitch: nxAudioVoiceSetPitch
\* leaves tar_pitch_link alone.
CopiesFollow ==
  \A v \in live :
    /\ asked[v] \in Settings /\ asked[v].format \in app.formats
    /\ WordFile(word[v])
    /\ \A r \in Words \ {"TAR_PITCH"} : AskedFor(v, r, word[v][r])

\* What an entry in buffers_hardware says of the buffer, for an application
\* that keeps to one of Queue and Submit.
BuffersFollow ==
  \A v \in live :
    /\ state[v] = "PLAYING" => v \in holds
    /\ "Submit" \notin app.calls /\ v \in holds => asked[v].streaming
    /\ "Queue" \notin app.calls => ~asked[v].streaming

\* x is what register r of voice v should hold.
Suits(v, r, x) ==
  /\ r \in Words => x \in Values(r) /\ AskedFor(v, r, x)
  /\ r = "DATA" /\ OneClass /\ OneKind /\ v \in holds =>
       x = <<v, asked[v].streaming>>
Settled(v) ==
  \A r \in Registers : \E x : x = image[index[v]][r] /\ Suits(v, r, x)
Pending(v) ==
  \A r \in Registers : \E x : Final(todo, r, x, image[index[v]][r]) /\ Suits(v, r, x)

\* Between calls; and in a call of voice v.
AtRest == locked = {} /\ \A v \in live : Settled(v)
InCall(v) ==
  /\ todo \in Lists /\ Fits(todo, index[v])
  /\ Directed(todo, index[v], current) /\ Paced(todo, room)
  /\ locked \subseteq {index[v]} /\ Final(todo, "LOCK", FALSE, index[v] \in locked)
  /\ Pending(v) /\ \A u \in live \ {v} : Settled(u)
  /\ raised = FALSE /\ app.quiet => \A u \in live : Stopped(u)
CallsSound ==
  /\ todo = <<>> => AtRest /\ raised = FALSE
  /\ todo # <<>> => \E v \in live : InCall(v)

ImageInv == Shapes /\ OwnIndex /\ CopiesFollow /\ BuffersFollow /\ CallsSound
-----------------------------------------------------------------------------
(* Lists written one after the other, and the rest of a list. *)

LEMMA ConcatAt ==
  ASSUME NEW a \in Lists, NEW b \in Lists
  PROVE  /\ a \o b \in Lists /\ Len(a) \in Nat /\ Len(b) \in Nat
         /\ Len(a \o b) = Len(a) + Len(b)
         /\ \A p \in 1 .. Len(a) : (a \o b)[p] = a[p]
         /\ \A p \in 1 .. Len(b) : (a \o b)[Len(a) + p] = b[p]
BY DEF Lists

LEMMA TailAt ==
  ASSUME NEW s \in Lists, s # <<>>
  PROVE  /\ Tail(s) \in Lists /\ Len(s) \in Nat /\ Len(s) >= 1
         /\ Len(Tail(s)) = Len(s) - 1 /\ Head(s) = s[1]
         /\ \A p \in 1 .. Len(s) - 1 : Tail(s)[p] = s[p + 1]
BY DEF Lists

\* A position of a list written after another is one of the first or the second.
LEMMA ConcatPlaces ==
  ASSUME NEW a \in Lists, NEW b \in Lists
  PROVE  \A p \in 1 .. Len(a \o b) : p \in 1 .. Len(a) \/
           (p > Len(a) /\ p - Len(a) \in 1 .. Len(b) /\ (a \o b)[p] = b[p - Len(a)])
<1> DEFINE c == a \o b
<1>2. /\ Len(a) \in Nat /\ Len(b) \in Nat /\ Len(c) = Len(a) + Len(b)
      /\ \A p \in 1 .. Len(b) : c[Len(a) + p] = b[p]
  BY ConcatAt
<1> HIDE DEF c
<1> SUFFICES ASSUME NEW p \in 1 .. Len(c), p > Len(a)
             PROVE  p - Len(a) \in 1 .. Len(b) /\ c[p] = b[p - Len(a)]
  BY <1>2 DEF c
<1>3. p - Len(a) \in 1 .. Len(b) /\ Len(a) + (p - Len(a)) = p
  BY <1>2
<1> QED BY <1>2, <1>3

LEMMA FinalConcat ==
  ASSUME NEW a \in Lists, NEW b \in Lists, NEW r, NEW x, NEW y, NEW old,
         Final(a, r, x, old), Final(b, r, y, x)
  PROVE  Final(a \o b, r, y, old)
<1> DEFINE c == a \o b
<1>a. /\ Len(a) \in Nat /\ Len(b) \in Nat /\ Len(c) = Len(a) + Len(b)
      /\ \A p \in 1 .. Len(a) : c[p] = a[p]
      /\ \A p \in 1 .. Len(b) : c[Len(a) + p] = b[p]
  BY ConcatAt
<1>b. \A p \in 1 .. Len(c) : p \in 1 .. Len(a) \/
        (p > Len(a) /\ p - Len(a) \in 1 .. Len(b) /\ c[p] = b[p - Len(a)])
  BY ConcatPlaces
<1> HIDE DEF c
<1>1. CASE Last(b, r, y)
  <2>1. PICK p \in 1 .. Len(b) :
          b[p] = <<r, y>> /\ \A q \in p + 1 .. Len(b) : b[q][1] # r
    BY <1>1 DEF Last
  <2>2. Len(a) + p \in 1 .. Len(c) /\ c[Len(a) + p] = <<r, y>>
    BY <1>a, <2>1
  <2>3. ASSUME NEW q \in Len(a) + p + 1 .. Len(c)
        PROVE  c[q][1] # r
    <3>1. q \in 1 .. Len(c) /\ q > Len(a)
      BY <1>a
    <3>2. q - Len(a) \in p + 1 .. Len(b) /\ c[q] = b[q - Len(a)]
      BY <1>a, <1>b, <3>1
    <3> QED BY <2>1, <3>2
  <2>4. Last(c, r, y)
    BY <2>2, <2>3 DEF Last
  <2> QED BY <2>4 DEF Final, c
<1>2. CASE Absent(b, r) /\ y = x
  <2>1. ASSUME NEW q \in 1 .. Len(c), q > Len(a)
        PROVE  c[q][1] # r
    <3>1. q - Len(a) \in 1 .. Len(b) /\ c[q] = b[q - Len(a)]
      BY <1>a, <1>b, <2>1
    <3> QED BY <1>2, <3>1 DEF Absent
  <2>2. CASE Last(a, r, x)
    <3>1. PICK p \in 1 .. Len(a) :
            a[p] = <<r, x>> /\ \A q \in p + 1 .. Len(a) : a[q][1] # r
      BY <2>2 DEF Last
    <3>2. p \in 1 .. Len(c) /\ c[p] = <<r, y>>
      BY <1>a, <1>2, <3>1
    <3>3. \A q \in p + 1 .. Len(c) : c[q][1] # r
      <4> TAKE q \in p + 1 .. Len(c)
      <4>1. CASE q > Len(a)
        BY <1>a, <2>1, <4>1
      <4>2. CASE q <= Len(a)
        <5>1. q \in p + 1 .. Len(a) /\ c[q] = a[q]
          BY <1>a, <4>2
        <5> QED BY <3>1, <5>1
      <4> QED BY <1>a, <4>1, <4>2
    <3>4. Last(c, r, y)
      BY <3>2, <3>3 DEF Last
    <3> QED BY <3>4 DEF Final, c
  <2>3. CASE Absent(a, r) /\ x = old
    <3>1. Absent(c, r)
      BY <1>a, <1>b, <2>1, <2>3 DEF Absent
    <3> QED BY <1>2, <2>3, <3>1 DEF Final, c
  <2> QED BY <2>2, <2>3 DEF Final
<1> QED BY <1>1, <1>2 DEF Final

LEMMA PieceConcat ==
  ASSUME NEW i, NEW a, NEW b, Piece(a, i), Piece(b, i)
  PROVE  Piece(a \o b, i) /\ (Opening(a, i) => Opening(a \o b, i))
<1>1. /\ a \in Lists /\ b \in Lists /\ Len(a) >= 2 /\ Len(b) >= 2
      /\ a[1][1] = "WAIT" /\ b[1][1] = "WAIT"
  BY DEF Piece
<1> DEFINE c == a \o b
<1>2. /\ c \in Lists /\ Len(a) \in Nat /\ Len(b) \in Nat
      /\ Len(c) = Len(a) + Len(b)
      /\ \A p \in 1 .. Len(a) : c[p] = a[p]
      /\ \A p \in 1 .. Len(b) : c[Len(a) + p] = b[p]
  BY <1>1, ConcatAt
<1>3. \A p \in 1 .. Len(c) : p \in 1 .. Len(a) \/
          (p > Len(a) /\ p - Len(a) \in 1 .. Len(b) /\ c[p] = b[p - Len(a)])
  BY <1>1, ConcatPlaces DEF c
<1> HIDE DEF c
<1>4. Fits(c, i)
  BY <1>2, <1>3 DEF Piece, Fits
<1>5. Paced(c, 0)
  <2> SUFFICES ASSUME NEW p \in 1 .. Len(c), c[p][1] # "WAIT"
               PROVE \E q \in 1 .. p - 1 :
                       /\ c[q][1] = "WAIT" /\ p - q <= c[q][2]
                       /\ \A j \in q + 1 .. p : c[j][1] # "WAIT"
    BY DEF Paced
  <2>a. Paced(a, 0) /\ Paced(b, 0)
    BY DEF Piece
  <2>1. CASE p \in 1 .. Len(a)
    <3>0. a[p][1] # "WAIT" /\ ~(p <= 0)
      BY <1>2, <2>1
    <3>1. PICK q \in 1 .. p - 1 : /\ a[q][1] = "WAIT" /\ p - q <= a[q][2]
                                  /\ \A j \in q + 1 .. p : a[j][1] # "WAIT"
      BY <2>a, <2>1, <3>0 DEF Paced
    <3>2. /\ c[q] = a[q] /\ q \in 1 .. p - 1
          /\ \A j \in q + 1 .. p : c[j] = a[j]
      BY <1>2, <2>1
    <3> QED BY <3>1, <3>2
  <2>2. CASE p > Len(a)
    <3>1. /\ p - Len(a) \in 1 .. Len(b) /\ c[p] = b[p - Len(a)]
          /\ ~(p - Len(a) <= 0)
      BY <1>2, <1>3, <2>2
    <3>2. PICK q \in 1 .. (p - Len(a)) - 1 :
            /\ b[q][1] = "WAIT" /\ (p - Len(a)) - q <= b[q][2]
            /\ \A j \in q + 1 .. p - Len(a) : b[j][1] # "WAIT"
      BY <2>a, <3>1 DEF Paced
    <3>3. Len(a) + q \in 1 .. p - 1 /\ c[Len(a) + q] = b[q]
      BY <1>2, <3>1, <3>2
    <3>4. ASSUME NEW j \in Len(a) + q + 1 .. p PROVE c[j][1] # "WAIT"
      <4>1. j - Len(a) \in q + 1 .. p - Len(a) /\ c[j] = b[j - Len(a)]
        BY <1>2, <1>3, <2>2, <3>1, <3>2
      <4> QED BY <3>2, <4>1
    <3>5. p - (Len(a) + q) <= c[Len(a) + q][2]
      <4>1. p - (Len(a) + q) = (p - Len(a)) - q
        BY <1>2
      <4> QED BY <3>2, <3>3, <4>1
    <3> QED BY <3>2, <3>3, <3>4, <3>5
  <2> QED BY <2>1, <2>2, <1>3
<1>6. Len(c) >= 2 /\ c[1] = a[1] /\ c[2] = a[2]
  BY <1>1, <1>2
<1> QED BY <1>1, <1>2, <1>4, <1>5, <1>6 DEF Piece, Opening, c
LEMMA FinalTail ==
  ASSUME NEW s \in Lists, s # <<>>, NEW r, NEW x, NEW old, Final(s, r, x, old)
  PROVE  Final(Tail(s), r, x, IF Head(s)[1] = r THEN Head(s)[2] ELSE old)
<1> DEFINE t == Tail(s)
           now == IF Head(s)[1] = r THEN Head(s)[2] ELSE old
<1>1. /\ Len(s) \in Nat /\ Len(s) >= 1 /\ Len(t) = Len(s) - 1 /\ Head(s) = s[1]
      /\ \A p \in 1 .. Len(s) - 1 : t[p] = s[p + 1]
  BY TailAt
<1> HIDE DEF t
<1>2. CASE Last(s, r, x)
  <2>1. PICK p \in 1 .. Len(s) :
          s[p] = <<r, x>> /\ \A q \in p + 1 .. Len(s) : s[q][1] # r
    BY <1>2 DEF Last
  <2>2. CASE p = 1
    <3>1. Absent(t, r)
      <4> SUFFICES ASSUME NEW q \in 1 .. Len(t) PROVE t[q][1] # r
        BY DEF Absent
      <4>1. q + 1 \in p + 1 .. Len(s) /\ t[q] = s[q + 1]
        BY <1>1, <2>2
      <4> QED BY <2>1, <4>1
    <3>2. x = now
      BY <1>1, <2>1, <2>2
    <3> QED BY <3>1, <3>2 DEF Final, t
  <2>3. CASE p > 1
    <3>1. p - 1 \in 1 .. Len(t) /\ t[p - 1] = s[p]
      BY <1>1, <2>3
    <3>2. ASSUME NEW q \in (p - 1) + 1 .. Len(t) PROVE t[q][1] # r
      <4>1. q + 1 \in p + 1 .. Len(s) /\ t[q] = s[q + 1]
        BY <1>1, <2>3
      <4> QED BY <2>1, <4>1
    <3>3. Last(t, r, x)
      BY <2>1, <3>1, <3>2 DEF Last
    <3> QED BY <3>3 DEF Final, t
  <2> QED BY <2>2, <2>3
<1>3. CASE Absent(s, r) /\ x = old
  <2>1. s[1][1] # r
    BY <1>1, <1>3 DEF Absent
  <2>2. Absent(t, r)
    <3> SUFFICES ASSUME NEW q \in 1 .. Len(t) PROVE t[q][1] # r
      BY DEF Absent
    <3>1. q + 1 \in 1 .. Len(s) /\ t[q] = s[q + 1]
      BY <1>1
    <3> QED BY <1>3, <3>1 DEF Absent
  <2> QED BY <1>1, <1>3, <2>1, <2>2 DEF Final, t
<1> QED BY <1>2, <1>3 DEF Final

LEMMA FinalDone == \A r, x, old : Final(<<>>, r, x, old) => x = old
BY DEF Final, Last

LEMMA PacedTail ==
  ASSUME NEW s \in Lists, s # <<>>, NEW n \in Int, Paced(s, n), NEW i, Fits(s, i)
  PROVE  /\ Paced(Tail(s), IF Head(s)[1] = "WAIT" THEN Head(s)[2] ELSE n - 1)
         /\ Head(s)[1] # "WAIT" => n > 0
<1> DEFINE t == Tail(s)
           m == IF s[1][1] = "WAIT" THEN s[1][2] ELSE n - 1
<1>1. /\ Len(s) \in Nat /\ Len(s) >= 1 /\ Len(t) = Len(s) - 1 /\ Head(s) = s[1]
      /\ \A p \in 1 .. Len(s) - 1 : t[p] = s[p + 1]
  BY TailAt
<1>2. s[1][1] = "WAIT" => s[1][2] \in Nat
  BY <1>1, SizesAssumption DEF Fits
<1> HIDE DEF t
<1>3. s[1][1] # "WAIT" => n > 0
  BY <1>1 DEF Paced
<1>4. Paced(t, m)
  <2> SUFFICES ASSUME NEW p \in 1 .. Len(t), t[p][1] # "WAIT"
               PROVE \/ p <= m /\ \A q \in 1 .. p : t[q][1] # "WAIT"
                     \/ \E q \in 1 .. p - 1 :
                          /\ t[q][1] = "WAIT" /\ p - q <= t[q][2]
                          /\ \A j \in q + 1 .. p : t[j][1] # "WAIT"
    BY DEF Paced
  <2>1. p + 1 \in 1 .. Len(s) /\ s[p + 1][1] # "WAIT"
    BY <1>1
  <2>2. CASE p + 1 <= n /\ \A q \in 1 .. p + 1 : s[q][1] # "WAIT"
    <3>1. s[1][1] # "WAIT" /\ p <= m
      BY <1>1, <2>1, <2>2
    <3>2. \A q \in 1 .. p : t[q][1] # "WAIT"
      BY <1>1, <2>1, <2>2
    <3> QED BY <3>1, <3>2
  <2>3. CASE \E q \in 1 .. p : /\ s[q][1] = "WAIT" /\ (p + 1) - q <= s[q][2]
                               /\ \A j \in q + 1 .. p + 1 : s[j][1] # "WAIT"
    <3>1. PICK q \in 1 .. p : /\ s[q][1] = "WAIT" /\ (p + 1) - q <= s[q][2]
                              /\ \A j \in q + 1 .. p + 1 : s[j][1] # "WAIT"
      BY <2>3
    <3>2. ASSUME NEW j \in q .. p PROVE t[j][1] # "WAIT"
      <4>1. j + 1 \in q + 1 .. p + 1 /\ t[j] = s[j + 1]
        BY <1>1, <2>1
      <4> QED BY <3>1, <4>1
    <3>3. CASE q = 1
      BY <3>1, <3>2, <3>3
    <3>4. CASE q > 1
      <4>1. /\ q - 1 \in 1 .. p - 1 /\ q - 1 \in 1 .. Len(s) - 1
            /\ p - (q - 1) = (p + 1) - q /\ (q - 1) + 1 = q
        BY <1>1, <2>1, <3>4
      <4>2. t[q - 1] = s[q]
        BY <1>1, <4>1
      <4> QED BY <3>1, <3>2, <4>1, <4>2
    <3> QED BY <3>3, <3>4
  <2>4. (p + 1) - 1 = p
    OBVIOUS
  <2> QED BY <2>1, <2>2, <2>3, <2>4 DEF Paced
<1> QED BY <1>1, <1>3, <1>4 DEF t

LEMMA DirectedTail ==
  ASSUME NEW s \in Lists, s # <<>>, NEW i, NEW c, Fits(s, i), Directed(s, i, c)
  PROVE  /\ Fits(Tail(s), i)
         /\ Directed(Tail(s), i, IF Head(s)[1] = "CURRENT" THEN Head(s)[2] ELSE c)
         /\ Head(s)[1] \notin {"WAIT", "CURRENT"} => c = i
         /\ Head(s)[1] = "CURRENT" => Head(s)[2] = i
         /\ Head(s)[1] = "WAIT" => Head(s)[2] \in 0 .. FifoSize
         /\ Head(s)[1] = "LOCK" => Head(s)[2] \in BOOLEAN
<1> DEFINE t == Tail(s)
<1>1. /\ Len(s) \in Nat /\ Len(s) >= 1 /\ Len(t) = Len(s) - 1 /\ Head(s) = s[1]
      /\ \A p \in 1 .. Len(s) - 1 : t[p] = s[p + 1]
  BY TailAt
<1> HIDE DEF t
<1>2. Fits(t, i)
  <2> SUFFICES ASSUME NEW p \in 1 .. Len(t)
               PROVE  /\ t[p][1] = "WAIT" => t[p][2] \in 0 .. FifoSize
                      /\ t[p][1] = "CURRENT" => t[p][2] = i
                      /\ t[p][1] = "LOCK" => t[p][2] \in BOOLEAN
    BY DEF Fits
  <2>1. p + 1 \in 1 .. Len(s) /\ t[p] = s[p + 1]
    BY <1>1
  <2> QED BY <2>1 DEF Fits
<1>3. /\ s[1][1] = "CURRENT" => s[1][2] = i
      /\ s[1][1] = "WAIT" => s[1][2] \in 0 .. FifoSize
      /\ s[1][1] = "LOCK" => s[1][2] \in BOOLEAN
  BY <1>1 DEF Fits
<1>4. CASE c = i
  BY <1>1, <1>2, <1>3, <1>4 DEF Directed, t
<1>5. CASE s[1] = <<"CURRENT", i>>
  BY <1>1, <1>2, <1>3, <1>5 DEF Directed, t
<1>6. CASE Len(s) >= 2 /\ s[1][1] = "WAIT" /\ s[2] = <<"CURRENT", i>>
  <2>1. Len(t) >= 1 /\ t[1] = <<"CURRENT", i>>
    BY <1>1, <1>6
  <2> QED BY <1>1, <1>2, <1>3, <1>6, <2>1 DEF Directed, t
<1> QED BY <1>4, <1>5, <1>6 DEF Directed
-----------------------------------------------------------------------------
(* The parts calls are made of. *)

LEMMA WordNames ==
  /\ Len(FlushOrder) = 15 /\ FlushOrder \in Seq(Words)
  /\ Words = {"CFG_FMT", "CFG_MISC", "CFG_ENV0", "CFG_ENVA", "CFG_ENV1", "CFG_ENVF",
              "LFO_ENV", "TAR_FCA", "TAR_FCB", "CFG_VBIN", "TAR_VOLA", "TAR_VOLB",
              "TAR_VOLC", "TAR_PITCH", "TAR_HRTF"}
  /\ \A r \in Words : \E k \in 1 .. 15 : FlushOrder[k] = r
  /\ \A k \in 1 .. 15 : FlushOrder[k] \in Words
  /\ \A j, k \in 1 .. 15 : FlushOrder[j] = FlushOrder[k] => j = k
<1>1. Len(FlushOrder) = 15 /\ DOMAIN FlushOrder = 1 .. 15
  BY DEF FlushOrder
<1>2. \A r \in Words : \E k \in 1 .. 15 : FlushOrder[k] = r
  BY <1>1 DEF Words
<1>3. \A k \in 1 .. 15 : FlushOrder[k] \in Words
  BY <1>1 DEF Words
<1>4. FlushOrder \in Seq(Words)
  <2>1. \A k \in 1 .. 15 : FlushOrder[k] \in Words
    BY <1>3
  <2> HIDE DEF Words
  <2> QED BY <2>1 DEF FlushOrder
<1>5. \A j, k \in 1 .. 15 : FlushOrder[j] = FlushOrder[k] => j = k
  BY DEF FlushOrder
<1>6. \A k \in 1 .. 15 : FlushOrder[k] \in
        {"CFG_FMT", "CFG_MISC", "CFG_ENV0", "CFG_ENVA", "CFG_ENV1", "CFG_ENVF",
         "LFO_ENV", "TAR_FCA", "TAR_FCB", "CFG_VBIN", "TAR_VOLA", "TAR_VOLB",
         "TAR_VOLC", "TAR_PITCH", "TAR_HRTF"}
  BY DEF FlushOrder
<1>7. /\ FlushOrder[1] = "CFG_FMT" /\ FlushOrder[2] = "CFG_MISC"
      /\ FlushOrder[3] = "CFG_ENV0" /\ FlushOrder[4] = "CFG_ENVA"
      /\ FlushOrder[5] = "CFG_ENV1" /\ FlushOrder[6] = "CFG_ENVF"
      /\ FlushOrder[7] = "LFO_ENV" /\ FlushOrder[8] = "TAR_FCA"
      /\ FlushOrder[9] = "TAR_FCB" /\ FlushOrder[10] = "CFG_VBIN"
      /\ FlushOrder[11] = "TAR_VOLA" /\ FlushOrder[12] = "TAR_VOLB"
      /\ FlushOrder[13] = "TAR_VOLC" /\ FlushOrder[14] = "TAR_PITCH"
      /\ FlushOrder[15] = "TAR_HRTF"
  BY DEF FlushOrder
<1>8. Words = {"CFG_FMT", "CFG_MISC", "CFG_ENV0", "CFG_ENVA", "CFG_ENV1", "CFG_ENVF",
               "LFO_ENV", "TAR_FCA", "TAR_FCB", "CFG_VBIN", "TAR_VOLA", "TAR_VOLB",
               "TAR_VOLC", "TAR_PITCH", "TAR_HRTF"}
  <2>1. \A r : r \in Words <=> \E k \in 1 .. 15 : r = FlushOrder[k]
    BY <1>1 DEF Words
  <2> HIDE DEF Words
  <2> QED BY <2>1, <1>6, <1>7
<1> QED BY <1>1, <1>2, <1>3, <1>4, <1>5, <1>8

\* One part, with one wait that counts every write after it.
LEMMA PieceOf ==
  ASSUME NEW s \in Lists, NEW i, NEW n \in 0 .. FifoSize, Len(s) >= 2, Len(s) <= n + 1,
         s[1] = Wait(n),
         \A p \in 2 .. Len(s) : /\ s[p][1] # "WAIT"
                                /\ s[p][1] = "CURRENT" => s[p][2] = i
                                /\ s[p][1] = "LOCK" => s[p][2] \in BOOLEAN
  PROVE  Piece(s, i)
<1>1. Len(s) \in Nat /\ s[1][1] = "WAIT" /\ s[1][2] = n /\ n \in Nat
  BY SizesAssumption DEF Lists, Wait
<1>2. \A p \in 1 .. Len(s) : p = 1 \/ p \in 2 .. Len(s)
  BY <1>1
<1>3. Fits(s, i)
  BY <1>1, <1>2 DEF Fits
<1>4. Paced(s, 0)
  <2> SUFFICES ASSUME NEW p \in 1 .. Len(s), s[p][1] # "WAIT"
               PROVE \E q \in 1 .. p - 1 :
                       /\ s[q][1] = "WAIT" /\ p - q <= s[q][2]
                       /\ \A j \in q + 1 .. p : s[j][1] # "WAIT"
    BY DEF Paced
  <2>1. p > 1 /\ 1 \in 1 .. p - 1 /\ p - 1 <= s[1][2]
    BY <1>1
  <2>2. \A j \in 1 + 1 .. p : s[j][1] # "WAIT"
    BY <1>1
  <2> QED BY <1>1, <2>1, <2>2
<1> QED BY <1>1, <1>3, <1>4 DEF Piece

\* A list of one, two, three writes.
LEMMA ItemsOf ==
  /\ \A n \in Nat : Wait(n) \in Items
  /\ \A b \in BOOLEAN : <<"LOCK", b>> \in Items
  /\ \A r \in Words : \A x \in Values(r) : <<r, x>> \in Items
  /\ \A v \in Voices, b \in BOOLEAN : <<"DATA", <<v, b>>>> \in Items
  /\ \A name \in Others, i \in HwVoices : <<name, i>> \in Items
  /\ \A name \in Others : <<name, Zero>> \in Items
<1>1. \A r \in Words : \A x \in Values(r) : x \in Contents
  <2> SUFFICES ASSUME NEW r \in Words, NEW x \in Values(r) PROVE x \in Contents
    OBVIOUS
  <2> QED BY Zenon DEF Contents
<1>2. \A name \in Words \cup Others, x \in Payload : <<name, x>> \in Items
  BY DEF Items
<1>3. /\ \A x \in Nat : x \in Payload
      /\ \A x \in BOOLEAN : x \in Payload
      /\ \A x \in HwVoices : x \in Payload
      /\ \A x \in Contents : x \in Payload
      /\ \A x \in Buffers : x \in Payload
  BY DEF Payload
<1>4. {"WAIT", "LOCK", "DATA"} \subseteq Others
  BY DEF Others
<1> HIDE DEF Payload
<1>5. \A n \in Nat : Wait(n) \in Items
  BY <1>2, <1>3, <1>4 DEF Wait
<1>6. \A b \in BOOLEAN : <<"LOCK", b>> \in Items
  BY <1>2, <1>3, <1>4
<1>7. \A r \in Words : \A x \in Values(r) : <<r, x>> \in Items
  BY <1>1, <1>2, <1>3
<1>8. \A v \in Voices, b \in BOOLEAN : <<"DATA", <<v, b>>>> \in Items
  <2> SUFFICES ASSUME NEW v \in Voices, NEW b \in BOOLEAN
               PROVE  <<"DATA", <<v, b>>>> \in Items
    OBVIOUS
  <2>1. <<v, b>> \in Buffers
    BY DEF Buffers
  <2> QED BY <1>2, <1>3, <1>4, <2>1
<1>9. /\ \A name \in Others, i \in HwVoices : <<name, i>> \in Items
      /\ \A name \in Others : <<name, Zero>> \in Items
  BY <1>2, <1>3 DEF Zero
<1> QED BY <1>5, <1>6, <1>7, <1>8, <1>9

LEMMA WordsOfFacts ==
  ASSUME NEW rs \in Seq(Words), NEW w, WordFile(w),
         \A j, k \in 1 .. Len(rs) : rs[j] = rs[k] => j = k
  PROVE  /\ WordsOf(rs, w) \in Lists /\ Len(WordsOf(rs, w)) = Len(rs)
         /\ \A p \in 1 .. Len(rs) : WordsOf(rs, w)[p] = <<rs[p], w[rs[p]]>>
         /\ \A r, old : Final(WordsOf(rs, w), r,
                              IF \E k \in 1 .. Len(rs) : rs[k] = r THEN w[r] ELSE old, old)
<1> DEFINE s == WordsOf(rs, w)
<1>1. Len(rs) \in Nat /\ DOMAIN rs = 1 .. Len(rs) /\ \A k \in 1 .. Len(rs) : rs[k] \in Words
  OBVIOUS
<1>2. s = [k \in 1 .. Len(rs) |-> <<rs[k], w[rs[k]]>>]
  BY <1>1 DEF WordsOf
<1>3. \A k \in 1 .. Len(rs) : <<rs[k], w[rs[k]]>> \in Items
  BY <1>1, ItemsOf DEF WordFile
<1> HIDE DEF s
<1>4. s \in Lists /\ Len(s) = Len(rs)
  BY <1>1, <1>2, <1>3 DEF Lists
<1>5. \A p \in 1 .. Len(rs) : s[p] = <<rs[p], w[rs[p]]>>
  BY <1>2
<1>6. ASSUME NEW r, NEW old
      PROVE  Final(s, r, IF \E k \in 1 .. Len(rs) : rs[k] = r THEN w[r] ELSE old, old)
  <2>1. CASE \E k \in 1 .. Len(rs) : rs[k] = r
    <3>1. PICK k \in 1 .. Len(rs) : rs[k] = r
      BY <2>1
    <3>2. s[k] = <<r, w[r]>> /\ k \in 1 .. Len(s)
      BY <1>4, <1>5, <3>1
    <3>3. ASSUME NEW q \in k + 1 .. Len(s) PROVE s[q][1] # r
      <4>1. q \in 1 .. Len(rs) /\ q # k
        BY <1>1, <1>4
      <4> QED BY <1>5, <3>1, <4>1
    <3>4. Last(s, r, w[r])
      BY <3>2, <3>3 DEF Last
    <3> QED BY <2>1, <3>4 DEF Final
  <2>2. CASE ~\E k \in 1 .. Len(rs) : rs[k] = r
    <3>1. Absent(s, r)
      BY <1>4, <1>5, <2>2 DEF Absent
    <3> QED BY <2>2, <3>1 DEF Final
  <2> QED BY <2>1, <2>2
<1> QED BY <1>4, <1>5, <1>6 DEF s
LEMMA ShortLists ==
  /\ \A x \in Items : <<x>> \in Lists /\ Len(<<x>>) = 1 /\ <<x>>[1] = x
  /\ \A x, y \in Items : /\ <<x, y>> \in Lists /\ Len(<<x, y>>) = 2
                          /\ <<x, y>>[1] = x /\ <<x, y>>[2] = y
  /\ \A x, y, z \in Items :
       /\ <<x, y, z>> \in Lists /\ Len(<<x, y, z>>) = 3
       /\ <<x, y, z>>[1] = x /\ <<x, y, z>>[2] = y /\ <<x, y, z>>[3] = z
  /\ \A x, y, z, t \in Items :
       /\ <<x, y, z, t>> \in Lists /\ Len(<<x, y, z, t>>) = 4
       /\ <<x, y, z, t>>[1] = x /\ <<x, y, z, t>>[2] = y
       /\ <<x, y, z, t>>[3] = z /\ <<x, y, z, t>>[4] = t
BY DEF Lists

\* A group under VOICE_LOCK after a wait.
Plain(ws) == ws \in Lists /\ \A p \in 1 .. Len(ws) : ws[p][1] \notin {"WAIT", "CURRENT", "LOCK"}
Group(n, i, ws) == <<Wait(n)>> \o LockedGroup(i, ws)

LEMMA GroupAt ==
  ASSUME NEW n \in 0 .. FifoSize, NEW i \in HwVoices, NEW ws \in Lists
  PROVE  LET g == Group(n, i, ws)
         IN /\ g \in Lists /\ Len(ws) \in Nat /\ Len(g) = Len(ws) + 4
            /\ g[1] = Wait(n) /\ g[2] = <<"CURRENT", i>> /\ g[3] = <<"LOCK", TRUE>>
            /\ \A p \in 1 .. Len(ws) : g[p + 3] = ws[p]
            /\ g[Len(ws) + 4] = <<"LOCK", FALSE>>
            /\ Tail(Bracket(i, ws)) = LockedGroup(i, ws)
<1> DEFINE w == <<Wait(n)>>
           a == <<<<"CURRENT", i>>, <<"LOCK", TRUE>>>>
           u == <<<<"LOCK", FALSE>>>>
           l == a \o ws \o u
<1>1. /\ Wait(n) \in Items /\ <<"CURRENT", i>> \in Items
      /\ <<"LOCK", TRUE>> \in Items /\ <<"LOCK", FALSE>> \in Items
      /\ Wait(Len(ws) + 3) \in Items
  <2>1. "CURRENT" \in Others /\ n \in Nat /\ Len(ws) + 3 \in Nat
    BY SizesAssumption DEF Others, Lists
  <2> QED BY <2>1, ItemsOf
<1>2. /\ w \in Lists /\ Len(w) = 1 /\ w[1] = Wait(n)
      /\ a \in Lists /\ Len(a) = 2 /\ a[1] = <<"CURRENT", i>> /\ a[2] = <<"LOCK", TRUE>>
      /\ u \in Lists /\ Len(u) = 1 /\ u[1] = <<"LOCK", FALSE>>
  BY <1>1, ShortLists
<1> HIDE DEF w, a, u
<1> DEFINE m == a \o ws
<1>3. /\ m \in Lists /\ Len(ws) \in Nat /\ Len(m) = Len(ws) + 2
      /\ m[1] = a[1] /\ m[2] = a[2]
      /\ \A p \in 1 .. Len(ws) : m[2 + p] = ws[p]
  <2>1. /\ m \in Lists /\ Len(ws) \in Nat /\ Len(m) = Len(a) + Len(ws)
        /\ \A p \in 1 .. Len(a) : m[p] = a[p]
        /\ \A p \in 1 .. Len(ws) : m[Len(a) + p] = ws[p]
    BY <1>2, ConcatAt
  <2> HIDE DEF m
  <2>2. /\ Len(a) = 2 /\ 1 \in 1 .. Len(a) /\ 2 \in 1 .. Len(a)
    BY <1>2
  <2>3. Len(a) + Len(ws) = Len(ws) + 2 /\ m[1] = a[1] /\ m[2] = a[2]
    BY <2>1, <2>2
  <2> QED BY <2>1, <2>2, <2>3
<1>4. /\ l \in Lists /\ Len(l) = Len(ws) + 3
      /\ \A p \in 1 .. Len(ws) + 2 : l[p] = m[p]
      /\ l[Len(ws) + 3] = u[1]
  <2> DEFINE c == m \o u
  <2>1. /\ c \in Lists /\ Len(c) = Len(m) + Len(u)
        /\ \A p \in 1 .. Len(m) : c[p] = m[p]
        /\ \A p \in 1 .. Len(u) : c[Len(m) + p] = u[p]
    BY <1>2, <1>3, ConcatAt
  <2>2. c = l
    OBVIOUS
  <2> HIDE DEF c, l, m
  <2>3. Len(m) + 1 = Len(ws) + 3 /\ 1 \in 1 .. Len(u)
    BY <1>2, <1>3
  <2>4. c[Len(m) + 1] = u[1]
    BY <2>1, <2>3
  <2> QED BY <1>2, <1>3, <2>1, <2>2, <2>3, <2>4
<1> HIDE DEF l, m
<1>5. /\ l[1] = a[1] /\ l[2] = a[2]
      /\ \A p \in 1 .. Len(ws) : l[p + 2] = ws[p]
      /\ l[Len(ws) + 3] = u[1]
  <2>1. l[1] = m[1] /\ l[2] = m[2]
    BY <1>3, <1>4
  <2>2. ASSUME NEW p \in 1 .. Len(ws) PROVE l[p + 2] = ws[p]
    <3>1. p + 2 \in 1 .. Len(ws) + 2 /\ p + 2 = 2 + p
      BY <1>3
    <3>2. l[p + 2] = m[p + 2] /\ m[2 + p] = ws[p]
      BY <1>3, <1>4, <3>1
    <3> QED BY <3>1, <3>2
  <2> QED BY <1>3, <1>4, <2>1, <2>2
<1> DEFINE g == w \o l
<1>6. /\ g \in Lists /\ Len(g) = Len(ws) + 4 /\ g[1] = Wait(n)
      /\ \A p \in 1 .. Len(ws) + 3 : g[1 + p] = l[p]
  <2>1. /\ g \in Lists /\ Len(g) = Len(w) + Len(l)
        /\ \A p \in 1 .. Len(w) : g[p] = w[p]
        /\ \A p \in 1 .. Len(l) : g[Len(w) + p] = l[p]
    BY <1>2, <1>4, ConcatAt
  <2> HIDE DEF g
  <2> QED BY <1>2, <1>3, <1>4, <2>1
<1> HIDE DEF g
<1>7. /\ g[2] = a[1] /\ g[3] = a[2]
      /\ \A p \in 1 .. Len(ws) : g[p + 3] = ws[p]
      /\ g[Len(ws) + 4] = u[1]
  <2>1. g[1 + 1] = l[1] /\ g[1 + 2] = l[2]
    BY <1>3, <1>6
  <2>2. g[1 + (Len(ws) + 3)] = l[Len(ws) + 3] /\ 1 + (Len(ws) + 3) = Len(ws) + 4
    BY <1>3, <1>6
  <2>3. ASSUME NEW p \in 1 .. Len(ws) PROVE g[p + 3] = ws[p]
    <3>1. p + 2 \in 1 .. Len(ws) + 3 /\ 1 + (p + 2) = p + 3
      BY <1>3
    <3>2. g[1 + (p + 2)] = l[p + 2]
      BY <1>6, <3>1
    <3> QED BY <1>5, <3>1, <3>2
  <2> QED BY <1>5, <2>1, <2>2, <2>3
<1>8. LockedGroup(i, ws) = l
  BY DEF LockedGroup, l, m, a, u
<1>9. Tail(Bracket(i, ws)) = l
  <2>1. Bracket(i, ws) = <<Wait(Len(ws) + 3)>> \o l
    BY <1>8 DEF Bracket
  <2> QED BY <2>1, <1>1, <1>4 DEF Lists
<1>10. Group(n, i, ws) = g
  BY <1>8 DEF Group, g, w
<1> QED BY <1>2, <1>3, <1>6, <1>7, <1>8, <1>9, <1>10

LEMMA GroupFacts ==
  ASSUME NEW n \in 0 .. FifoSize, NEW i \in HwVoices, NEW ws, Plain(ws), Len(ws) + 3 <= n
  PROVE  /\ Opening(Group(n, i, ws), i)
         /\ \A old : Final(Group(n, i, ws), "LOCK", FALSE, old)
         /\ \A r, x, old : r \notin {"WAIT", "CURRENT", "LOCK"} /\ Final(ws, r, x, old) =>
              Final(Group(n, i, ws), r, x, old)
<1> DEFINE g == Group(n, i, ws)
<1>1. /\ g \in Lists /\ Len(ws) \in Nat /\ Len(g) = Len(ws) + 4
      /\ g[1] = Wait(n) /\ g[2] = <<"CURRENT", i>> /\ g[3] = <<"LOCK", TRUE>>
      /\ \A p \in 1 .. Len(ws) : g[p + 3] = ws[p]
      /\ g[Len(ws) + 4] = <<"LOCK", FALSE>>
  BY GroupAt DEF Plain
<1> HIDE DEF g
<1>2. n \in Nat
  BY SizesAssumption
<1>3. \A p \in 1 .. Len(g) : p \in {1, 2, 3} \/ p = Len(ws) + 4 \/
        (p - 3 \in 1 .. Len(ws) /\ g[p] = ws[p - 3])
  <2> TAKE p \in 1 .. Len(g)
  <2>1. CASE p > 3 /\ p < Len(ws) + 4
    <3>1. p - 3 \in 1 .. Len(ws) /\ (p - 3) + 3 = p
      BY <1>1, <2>1
    <3> QED BY <1>1, <3>1
  <2> QED BY <1>1, <2>1
<1>4. Piece(g, i)
  <2>1. ASSUME NEW p \in 2 .. Len(g)
        PROVE  /\ g[p][1] # "WAIT"
               /\ g[p][1] = "CURRENT" => g[p][2] = i
               /\ g[p][1] = "LOCK" => g[p][2] \in BOOLEAN
    <3>1. p \in 1 .. Len(g) /\ p # 1
      BY <1>1
    <3>2. CASE p - 3 \in 1 .. Len(ws) /\ g[p] = ws[p - 3]
      BY <3>2 DEF Plain
    <3>6. \A x : x \in {<<"LOCK", TRUE>>, <<"LOCK", FALSE>>} =>
            x[1] # "WAIT" /\ x[1] # "CURRENT" /\ x[2] \in BOOLEAN
      <4> SUFFICES ASSUME NEW b \in BOOLEAN, NEW x, x = <<"LOCK", b>>
                   PROVE  x[1] # "WAIT" /\ x[1] # "CURRENT" /\ x[2] \in BOOLEAN
        OBVIOUS
      <4>1. x[1] = "LOCK" /\ x[2] = b
        OBVIOUS
      <4> QED BY <4>1
    <3>3. CASE p = 2
      BY <1>1, <3>3
    <3>4. CASE p = 3
      BY <1>1, <3>4, <3>6
    <3>5. CASE p = Len(ws) + 4
      BY <1>1, <3>5, <3>6
    <3> QED BY <1>3, <3>1, <3>2, <3>3, <3>4, <3>5
  <2>2. Len(g) >= 2 /\ Len(g) <= n + 1
    BY <1>1, <1>2
  <2> QED BY <1>1, <2>1, <2>2, PieceOf
<1>5. ASSUME NEW old PROVE Final(g, "LOCK", FALSE, old)
  <2>1. \A q \in (Len(ws) + 4) + 1 .. Len(g) : g[q][1] # "LOCK"
    BY <1>1
  <2>2. Len(ws) + 4 \in 1 .. Len(g)
    BY <1>1
  <2> QED BY <1>1, <2>1, <2>2 DEF Final, Last
<1>6. ASSUME NEW r, NEW x, NEW old, r \notin {"WAIT", "CURRENT", "LOCK"},
             Final(ws, r, x, old)
      PROVE  Final(g, r, x, old)
  <2>1. /\ g[1][1] # r /\ g[2][1] # r /\ g[3][1] # r /\ g[Len(ws) + 4][1] # r
    BY <1>1, <1>6 DEF Wait
  <2>2. CASE Last(ws, r, x)
    <3>1. PICK p \in 1 .. Len(ws) :
            ws[p] = <<r, x>> /\ \A q \in p + 1 .. Len(ws) : ws[q][1] # r
      BY <2>2 DEF Last
    <3>2. p + 3 \in 1 .. Len(g) /\ g[p + 3] = <<r, x>>
      BY <1>1, <3>1
    <3>3. ASSUME NEW q \in (p + 3) + 1 .. Len(g) PROVE g[q][1] # r
      <4>1. q \in 1 .. Len(g) /\ q - 3 >= p + 1 /\ q \notin {1, 2, 3}
        BY <1>1
      <4>2. CASE q - 3 \in 1 .. Len(ws) /\ g[q] = ws[q - 3]
        <5>1. q - 3 \in p + 1 .. Len(ws)
          BY <1>1, <4>1, <4>2
        <5> QED BY <3>1, <4>2, <5>1
      <4> QED BY <1>3, <2>1, <4>1, <4>2
    <3> QED BY <3>2, <3>3 DEF Final, Last
  <2>3. CASE Absent(ws, r) /\ x = old
    <3>1. ASSUME NEW q \in 1 .. Len(g) PROVE g[q][1] # r
      <4>1. CASE q - 3 \in 1 .. Len(ws) /\ g[q] = ws[q - 3]
        BY <2>3, <4>1 DEF Absent
      <4> QED BY <1>3, <2>1, <4>1
    <3> QED BY <2>3, <3>1 DEF Final, Absent
  <2> QED BY <1>6, <2>2, <2>3 DEF Final
<1> QED BY <1>1, <1>4, <1>5, <1>6 DEF Opening, g
\* s leaves the values of f in the registers f names; and opens on the voice at i.
Adds(s, i, f) ==
  /\ Piece(s, i)
  /\ \A r \in Registers : \A old :
       Final(s, r, IF r \in DOMAIN f THEN f[r] ELSE old, old)
  /\ \A old : \E x : Final(s, "LOCK", x, old)
Sets(s, i, f) == Opening(s, i) /\ Adds(s, i, f)
Unlocks(s) == \A old : Final(s, "LOCK", FALSE, old)
At(R, w)   == [r \in R |-> w[r]]
Over(f, g) == [r \in DOMAIN f \cup DOMAIN g |-> IF r \in DOMAIN g THEN g[r] ELSE f[r]]

LEMMA SetsConcat ==
  ASSUME NEW i, NEW a, NEW b, NEW f, NEW g, Adds(a, i, f), Adds(b, i, g)
  PROVE  /\ Adds(a \o b, i, Over(f, g))
         /\ Opening(a, i) => Sets(a \o b, i, Over(f, g))
         /\ Unlocks(b) => Unlocks(a \o b)
<1>1. Piece(a, i) /\ Piece(b, i) /\ a \in Lists /\ b \in Lists
  BY DEF Adds, Piece
<1>2. Piece(a \o b, i) /\ (Opening(a, i) => Opening(a \o b, i))
  BY <1>1, PieceConcat
<1>3. ASSUME NEW r \in Registers, NEW old
      PROVE  Final(a \o b, r, IF r \in DOMAIN Over(f, g) THEN Over(f, g)[r] ELSE old, old)
  <2> DEFINE x == IF r \in DOMAIN f THEN f[r] ELSE old
             y == IF r \in DOMAIN g THEN g[r] ELSE x
  <2>1. Final(a, r, x, old) /\ Final(b, r, y, x)
    BY DEF Adds
  <2>2. y = IF r \in DOMAIN Over(f, g) THEN Over(f, g)[r] ELSE old
    BY DEF Over
  <2> HIDE DEF x, y
  <2>3. Final(a \o b, r, y, old)
    BY <1>1, <2>1, FinalConcat
  <2> QED BY <2>2, <2>3
<1>4. ASSUME NEW old
      PROVE  \E x : /\ Final(a \o b, "LOCK", x, old)
                    /\ Unlocks(b) => Final(a \o b, "LOCK", FALSE, old)
  <2>1. PICK x : Final(a, "LOCK", x, old)
    BY DEF Adds
  <2>2. PICK y : Final(b, "LOCK", y, x)
    BY DEF Adds
  <2>3. Final(a \o b, "LOCK", y, old)
    BY <1>1, <2>1, <2>2, FinalConcat
  <2>4. Unlocks(b) => Final(a \o b, "LOCK", FALSE, old)
    BY <1>1, <2>1, FinalConcat DEF Unlocks
  <2> QED BY <2>3, <2>4
<1>5. \A old : \E x : Final(a \o b, "LOCK", x, old)
  BY <1>4
<1>6. Unlocks(b) => Unlocks(a \o b)
  BY <1>4 DEF Unlocks
<1> QED BY <1>2, <1>3, <1>5, <1>6 DEF Adds, Sets

\* A Bracket of the words rs of w, R their names.
LEMMA WordsPlain ==
  ASSUME NEW rs \in Seq(Words), NEW w, WordFile(w),
         \A j, k \in 1 .. Len(rs) : rs[j] = rs[k] => j = k
  PROVE  Plain(WordsOf(rs, w))
<1>1. /\ WordsOf(rs, w) \in Lists /\ Len(WordsOf(rs, w)) = Len(rs)
      /\ \A p \in 1 .. Len(rs) : WordsOf(rs, w)[p] = <<rs[p], w[rs[p]]>>
  BY WordsOfFacts
<1>2. \A r \in Words : r \notin {"WAIT", "CURRENT", "LOCK"}
  BY WordNames
<1>3. \A p \in 1 .. Len(rs) : rs[p] \in Words
  OBVIOUS
<1> QED BY <1>1, <1>2, <1>3 DEF Plain

LEMMA BracketSets ==
  ASSUME NEW i \in HwVoices, NEW rs \in Seq(Words), NEW w, WordFile(w), NEW R,
         \A j, k \in 1 .. Len(rs) : rs[j] = rs[k] => j = k,
         \A r : r \in R <=> \E k \in 1 .. Len(rs) : rs[k] = r,
         Len(rs) <= 15
  PROVE  /\ Sets(Bracket(i, WordsOf(rs, w)), i, At(R, w))
         /\ Unlocks(Bracket(i, WordsOf(rs, w)))
<1> DEFINE ws == WordsOf(rs, w)
           n  == Len(ws) + 3
<1>1. /\ ws \in Lists /\ Len(ws) = Len(rs)
      /\ \A r, old : Final(ws, r, IF \E k \in 1 .. Len(rs) : rs[k] = r
                                   THEN w[r] ELSE old, old)
  BY WordsOfFacts
<1>2. Plain(ws)
  BY WordsPlain
<1>3. n \in 0 .. FifoSize /\ Len(ws) + 3 <= n
  BY <1>1, SizesAssumption
<1>4. Bracket(i, ws) = Group(n, i, ws)
  BY DEF Bracket, Group
<1> HIDE DEF ws, n
<1>5. /\ Opening(Bracket(i, ws), i) /\ Unlocks(Bracket(i, ws))
      /\ \A r, x, old : r \notin {"WAIT", "CURRENT", "LOCK"} /\ Final(ws, r, x, old) =>
           Final(Bracket(i, ws), r, x, old)
  <2>1. /\ Opening(Group(n, i, ws), i)
        /\ \A old : Final(Group(n, i, ws), "LOCK", FALSE, old)
        /\ \A r, x, old : r \notin {"WAIT", "CURRENT", "LOCK"} /\ Final(ws, r, x, old) =>
             Final(Group(n, i, ws), r, x, old)
    BY <1>2, <1>3, GroupFacts
  <2>2. Opening(Bracket(i, ws), i)
    BY <1>4, <2>1
  <2>3. \A old : Final(Bracket(i, ws), "LOCK", FALSE, old)
    BY <1>4, <2>1
  <2>4. ASSUME NEW r, NEW x, NEW old, r \notin {"WAIT", "CURRENT", "LOCK"},
               Final(ws, r, x, old)
        PROVE  Final(Bracket(i, ws), r, x, old)
    BY <1>4, <2>1, <2>4
  <2> QED BY <2>2, <2>3, <2>4 DEF Unlocks
<1>6. \A r \in Registers : r \notin {"WAIT", "CURRENT", "LOCK"}
  BY WordNames DEF Registers
<1>7. ASSUME NEW r \in Registers, NEW old
      PROVE  Final(Bracket(i, ws), r, IF r \in DOMAIN At(R, w) THEN At(R, w)[r] ELSE old, old)
  <2>1. (IF \E k \in 1 .. Len(rs) : rs[k] = r THEN w[r] ELSE old)
        = IF r \in DOMAIN At(R, w) THEN At(R, w)[r] ELSE old
    BY DEF At
  <2> QED BY <1>1, <1>5, <1>6, <2>1
<1>8. \A old : \E x : Final(Bracket(i, ws), "LOCK", x, old)
  BY <1>5 DEF Unlocks
<1> QED BY <1>5, <1>7, <1>8 DEF Sets, Adds, Opening, ws
LEMMA FlushSets ==
  ASSUME NEW i \in HwVoices, NEW w, WordFile(w)
  PROVE  Sets(Flush(i, w), i, w)
<1> DEFINE a  == <<Wait(18), <<"CURRENT", i>>, <<"0x350", Zero>>, <<"0x370", Zero>>>>
           ws == WordsOf(FlushOrder, w)
           s  == a \o ws
<1>1. /\ ws \in Lists /\ Len(ws) = 15 /\ Plain(ws)
      /\ \A r, old : Final(ws, r, IF \E k \in 1 .. 15 : FlushOrder[k] = r
                                  THEN w[r] ELSE old, old)
  <2>1. /\ FlushOrder \in Seq(Words) /\ Len(FlushOrder) = 15
        /\ \A j, k \in 1 .. Len(FlushOrder) : FlushOrder[j] = FlushOrder[k] => j = k
    BY WordNames
  <2>2. /\ ws \in Lists /\ Len(ws) = Len(FlushOrder)
        /\ \A r, old : Final(ws, r, IF \E k \in 1 .. Len(FlushOrder) : FlushOrder[k] = r
                                    THEN w[r] ELSE old, old)
    BY <2>1, WordsOfFacts
  <2>3. Plain(ws)
    BY <2>1, WordsPlain
  <2> HIDE DEF ws
  <2> QED BY <2>1, <2>2, <2>3
<1>2. /\ Wait(18) \in Items /\ <<"CURRENT", i>> \in Items
      /\ <<"0x350", Zero>> \in Items /\ <<"0x370", Zero>> \in Items
  <2>1. {"CURRENT", "0x350", "0x370"} \subseteq Others /\ 18 \in Nat
    BY DEF Others
  <2> QED BY <2>1, ItemsOf
<1>3. /\ a \in Lists /\ Len(a) = 4 /\ a[1] = Wait(18) /\ a[2] = <<"CURRENT", i>>
      /\ a[3] = <<"0x350", Zero>> /\ a[4] = <<"0x370", Zero>>
  BY <1>2, ShortLists
<1> HIDE DEF a, ws
<1>4. /\ s \in Lists /\ Len(s) = 19
      /\ \A p \in 1 .. 4 : s[p] = a[p]
      /\ \A p \in 1 .. 15 : s[4 + p] = ws[p]
      /\ \A p \in 1 .. 19 : p \in 1 .. 4 \/ (p - 4 \in 1 .. 15 /\ s[p] = ws[p - 4])
  <2>1. /\ s \in Lists /\ Len(s) = Len(a) + Len(ws)
        /\ \A p \in 1 .. Len(a) : s[p] = a[p]
        /\ \A p \in 1 .. Len(ws) : s[Len(a) + p] = ws[p]
    BY <1>1, <1>3, ConcatAt
  <2>2. \A p \in 1 .. Len(s) : p \in 1 .. Len(a) \/
          (p > Len(a) /\ p - Len(a) \in 1 .. Len(ws) /\ s[p] = ws[p - Len(a)])
    BY <1>1, <1>3, ConcatPlaces
  <2> HIDE DEF s
  <2> QED BY <1>1, <1>3, <2>1, <2>2
<1> HIDE DEF s
<1>5. Piece(s, i)
  <2>1. ASSUME NEW p \in 2 .. Len(s)
        PROVE  /\ s[p][1] # "WAIT"
               /\ s[p][1] = "CURRENT" => s[p][2] = i
               /\ s[p][1] = "LOCK" => s[p][2] \in BOOLEAN
    <3>1. CASE p - 4 \in 1 .. 15 /\ s[p] = ws[p - 4]
      BY <1>1, <3>1 DEF Plain
    <3>2. CASE p \in 1 .. 4
      <4>1. p \in {2, 3, 4} /\ s[p] = a[p]
        BY <1>4, <3>2
      <4> QED BY <1>3, <4>1
    <3> QED BY <1>4, <3>1, <3>2
  <2>2. 18 \in 0 .. FifoSize /\ s[1] = Wait(18) /\ Len(s) >= 2 /\ Len(s) <= 18 + 1
    BY <1>3, <1>4, SizesAssumption
  <2> QED BY <1>4, <2>1, <2>2, PieceOf
<1>6. s[2] = <<"CURRENT", i>>
  BY <1>3, <1>4
<1>7. \A r \in Registers \cup {"LOCK"} : Absent(a, r)
  BY <1>3, WordNames DEF Registers, Absent, Wait
<1>8. ASSUME NEW r \in Registers \cup {"LOCK"}, NEW old
      PROVE  Final(s, r, IF r \in Words THEN w[r] ELSE old, old)
  <2>1. Final(a, r, old, old)
    BY <1>7 DEF Final
  <2>2. r \in Words <=> \E k \in 1 .. 15 : FlushOrder[k] = r
    <3>1. \A k \in 1 .. 15 : FlushOrder[k] \in Words
      BY WordNames
    <3>2. \A t \in Words : \E k \in 1 .. 15 : FlushOrder[k] = t
      BY WordNames
    <3> QED BY <3>1, <3>2
  <2>3. Final(ws, r, IF r \in Words THEN w[r] ELSE old, old)
    BY <1>1, <2>2
  <2> QED BY <1>1, <1>3, <2>1, <2>3, FinalConcat DEF s
<1>9. DOMAIN w = Words
  BY DEF WordFile
<1>10. s = Flush(i, w)
  BY DEF s, a, ws, Flush
<1>11. \A old : \E x : Final(s, "LOCK", x, old)
  BY <1>8
<1>12. Sets(s, i, w)
  BY <1>5, <1>6, <1>8, <1>9, <1>11 DEF Sets, Adds, Opening
<1> QED BY <1>10, <1>12

LEMMA LockValues ==
  \A x : x \in {<<"LOCK", TRUE>>, <<"LOCK", FALSE>>} => x[1] = "LOCK" /\ x[2] \in BOOLEAN
<1> SUFFICES ASSUME NEW b \in BOOLEAN, NEW x, x = <<"LOCK", b>>
             PROVE  x[1] = "LOCK" /\ x[2] \in BOOLEAN
  OBVIOUS
<1>1. x[1] = "LOCK" /\ x[2] = b
  OBVIOUS
<1> QED BY <1>1

\* The words of a change between two speakers and the HRTF.
DirtyWords == {"CFG_VBIN", "CFG_FMT", "TAR_VOLA", "TAR_VOLB", "TAR_VOLC"}
LEMMA TargetSets ==
  ASSUME NEW i \in HwVoices, NEW w, WordFile(w), NEW dirty \in BOOLEAN
  PROVE  /\ Sets(TargetWrites(i, w, dirty), i,
                 At(IF dirty THEN {"TAR_HRTF"} \cup DirtyWords ELSE {"TAR_HRTF"}, w))
         /\ Unlocks(TargetWrites(i, w, dirty))
<1> DEFINE a  == <<Wait(3), <<"CURRENT", i>>, <<"LOCK", TRUE>>, <<"TAR_HRTF", w["TAR_HRTF"]>>>>
           rs == <<"CFG_VBIN", "CFG_FMT", "TAR_VOLA", "TAR_VOLB", "TAR_VOLC">>
           ws == WordsOf(rs, w)
           b  == <<Wait(5)>> \o ws
           c  == <<Wait(1), <<"LOCK", FALSE>>>>
           R  == IF dirty THEN {"TAR_HRTF"} \cup DirtyWords ELSE {"TAR_HRTF"}
<1>1. /\ \A n \in {1, 3, 5} : Wait(n) \in Items /\ n \in 0 .. FifoSize
      /\ <<"CURRENT", i>> \in Items
      /\ <<"LOCK", TRUE>> \in Items /\ <<"LOCK", FALSE>> \in Items
      /\ <<"TAR_HRTF", w["TAR_HRTF"]>> \in Items
  <2>1. "CURRENT" \in Others /\ \A n \in {1, 3, 5} : n \in Nat /\ n \in 0 .. FifoSize
    BY SizesAssumption DEF Others
  <2>2. "TAR_HRTF" \in Words /\ w["TAR_HRTF"] \in Values("TAR_HRTF")
    BY WordNames DEF WordFile
  <2> QED BY <2>1, <2>2, ItemsOf
<1>2. /\ a \in Lists /\ Len(a) = 4 /\ a[1] = Wait(3) /\ a[2] = <<"CURRENT", i>>
      /\ a[3] = <<"LOCK", TRUE>> /\ a[4] = <<"TAR_HRTF", w["TAR_HRTF"]>>
      /\ c \in Lists /\ Len(c) = 2 /\ c[1] = Wait(1) /\ c[2] = <<"LOCK", FALSE>>
      /\ <<Wait(5)>> \in Lists /\ Len(<<Wait(5)>>) = 1 /\ <<Wait(5)>>[1] = Wait(5)
  BY <1>1, ShortLists
<1>3. /\ rs \in Seq(Words) /\ Len(rs) = 5
      /\ \A j, k \in 1 .. Len(rs) : rs[j] = rs[k] => j = k
      /\ \A r : r \in DirtyWords <=> \E k \in 1 .. Len(rs) : rs[k] = r
  BY WordNames DEF DirtyWords
<1>4. /\ ws \in Lists /\ Len(ws) = 5 /\ Plain(ws)
      /\ \A r, old : Final(ws, r, IF r \in DirtyWords THEN w[r] ELSE old, old)
  <2> HIDE DEF rs
  <2>1. /\ ws \in Lists /\ Len(ws) = Len(rs) /\ Plain(ws)
        /\ \A r, old : Final(ws, r, IF \E k \in 1 .. Len(rs) : rs[k] = r
                                    THEN w[r] ELSE old, old)
    BY <1>3, WordsOfFacts, WordsPlain
  <2> HIDE DEF ws
  <2> QED BY <1>3, <2>1
<1> HIDE DEF a, ws, c
<1>5. /\ b \in Lists /\ Len(b) = 6 /\ b[1] = Wait(5)
      /\ \A p \in 1 .. 5 : b[1 + p] = ws[p]
  <2> DEFINE d == <<Wait(5)>>
  <2>1. /\ b \in Lists /\ Len(b) = Len(d) + Len(ws)
        /\ \A p \in 1 .. Len(d) : b[p] = d[p]
        /\ \A p \in 1 .. Len(ws) : b[Len(d) + p] = ws[p]
    BY <1>2, <1>4, ConcatAt
  <2>2. Len(d) = 1 /\ d[1] = Wait(5)
    BY <1>2
  <2> HIDE DEF b, d
  <2> QED BY <1>4, <2>1, <2>2
<1>6. Piece(a, i) /\ Piece(b, i) /\ Piece(c, i)
  <2>1. Piece(a, i)
    <3>1. ASSUME NEW p \in 2 .. 4
          PROVE  /\ a[p][1] # "WAIT"
                 /\ a[p][1] = "CURRENT" => a[p][2] = i
                 /\ a[p][1] = "LOCK" => a[p][2] \in BOOLEAN
      <4>1. CASE p = 3
        BY <1>2, <4>1, LockValues
      <4>2. CASE p = 2 \/ p = 4
        BY <1>2, <4>2
      <4> QED BY <4>1, <4>2
    <3>2. 3 \in 0 .. FifoSize /\ Len(a) >= 2 /\ Len(a) <= 3 + 1 /\ Len(a) = 4
      BY <1>1, <1>2
    <3> QED BY <1>2, <3>1, <3>2, PieceOf
  <2>2. Piece(b, i)
    <3> HIDE DEF b
    <3>1. ASSUME NEW p \in 2 .. 6
          PROVE  /\ b[p][1] # "WAIT"
                 /\ b[p][1] = "CURRENT" => b[p][2] = i
                 /\ b[p][1] = "LOCK" => b[p][2] \in BOOLEAN
      <4>1. p - 1 \in 1 .. 5 /\ 1 + (p - 1) = p
        OBVIOUS
      <4>2. b[p] = ws[p - 1]
        BY <1>5, <4>1
      <4> QED BY <1>4, <4>1, <4>2 DEF Plain
    <3>2. 5 \in 0 .. FifoSize /\ Len(b) >= 2 /\ Len(b) <= 5 + 1 /\ Len(b) = 6
      BY <1>1, <1>5
    <3> QED BY <1>5, <3>1, <3>2, PieceOf
  <2>3. Piece(c, i)
    <3>1. ASSUME NEW p \in 2 .. 2
          PROVE  /\ c[p][1] # "WAIT"
                 /\ c[p][1] = "CURRENT" => c[p][2] = i
                 /\ c[p][1] = "LOCK" => c[p][2] \in BOOLEAN
      <4>1. p = 2
        OBVIOUS
      <4> QED BY <1>2, <4>1, LockValues
    <3>2. 1 \in 0 .. FifoSize /\ Len(c) >= 2 /\ Len(c) <= 1 + 1 /\ Len(c) = 2
      BY <1>1, <1>2
    <3> QED BY <1>2, <3>1, <3>2, PieceOf
  <2> QED BY <2>1, <2>2, <2>3
<1>7. /\ \A r \in Registers : \A old :
           Final(a, r, IF r = "TAR_HRTF" THEN w[r] ELSE old, old)
      /\ \A old : Final(a, "LOCK", TRUE, old)
  <2>1. ASSUME NEW r \in Registers, NEW old
        PROVE  Final(a, r, IF r = "TAR_HRTF" THEN w[r] ELSE old, old)
    <3>1. CASE r = "TAR_HRTF"
      <4>1. Last(a, r, w[r])
        BY <1>2, <3>1 DEF Last
      <4> QED BY <3>1, <4>1 DEF Final
    <3>2. CASE r # "TAR_HRTF"
      <4>1. r \notin {"WAIT", "CURRENT", "LOCK"}
        BY WordNames DEF Registers
      <4>2. Absent(a, r)
        BY <1>2, <3>2, <4>1 DEF Absent, Wait
      <4> QED BY <3>2, <4>2 DEF Final
    <3> QED BY <3>1, <3>2
  <2>2. Last(a, "LOCK", TRUE)
    <3>1. 3 \in 1 .. Len(a) /\ \A q \in 3 + 1 .. Len(a) : a[q][1] # "LOCK"
      BY <1>2
    <3> QED BY <1>2, <3>1 DEF Last
  <2> QED BY <2>1, <2>2 DEF Final
<1>8. \A r \in Registers : \A old : Final(b, r, IF r \in DirtyWords THEN w[r] ELSE old, old)
  <2> SUFFICES ASSUME NEW r \in Registers, NEW old
               PROVE  Final(b, r, IF r \in DirtyWords THEN w[r] ELSE old, old)
    OBVIOUS
  <2>1. r # "WAIT"
    BY WordNames DEF Registers
  <2>2. Final(<<Wait(5)>>, r, old, old)
    <3>1. Absent(<<Wait(5)>>, r)
      BY <1>2, <2>1 DEF Absent, Wait
    <3> QED BY <3>1 DEF Final
  <2> QED BY <1>2, <1>4, <2>2, FinalConcat
<1>9. Absent(b, "LOCK")
  <2> HIDE DEF b
  <2> SUFFICES ASSUME NEW p \in 1 .. 6 PROVE b[p][1] # "LOCK"
    BY <1>5 DEF Absent
  <2>1. CASE p = 1
    BY <1>5, <2>1 DEF Wait
  <2>2. CASE p > 1
    <3>1. p - 1 \in 1 .. 5 /\ 1 + (p - 1) = p
      BY <2>2
    <3>2. b[p] = ws[p - 1]
      BY <1>5, <3>1
    <3> QED BY <1>4, <3>1, <3>2 DEF Plain
  <2> QED BY <2>1, <2>2
<1>10. /\ \A r \in Registers : Absent(c, r)
       /\ \A old : Final(c, "LOCK", FALSE, old)
  <2>1. ASSUME NEW r \in Registers PROVE Absent(c, r)
    <3>1. r \notin {"WAIT", "CURRENT", "LOCK"}
      BY WordNames DEF Registers
    <3> QED BY <1>2, <3>1 DEF Absent, Wait
  <2>2. Last(c, "LOCK", FALSE)
    <3>1. 2 \in 1 .. Len(c) /\ \A q \in 2 + 1 .. Len(c) : c[q][1] # "LOCK"
      BY <1>2
    <3> QED BY <1>2, <3>1 DEF Last
  <2>3. \A old : Final(c, "LOCK", FALSE, old)
    BY <2>2 DEF Final
  <2> QED BY <2>1, <2>3
<1> HIDE DEF b
<1> DEFINE m == a \o (IF dirty THEN b ELSE <<>>)
<1>11. /\ Opening(m, i) /\ m \in Lists
       /\ \A r \in Registers : \A old : Final(m, r, IF r \in R THEN w[r] ELSE old, old)
       /\ \A old : Final(m, "LOCK", TRUE, old)
  <2>0. Opening(a, i)
    BY <1>2, <1>6 DEF Opening
  <2>1. CASE dirty
    <3>1. m = a \o b /\ R = {"TAR_HRTF"} \cup DirtyWords
      BY <2>1
    <3> HIDE DEF m, R
    <3>2. Opening(a \o b, i) /\ a \o b \in Lists
      BY <1>2, <1>5, <1>6, <2>0, PieceConcat, ConcatAt
    <3>3. ASSUME NEW r \in Registers, NEW old
          PROVE  Final(a \o b, r, IF r \in R THEN w[r] ELSE old, old)
      <4> DEFINE x == IF r = "TAR_HRTF" THEN w[r] ELSE old
                 y == IF r \in DirtyWords THEN w[r] ELSE x
      <4>1. Final(a, r, x, old) /\ Final(b, r, y, x)
        BY <1>7, <1>8
      <4>2. y = IF r \in R THEN w[r] ELSE old
        BY <3>1
      <4> HIDE DEF x, y
      <4>3. Final(a \o b, r, y, old)
        BY <1>2, <1>5, <4>1, FinalConcat
      <4> QED BY <4>2, <4>3
    <3>4. ASSUME NEW old PROVE Final(a \o b, "LOCK", TRUE, old)
      <4>1. Final(b, "LOCK", TRUE, TRUE) /\ Final(a, "LOCK", TRUE, old)
        BY <1>7, <1>9 DEF Final
      <4> QED BY <1>2, <1>5, <4>1, FinalConcat
    <3> QED BY <3>1, <3>2, <3>3, <3>4
  <2>2. CASE ~dirty
    <3>1. m = a /\ R = {"TAR_HRTF"}
      BY <1>2, <2>2 DEF Lists
    <3> HIDE DEF m, R
    <3>2. ASSUME NEW r \in Registers, NEW old
          PROVE  Final(a, r, IF r \in R THEN w[r] ELSE old, old)
      <4>1. r \in R <=> r = "TAR_HRTF"
        BY <3>1
      <4> QED BY <1>7, <4>1
    <3> QED BY <1>2, <1>7, <2>0, <3>1, <3>2
  <2> QED BY <2>1, <2>2
<1>12. TargetWrites(i, w, dirty) = m \o c
  BY DEF TargetWrites, a, b, c, ws
<1> HIDE DEF m
<1>13. Opening(m \o c, i)
  BY <1>6, <1>11, PieceConcat DEF Opening
<1>14. ASSUME NEW r \in Registers, NEW old
       PROVE  Final(m \o c, r, IF r \in R THEN w[r] ELSE old, old)
  <2> DEFINE x == IF r \in R THEN w[r] ELSE old
  <2>1. Final(m, r, x, old) /\ Final(c, r, x, x)
    BY <1>10, <1>11 DEF Final
  <2> HIDE DEF x
  <2>2. Final(m \o c, r, x, old)
    BY <1>2, <1>11, <2>1, FinalConcat
  <2> QED BY <2>2 DEF x
<1>15. ASSUME NEW old PROVE Final(m \o c, "LOCK", FALSE, old)
  BY <1>2, <1>10, <1>11, FinalConcat
<1>16. \A r : r \in DOMAIN At(R, w) <=> r \in R
  BY DEF At
<1>17. \A r \in R : At(R, w)[r] = w[r]
  BY DEF At
<1> HIDE DEF R
<1>18. ASSUME NEW r \in Registers, NEW old
       PROVE  Final(m \o c, r, IF r \in DOMAIN At(R, w) THEN At(R, w)[r] ELSE old, old)
  <2>1. (IF r \in R THEN w[r] ELSE old) = IF r \in DOMAIN At(R, w) THEN At(R, w)[r] ELSE old
    BY <1>16, <1>17
  <2> QED BY <1>14, <2>1
<1>19. Sets(m \o c, i, At(R, w)) /\ Unlocks(m \o c)
  BY <1>13, <1>15, <1>18 DEF Sets, Adds, Opening, Unlocks
<1> QED BY <1>12, <1>19 DEF R
\* A list that writes one register, and other things.
One(r, x) == [t \in {r} |-> x]
LEMMA OneWrite ==
  ASSUME NEW s \in Lists, NEW r, NEW x, NEW p \in 1 .. Len(s), s[p] = <<r, x>>,
         \A q \in 1 .. Len(s) : q # p => s[q][1] \notin Registers
  PROVE  \A t \in Registers : \A old :
           Final(s, t, IF t \in DOMAIN One(r, x) THEN One(r, x)[t] ELSE old, old)
<1> SUFFICES ASSUME NEW t \in Registers, NEW old
             PROVE  Final(s, t, IF t = r THEN x ELSE old, old)
  BY DEF One
<1>1. Len(s) \in Nat
  BY DEF Lists
<1>2. CASE t = r
  <2>1. \A q \in p + 1 .. Len(s) : s[q][1] # t
    BY <1>1
  <2>2. Last(s, t, x)
    BY <1>2, <2>1 DEF Last
  <2> QED BY <1>2, <2>2 DEF Final
<1>3. CASE t # r
  <2>1. s[p][1] # t
    BY <1>3
  <2>2. Absent(s, t)
    BY <2>1 DEF Absent
  <2> QED BY <1>3, <2>2 DEF Final
<1> QED BY <1>2, <1>3

LEMMA GroupSets ==
  ASSUME NEW n \in 0 .. FifoSize, NEW i \in HwVoices, NEW ws, Plain(ws), Len(ws) + 3 <= n,
         NEW f, \A r \in Registers : \A old :
                  Final(ws, r, IF r \in DOMAIN f THEN f[r] ELSE old, old)
  PROVE  Sets(Group(n, i, ws), i, f) /\ Unlocks(Group(n, i, ws))
<1>1. /\ Opening(Group(n, i, ws), i)
      /\ \A old : Final(Group(n, i, ws), "LOCK", FALSE, old)
      /\ \A r, x, old : r \notin {"WAIT", "CURRENT", "LOCK"} /\ Final(ws, r, x, old) =>
           Final(Group(n, i, ws), r, x, old)
  BY GroupFacts
<1>2. \A r \in Registers : r \notin {"WAIT", "CURRENT", "LOCK"}
  BY WordNames DEF Registers
<1>3. ASSUME NEW r \in Registers, NEW old
      PROVE  Final(Group(n, i, ws), r, IF r \in DOMAIN f THEN f[r] ELSE old, old)
  BY <1>1, <1>2
<1>4. \A old : Final(Group(n, i, ws), "LOCK", FALSE, old)
  BY <1>1
<1> HIDE DEF Group
<1> QED BY <1>1, <1>3, <1>4 DEF Sets, Adds, Unlocks, Opening

LEMMA PitchSets ==
  ASSUME NEW i \in HwVoices, NEW s, Pitch(s) \in Values("TAR_PITCH")
  PROVE  /\ Sets(PitchWrites(i, s), i, One("TAR_PITCH", Pitch(s)))
         /\ Unlocks(PitchWrites(i, s))
<1> DEFINE ws == <<<<"TAR_PITCH", Pitch(s)>>>>
<1>1. <<"TAR_PITCH", Pitch(s)>> \in Items
  BY WordNames, ItemsOf
<1>2. ws \in Lists /\ Len(ws) = 1 /\ ws[1] = <<"TAR_PITCH", Pitch(s)>>
  BY <1>1, ShortLists
<1>3. PitchWrites(i, s) = Group(Len(ws) + 3, i, ws)
  BY DEF PitchWrites, Bracket, Group
<1> HIDE DEF ws
<1>4. Plain(ws)
  BY <1>2 DEF Plain
<1>5. \A t \in Registers : \A old :
        Final(ws, t, IF t \in DOMAIN One("TAR_PITCH", Pitch(s))
                     THEN One("TAR_PITCH", Pitch(s))[t] ELSE old, old)
  <2>1. \A q \in 1 .. Len(ws) : q # 1 => ws[q][1] \notin Registers
    BY <1>2
  <2>2. 1 \in 1 .. Len(ws)
    BY <1>2
  <2> QED BY <1>2, <2>1, <2>2, OneWrite
<1>6. Len(ws) + 3 \in 0 .. FifoSize /\ Len(ws) + 3 <= Len(ws) + 3
  BY <1>2, SizesAssumption
<1>7. Sets(Group(Len(ws) + 3, i, ws), i, One("TAR_PITCH", Pitch(s)))
      /\ Unlocks(Group(Len(ws) + 3, i, ws))
  BY <1>4, <1>5, <1>6, GroupSets
<1> QED BY <1>3, <1>7

\* The word of the format alone, as nxAudioBufferQueue and the calls after it
\* write it: in a Bracket; with the start of the voice; before its end.
Fmt(w) == At({"CFG_FMT"}, w)
LEMMA FmtList ==
  ASSUME NEW w, WordFile(w)
  PROVE  LET ws == WordsOf(<<"CFG_FMT">>, w)
         IN ws \in Lists /\ Len(ws) = 1 /\ ws[1] = <<"CFG_FMT", w["CFG_FMT"]>> /\ Plain(ws)
<1>1. /\ <<"CFG_FMT">> \in Seq(Words) /\ Len(<<"CFG_FMT">>) = 1
      /\ \A j, k \in 1 .. Len(<<"CFG_FMT">>) :
           <<"CFG_FMT">>[j] = <<"CFG_FMT">>[k] => j = k
  BY WordNames
<1>2. Plain(WordsOf(<<"CFG_FMT">>, w))
  BY <1>1, WordsPlain
<1>3. /\ WordsOf(<<"CFG_FMT">>, w) \in Lists
      /\ Len(WordsOf(<<"CFG_FMT">>, w)) = Len(<<"CFG_FMT">>)
      /\ \A p \in 1 .. Len(<<"CFG_FMT">>) :
           WordsOf(<<"CFG_FMT">>, w)[p] = <<<<"CFG_FMT">>[p], w[<<"CFG_FMT">>[p]]>>
  BY <1>1, WordsOfFacts
<1>4. WordsOf(<<"CFG_FMT">>, w)[1] = <<"CFG_FMT", w["CFG_FMT"]>>
  BY <1>1, <1>3
<1> QED BY <1>1, <1>2, <1>3, <1>4

LEMMA FmtSets ==
  ASSUME NEW i \in HwVoices, NEW w, WordFile(w)
  PROVE  /\ Sets(Bracket(i, WordsOf(<<"CFG_FMT">>, w)), i, Fmt(w))
         /\ Unlocks(Bracket(i, WordsOf(<<"CFG_FMT">>, w)))
<1> DEFINE rs == <<"CFG_FMT">>
<1>1. /\ rs \in Seq(Words) /\ Len(rs) = 1
      /\ \A j, k \in 1 .. Len(rs) : rs[j] = rs[k] => j = k
      /\ \A r : r \in {"CFG_FMT"} <=> \E k \in 1 .. Len(rs) : rs[k] = r
  BY WordNames
<1> HIDE DEF rs
<1>2. /\ Sets(Bracket(i, WordsOf(rs, w)), i, At({"CFG_FMT"}, w))
      /\ Unlocks(Bracket(i, WordsOf(rs, w)))
  BY <1>1, BracketSets
<1> QED BY <1>2 DEF Fmt, rs
LEMMA OthersApart == \A r \in Others : r # "DATA" => r \notin Registers
BY WordNames DEF Others, Registers

LEMMA StartSets ==
  ASSUME NEW i \in HwVoices, NEW w, WordFile(w)
  PROVE  LET s == <<Wait(7)>> \o LockedGroup(i, WordsOf(<<"CFG_FMT">>, w)
                    \o <<<<"ANTECEDENT_VOICE", Zero>>, <<"VOICE_ON", i>>,
                         <<"VOICE_PAUSE", i>>>>)
         IN Sets(s, i, Fmt(w)) /\ Unlocks(s)
<1> DEFINE a  == WordsOf(<<"CFG_FMT">>, w)
           b  == <<<<"ANTECEDENT_VOICE", Zero>>, <<"VOICE_ON", i>>, <<"VOICE_PAUSE", i>>>>
           ws == a \o b
<1>1. a \in Lists /\ Len(a) = 1 /\ a[1] = <<"CFG_FMT", w["CFG_FMT"]>>
  BY FmtList
<1>2. /\ b \in Lists /\ Len(b) = 3 /\ b[1] = <<"ANTECEDENT_VOICE", Zero>>
      /\ b[2] = <<"VOICE_ON", i>> /\ b[3] = <<"VOICE_PAUSE", i>>
  <2>1. {"ANTECEDENT_VOICE", "VOICE_ON", "VOICE_PAUSE"} \subseteq Others
    BY DEF Others
  <2> QED BY <2>1, ItemsOf, ShortLists
<1> HIDE DEF a, b
<1>3. /\ ws \in Lists /\ Len(ws) = 4 /\ ws[1] = a[1]
      /\ ws[2] = b[1] /\ ws[3] = b[2] /\ ws[4] = b[3]
  <2>1. /\ ws \in Lists /\ Len(ws) = Len(a) + Len(b)
        /\ \A p \in 1 .. Len(a) : ws[p] = a[p]
        /\ \A p \in 1 .. Len(b) : ws[Len(a) + p] = b[p]
    BY <1>1, <1>2, ConcatAt
  <2> HIDE DEF ws
  <2>2. /\ \A p \in 1 .. 1 : ws[p] = a[p]
        /\ \A p \in 1 .. 3 : ws[1 + p] = b[p]
    BY <1>1, <1>2, <2>1
  <2> QED BY <1>1, <1>2, <2>1, <2>2
<1> HIDE DEF ws
<1>4. /\ "CFG_FMT" \notin {"WAIT", "CURRENT", "LOCK"} /\ "CFG_FMT" \in Registers
      /\ {"ANTECEDENT_VOICE", "VOICE_ON", "VOICE_PAUSE"} \cap Registers = {}
  BY WordNames DEF Registers
<1>5. Plain(ws)
  BY <1>1, <1>2, <1>3 DEF Plain
<1>6. \A t \in Registers : \A old :
        Final(ws, t, IF t \in DOMAIN One("CFG_FMT", w["CFG_FMT"])
                     THEN One("CFG_FMT", w["CFG_FMT"])[t] ELSE old, old)
  <2>1. \A q \in 1 .. Len(ws) : q # 1 => ws[q][1] \notin Registers
    BY <1>2, <1>3, <1>4
  <2>2. 1 \in 1 .. Len(ws) /\ ws[1] = <<"CFG_FMT", w["CFG_FMT"]>>
    BY <1>1, <1>3
  <2> QED BY <1>3, <2>1, <2>2, OneWrite
<1>7. One("CFG_FMT", w["CFG_FMT"]) = Fmt(w)
  BY DEF One, Fmt, At
<1>8. 7 \in 0 .. FifoSize /\ Len(ws) + 3 <= 7
  BY <1>3, SizesAssumption
<1>9. Sets(Group(7, i, ws), i, Fmt(w)) /\ Unlocks(Group(7, i, ws))
  <2>1. \A t \in Registers : \A old :
          Final(ws, t, IF t \in DOMAIN Fmt(w) THEN Fmt(w)[t] ELSE old, old)
    BY <1>6, <1>7
  <2> QED BY <1>5, <1>8, <2>1, GroupSets
<1> QED BY <1>9 DEF Group, ws, a, b

LEMMA StopSets ==
  ASSUME NEW i \in HwVoices, NEW w, WordFile(w), NEW name \in {"VOICE_RELEASE", "VOICE_OFF"}
  PROVE  LET s == <<Wait(5)>> \o Tail(Bracket(i, WordsOf(<<"CFG_FMT">>, w)))
                  \o <<<<name, i>>>>
         IN Sets(s, i, Fmt(w)) /\ Unlocks(s)
<1> DEFINE ws == WordsOf(<<"CFG_FMT">>, w)
           g  == Group(5, i, ws)
           b  == <<<<name, i>>>>
           s  == g \o b
<1>1. ws \in Lists /\ Len(ws) = 1 /\ ws[1] = <<"CFG_FMT", w["CFG_FMT"]>> /\ Plain(ws)
  BY FmtList
<1>2. 5 \in 0 .. FifoSize /\ Len(ws) + 3 <= 5
  <2> HIDE DEF ws
  <2> QED BY <1>1, SizesAssumption
<1>3. Sets(g, i, Fmt(w)) /\ Unlocks(g)
  <2> HIDE DEF ws
  <2>1. \A q \in 1 .. Len(ws) : q # 1 => ws[q][1] \notin Registers
    BY <1>1
  <2>2. 1 \in 1 .. Len(ws)
    BY <1>1
  <2>3. \A t \in Registers : \A old :
          Final(ws, t, IF t \in DOMAIN One("CFG_FMT", w["CFG_FMT"])
                       THEN One("CFG_FMT", w["CFG_FMT"])[t] ELSE old, old)
    BY <1>1, <2>1, <2>2, OneWrite
  <2>4. One("CFG_FMT", w["CFG_FMT"]) = Fmt(w)
    BY DEF One, Fmt, At
  <2>5. \A t \in Registers : \A old :
          Final(ws, t, IF t \in DOMAIN Fmt(w) THEN Fmt(w)[t] ELSE old, old)
    BY <2>3, <2>4
  <2> QED BY <1>1, <1>2, <2>5, GroupSets
<1>4. /\ g \in Lists /\ Len(g) = 5 /\ g[1] = Wait(5) /\ g[2] = <<"CURRENT", i>>
      /\ g[3] = <<"LOCK", TRUE>> /\ g[4] = ws[1] /\ g[5] = <<"LOCK", FALSE>>
      /\ Tail(Bracket(i, ws)) = LockedGroup(i, ws)
  <2> HIDE DEF ws
  <2>1. /\ g \in Lists /\ Len(ws) \in Nat /\ Len(g) = Len(ws) + 4
        /\ g[1] = Wait(5) /\ g[2] = <<"CURRENT", i>> /\ g[3] = <<"LOCK", TRUE>>
        /\ \A p \in 1 .. Len(ws) : g[p + 3] = ws[p]
        /\ g[Len(ws) + 4] = <<"LOCK", FALSE>>
        /\ Tail(Bracket(i, ws)) = LockedGroup(i, ws)
    BY <1>1, <1>2, GroupAt
  <2> HIDE DEF g
  <2>2. Len(ws) = 1 /\ 1 \in 1 .. Len(ws) /\ Len(ws) + 4 = 5
    BY <1>1
  <2>3. g[1 + 3] = ws[1]
    BY <2>1, <2>2
  <2>4. Len(g) = 5 /\ g[5] = <<"LOCK", FALSE>>
    BY <2>1, <2>2
  <2>5. g[4] = ws[1]
    BY <2>3
  <2> QED BY Zenon, <2>1, <2>4, <2>5
<1>5. <<name, i>> \in Items /\ b \in Lists /\ Len(b) = 1 /\ b[1] = <<name, i>>
  <2>1. name \in Others
    BY DEF Others
  <2>2. <<name, i>> \in Items
    BY <2>1, ItemsOf
  <2> QED BY <2>2, ShortLists
<1> HIDE DEF ws, g, b
<1>6. /\ s \in Lists /\ Len(s) = 6 /\ \A p \in 1 .. 5 : s[p] = g[p]
      /\ s[6] = <<name, i>>
  <2>1. /\ s \in Lists /\ Len(s) = Len(g) + Len(b)
        /\ \A p \in 1 .. Len(g) : s[p] = g[p]
        /\ \A p \in 1 .. Len(b) : s[Len(g) + p] = b[p]
    BY <1>4, <1>5, ConcatAt
  <2> HIDE DEF s
  <2>2. \A p \in 1 .. 1 : s[5 + p] = b[p]
    BY <1>4, <1>5, <2>1
  <2> QED BY <1>4, <1>5, <2>1, <2>2
<1> HIDE DEF s
<1>7. Piece(s, i)
  <2>1. ASSUME NEW p \in 2 .. 6
        PROVE  /\ s[p][1] # "WAIT"
               /\ s[p][1] = "CURRENT" => s[p][2] = i
               /\ s[p][1] = "LOCK" => s[p][2] \in BOOLEAN
    <3>1. CASE p = 3 \/ p = 5
      <4>1. p \in 1 .. 5
        BY <3>1
      <4>2. s[p] = g[p] /\ (g[p] = g[3] \/ g[p] = g[5])
        BY <1>6, <3>1, <4>1
      <4>3. s[p] = <<"LOCK", TRUE>> \/ s[p] = <<"LOCK", FALSE>>
        BY Zenon, <1>4, <4>2
      <4> QED BY <4>3, LockValues
    <3>2. CASE p = 2 \/ p = 4 \/ p = 6
      BY <1>1, <1>4, <1>6, <3>2
    <3> QED BY <3>1, <3>2
  <2>2. Len(s) >= 2 /\ Len(s) <= 5 + 1 /\ s[1] = Wait(5)
    BY <1>4, <1>6
  <2> QED BY <1>2, <1>6, <2>1, <2>2, PieceOf
<1>8. s[2] = <<"CURRENT", i>>
  BY <1>4, <1>6
<1>9. \A r \in Registers \cup {"LOCK"} : \A old : Final(b, r, old, old)
  <2>1. name \in Others /\ name # "DATA" /\ name # "LOCK"
    BY DEF Others
  <2> QED BY <1>5, <2>1, OthersApart DEF Final, Absent
<1>10. ASSUME NEW r \in Registers, NEW old
       PROVE  Final(s, r, IF r \in DOMAIN Fmt(w) THEN Fmt(w)[r] ELSE old, old)
  <2> DEFINE x == IF r \in DOMAIN Fmt(w) THEN Fmt(w)[r] ELSE old
  <2>1. Final(g, r, x, old) /\ Final(b, r, x, x)
    BY <1>3, <1>9 DEF Sets, Adds
  <2> HIDE DEF x
  <2>2. Final(s, r, x, old)
    BY <1>4, <1>5, <2>1, FinalConcat DEF s
  <2> QED BY <2>2 DEF x
<1>11. ASSUME NEW old PROVE Final(s, "LOCK", FALSE, old)
  <2>1. Final(g, "LOCK", FALSE, old) /\ Final(b, "LOCK", FALSE, FALSE)
    BY <1>3, <1>9 DEF Unlocks
  <2> QED BY <1>4, <1>5, <2>1, FinalConcat DEF s
<1>12. Sets(s, i, Fmt(w)) /\ Unlocks(s)
  BY <1>7, <1>8, <1>10, <1>11 DEF Sets, Adds, Unlocks, Opening
<1>13. <<Wait(5)>> \o Tail(Bracket(i, ws)) = g
  BY <1>4 DEF g, Group
<1> QED BY <1>12, <1>13 DEF s, b, ws
LEMMA QueueAdds ==
  ASSUME NEW i \in HwVoices, NEW v \in Voices
  PROVE  LET s == <<Wait(3), <<"CURRENT_SSL", Zero>>, <<"SEGMENT_OFFSET", Zero>>,
                    <<"SEGMENT_LENGTH", Zero>>, Wait(2), <<"CURRENT", i>>,
                    <<"DATA", <<v, TRUE>>>>>>
         IN Adds(s, i, One("DATA", <<v, TRUE>>)) /\ \A old : Final(s, "LOCK", old, old)
<1> DEFINE s == <<Wait(3), <<"CURRENT_SSL", Zero>>, <<"SEGMENT_OFFSET", Zero>>,
                  <<"SEGMENT_LENGTH", Zero>>, Wait(2), <<"CURRENT", i>>,
                  <<"DATA", <<v, TRUE>>>>>>
           d == <<"DATA", <<v, TRUE>>>>
<1>1. /\ Wait(3) \in Items /\ Wait(2) \in Items /\ <<"CURRENT", i>> \in Items
      /\ <<"CURRENT_SSL", Zero>> \in Items /\ <<"SEGMENT_OFFSET", Zero>> \in Items
      /\ <<"SEGMENT_LENGTH", Zero>> \in Items /\ d \in Items
  <2>1. /\ {"CURRENT", "CURRENT_SSL", "SEGMENT_OFFSET", "SEGMENT_LENGTH"} \subseteq Others
        /\ 2 \in Nat /\ 3 \in Nat
    BY DEF Others
  <2> QED BY <2>1, ItemsOf
<1>2. d[1] = "DATA" /\ d = <<"DATA", <<v, TRUE>>>>
  OBVIOUS
<1> HIDE DEF d
<1>3. /\ s \in Lists /\ Len(s) = 7 /\ s[1] = Wait(3) /\ s[2] = <<"CURRENT_SSL", Zero>>
      /\ s[3] = <<"SEGMENT_OFFSET", Zero>> /\ s[4] = <<"SEGMENT_LENGTH", Zero>>
      /\ s[5] = Wait(2) /\ s[6] = <<"CURRENT", i>> /\ s[7] = d
  <2>1. s = <<Wait(3), <<"CURRENT_SSL", Zero>>, <<"SEGMENT_OFFSET", Zero>>,
              <<"SEGMENT_LENGTH", Zero>>, Wait(2), <<"CURRENT", i>>, d>>
    BY <1>2
  <2> HIDE DEF s
  <2> QED BY <1>1, <2>1 DEF Lists
<1> HIDE DEF s
<1>4. /\ s[1][1] = "WAIT" /\ s[1][2] = 3 /\ s[2][1] = "CURRENT_SSL"
      /\ s[3][1] = "SEGMENT_OFFSET" /\ s[4][1] = "SEGMENT_LENGTH"
      /\ s[5][1] = "WAIT" /\ s[5][2] = 2 /\ s[6][1] = "CURRENT" /\ s[6][2] = i
      /\ s[7][1] = "DATA"
  BY <1>2, <1>3 DEF Wait
<1>5. Fits(s, i)
  <2> SUFFICES ASSUME NEW p \in 1 .. 7
               PROVE  /\ s[p][1] = "WAIT" => s[p][2] \in 0 .. FifoSize
                      /\ s[p][1] = "CURRENT" => s[p][2] = i
                      /\ s[p][1] # "LOCK"
    BY <1>3 DEF Fits
  <2>1. p \in {1, 2, 3, 4, 5, 6, 7}
    OBVIOUS
  <2>2. 2 \in 0 .. FifoSize /\ 3 \in 0 .. FifoSize
    BY SizesAssumption
  <2> QED BY <1>4, <2>1, <2>2
<1>6. Paced(s, 0)
  <2> SUFFICES ASSUME NEW p \in 1 .. 7, s[p][1] # "WAIT"
               PROVE \E q \in 1 .. p - 1 :
                       /\ s[q][1] = "WAIT" /\ p - q <= s[q][2]
                       /\ \A j \in q + 1 .. p : s[j][1] # "WAIT"
    BY <1>3 DEF Paced
  <2>1. CASE p \in 2 .. 4
    <3>1. \A j \in 1 + 1 .. p : j \in {2, 3, 4}
      BY <2>1
    <3>2. 1 \in 1 .. p - 1 /\ p - 1 <= 3
      BY <2>1
    <3> QED BY <1>4, <3>1, <3>2
  <2>2. CASE p \in 6 .. 7
    <3>1. \A j \in 5 + 1 .. p : j \in {6, 7}
      BY <2>2
    <3>2. 5 \in 1 .. p - 1 /\ p - 5 <= 2
      BY <2>2
    <3> QED BY <1>4, <3>1, <3>2
  <2>3. p \in 2 .. 4 \/ p \in 6 .. 7
    <3>1. p # 1 /\ p # 5
      BY <1>4
    <3> QED BY <3>1
  <2> QED BY <2>1, <2>2, <2>3
<1>7. \A t \in Registers : \A old :
        Final(s, t, IF t \in DOMAIN One("DATA", <<v, TRUE>>)
                    THEN One("DATA", <<v, TRUE>>)[t] ELSE old, old)
  <2>1. {"WAIT", "CURRENT", "CURRENT_SSL", "SEGMENT_OFFSET", "SEGMENT_LENGTH"}
          \cap Registers = {}
    BY WordNames DEF Registers
  <2>2. ASSUME NEW q \in 1 .. 7, q # 7 PROVE s[q][1] \notin Registers
    <3>1. q \in {1, 2, 3, 4, 5, 6}
      BY <2>2
    <3> QED BY <1>4, <2>1, <3>1
  <2>3. 7 \in 1 .. Len(s) /\ s[7] = <<"DATA", <<v, TRUE>>>>
    BY <1>2, <1>3
  <2> QED BY <1>3, <2>2, <2>3, OneWrite
<1>8. \A old : Final(s, "LOCK", old, old)
  <2>1. ASSUME NEW q \in 1 .. 7 PROVE s[q][1] # "LOCK"
    <3>1. q \in {1, 2, 3, 4, 5, 6, 7}
      OBVIOUS
    <3> QED BY <1>4, <3>1
  <2> QED BY <1>3, <2>1 DEF Final, Absent
<1>9. Adds(s, i, One("DATA", <<v, TRUE>>)) /\ \A old : Final(s, "LOCK", old, old)
  <2>1. Piece(s, i)
    BY <1>3, <1>4, <1>5, <1>6 DEF Piece
  <2>2. \A old : \E x : Final(s, "LOCK", x, old)
    BY <1>8
  <2> QED BY <1>7, <1>8, <2>1, <2>2 DEF Adds
<1> QED BY <1>9 DEF s

LEMMA SubmitAdds ==
  ASSUME NEW i \in HwVoices, NEW v \in Voices
  PROVE  LET s == <<Wait(2), <<"INBUF_SGE", Zero>>, <<"INBUF_SGE_OFFSET", Zero>>>>
                  \o Bracket(i, <<<<"DATA", <<v, FALSE>>>>, <<"BUF_LBO", Zero>>,
                                  <<"BUF_CBO", Zero>>, <<"BUF_EBO", Zero>>>>)
         IN Adds(s, i, One("DATA", <<v, FALSE>>)) /\ Unlocks(s)
<1> DEFINE d  == <<"DATA", <<v, FALSE>>>>
           ws == <<<<"DATA", <<v, FALSE>>>>, <<"BUF_LBO", Zero>>, <<"BUF_CBO", Zero>>,
                   <<"BUF_EBO", Zero>>>>
           a  == <<Wait(2), <<"INBUF_SGE", Zero>>, <<"INBUF_SGE_OFFSET", Zero>>>>
<1>1. /\ Wait(2) \in Items /\ <<"INBUF_SGE", Zero>> \in Items
      /\ <<"INBUF_SGE_OFFSET", Zero>> \in Items /\ <<"BUF_LBO", Zero>> \in Items
      /\ <<"BUF_CBO", Zero>> \in Items /\ <<"BUF_EBO", Zero>> \in Items /\ d \in Items
  <2>1. {"INBUF_SGE", "INBUF_SGE_OFFSET", "BUF_LBO", "BUF_CBO", "BUF_EBO"} \subseteq Others
        /\ 2 \in Nat
    BY DEF Others
  <2> QED BY <2>1, ItemsOf
<1>2. d[1] = "DATA"
  OBVIOUS
<1> HIDE DEF d
<1>3. /\ ws \in Lists /\ Len(ws) = 4 /\ ws[1] = d /\ ws[2] = <<"BUF_LBO", Zero>>
      /\ ws[3] = <<"BUF_CBO", Zero>> /\ ws[4] = <<"BUF_EBO", Zero>>
  <2>1. ws = <<d, <<"BUF_LBO", Zero>>, <<"BUF_CBO", Zero>>, <<"BUF_EBO", Zero>>>>
    BY DEF d
  <2> HIDE DEF ws
  <2> QED BY <1>1, <2>1, ShortLists
<1>4. /\ a \in Lists /\ Len(a) = 3 /\ a[1] = Wait(2) /\ a[2] = <<"INBUF_SGE", Zero>>
      /\ a[3] = <<"INBUF_SGE_OFFSET", Zero>>
  BY <1>1, ShortLists
<1> HIDE DEF ws, a
<1>5. {"INBUF_SGE", "INBUF_SGE_OFFSET", "BUF_LBO", "BUF_CBO", "BUF_EBO", "WAIT"}
        \cap Registers = {}
  BY WordNames DEF Registers
<1>6. Sets(Group(7, i, ws), i, One("DATA", <<v, FALSE>>)) /\ Unlocks(Group(7, i, ws))
  <2>1. Plain(ws)
    BY <1>2, <1>3 DEF Plain
  <2>2. \A q \in 1 .. Len(ws) : q # 1 => ws[q][1] \notin Registers
    BY <1>3, <1>5
  <2>3. 1 \in 1 .. Len(ws) /\ ws[1] = <<"DATA", <<v, FALSE>>>>
    BY <1>3 DEF d
  <2>4. 7 \in 0 .. FifoSize /\ Len(ws) + 3 <= 7
    BY <1>3, SizesAssumption
  <2>5. \A t \in Registers : \A old :
          Final(ws, t, IF t \in DOMAIN One("DATA", <<v, FALSE>>)
                       THEN One("DATA", <<v, FALSE>>)[t] ELSE old, old)
    BY <1>3, <2>2, <2>3, OneWrite
  <2> QED BY <2>1, <2>4, <2>5, GroupSets
<1>7. Adds(a, i, [t \in {} |-> Zero])
  <2>1. Piece(a, i)
    <3>1. ASSUME NEW p \in 2 .. 3
          PROVE  /\ a[p][1] # "WAIT"
                 /\ a[p][1] = "CURRENT" => a[p][2] = i
                 /\ a[p][1] = "LOCK" => a[p][2] \in BOOLEAN
      BY <1>4
    <3>2. 2 \in 0 .. FifoSize /\ Len(a) >= 2 /\ Len(a) <= 2 + 1
      BY <1>4, SizesAssumption
    <3> QED BY <1>4, <3>1, <3>2, PieceOf
  <2>2. \A r \in Registers \cup {"LOCK"} : \A old : Final(a, r, old, old)
    BY <1>4, <1>5 DEF Final, Absent, Wait
  <2>3. \A old : \E x : Final(a, "LOCK", x, old)
    BY <2>2
  <2> QED BY <2>1, <2>2, <2>3 DEF Adds
<1> DEFINE g == Group(7, i, ws)
<1>8. /\ Adds(a \o g, i, Over([t \in {} |-> Zero], One("DATA", <<v, FALSE>>)))
      /\ Unlocks(a \o g)
  BY <1>6, <1>7, SetsConcat DEF Sets
<1>9. Over([t \in {} |-> Zero], One("DATA", <<v, FALSE>>)) = One("DATA", <<v, FALSE>>)
  BY DEF Over, One
<1>10. Bracket(i, ws) = g
  <2>1. Len(ws) + 3 = 7
    BY <1>3
  <2> QED BY <2>1 DEF Bracket, Group
<1>11. Adds(a \o Bracket(i, ws), i, One("DATA", <<v, FALSE>>)) /\ Unlocks(a \o Bracket(i, ws))
  BY <1>8, <1>9, <1>10
<1> QED BY <1>11 DEF a, ws
-----------------------------------------------------------------------------
(* What a register should hold, in terms of one voice's state. *)

Asks(s, playing, r, x) ==
  /\ r = "CFG_FMT" =>
       /\ x.rate = s.format.rate /\ x.stream = s.streaming /\ x.bins = Bins(s.target)
       /\ playing => x.loop = s.looping /\ x.persist = s.streaming
  /\ r = "CFG_MISC" => /\ s.filter = Zero \/ x.release = s.filter
                       /\ s.coefficients = Zero \/ x.mode = s.coefficients
  /\ r \in {"CFG_ENV0", "CFG_ENVA", "LFO_ENV"} => s.amplitude = Zero \/ x = s.amplitude
  /\ r \in {"CFG_ENV1", "CFG_ENVF"} => s.filter = Zero \/ x = s.filter
  /\ r \in {"TAR_FCA", "TAR_FCB"} => s.coefficients = Zero \/ x = s.coefficients
  /\ r = "CFG_VBIN" => x = Bins(s.target)
  /\ r \in {"TAR_VOLA", "TAR_VOLB", "TAR_VOLC"} => x = Volumes(s)
  /\ r = "TAR_PITCH" => x = Pitch(s)
  /\ r = "TAR_HRTF" => x = s.target
Meets(v, s, playing, held, r, x) ==
  /\ r \in Words => x \in Values(r) /\ Asks(s, playing, r, x)
  /\ r = "DATA" /\ OneClass /\ OneKind /\ held => x = <<v, s.streaming>>

LEMMA AskedIs ==
  ASSUME NEW v, NEW r \in Words, NEW x
  PROVE  /\ AskedFor(v, r, x) <=> Asks(asked[v], state[v] = "PLAYING", r, x)
         /\ AskedFor(v, r, x)' <=> Asks(asked'[v], state'[v] = "PLAYING", r, x)
<1>0. r \in {"CFG_FMT", "CFG_MISC", "CFG_ENV0", "CFG_ENVA", "CFG_ENV1", "CFG_ENVF",
             "LFO_ENV", "TAR_FCA", "TAR_FCB", "CFG_VBIN", "TAR_VOLA", "TAR_VOLB",
             "TAR_VOLC", "TAR_PITCH", "TAR_HRTF"}
  BY WordNames
<1>1. CASE r = "CFG_FMT"
  BY <1>1 DEF AskedFor, Asks
<1>2. CASE r = "CFG_MISC"
  BY <1>2 DEF AskedFor, Asks
<1>3. CASE r \in {"CFG_ENV0", "CFG_ENVA", "LFO_ENV"}
  BY <1>3 DEF AskedFor, Asks
<1>4. CASE r \in {"CFG_ENV1", "CFG_ENVF"}
  BY <1>4 DEF AskedFor, Asks
<1>5. CASE r \in {"TAR_FCA", "TAR_FCB"}
  BY <1>5 DEF AskedFor, Asks
<1>6. CASE r = "CFG_VBIN"
  BY <1>6 DEF AskedFor, Asks
<1>7. CASE r \in {"TAR_VOLA", "TAR_VOLB", "TAR_VOLC"}
  BY <1>7 DEF AskedFor, Asks
<1>8. CASE r = "TAR_PITCH"
  BY <1>8 DEF AskedFor, Asks
<1>9. CASE r = "TAR_HRTF"
  BY <1>9 DEF AskedFor, Asks
<1> QED BY <1>0, <1>1, <1>2, <1>3, <1>4, <1>5, <1>6, <1>7, <1>8, <1>9

LEMMA SuitsIs ==
  ASSUME app' = app, NEW v, NEW r, NEW x
  PROVE  /\ Suits(v, r, x) <=>
              Meets(v, asked[v], state[v] = "PLAYING", v \in holds, r, x)
         /\ Suits(v, r, x)' <=>
              Meets(v, asked'[v], state'[v] = "PLAYING", v \in holds', r, x)
<1>1. OneClass' = OneClass /\ OneKind' = OneKind
  BY DEF OneClass, OneKind
<1>2. r \in Words =>
        /\ AskedFor(v, r, x) <=> Asks(asked[v], state[v] = "PLAYING", r, x)
        /\ AskedFor(v, r, x)' <=> Asks(asked'[v], state'[v] = "PLAYING", r, x)
  BY AskedIs
<1> QED BY <1>1, <1>2 DEF Suits, Meets

LEMMA PacedMore ==
  ASSUME NEW s \in Lists, Paced(s, 0), NEW n \in Nat
  PROVE  Paced(s, n)
<1> SUFFICES ASSUME NEW p \in 1 .. Len(s), s[p][1] # "WAIT"
             PROVE \E q \in 1 .. p - 1 :
                     /\ s[q][1] = "WAIT" /\ p - q <= s[q][2]
                     /\ \A j \in q + 1 .. p : s[j][1] # "WAIT"
  BY DEF Paced
<1>1. ~(p <= 0)
  OBVIOUS
<1> QED BY <1>1 DEF Paced
-----------------------------------------------------------------------------
(* A call of voice v that leaves it at index i, in state st, with the settings *)
(* s and the words w, its buffer held or not, and the writes ws to come.       *)

Place(v, i) ==
  \/ v \in live /\ i = index[v] /\ UNCHANGED <<free, image>>
  \/ v \notin live /\ i \in free /\ free' = free \ {i} /\ UNCHANGED image
  \/ /\ v \in live /\ i \in free
     /\ free' = (free \ {i}) \cup {index[v]} /\ image' = Forget(image, index[v])
Leaving(v, i, s, w, st, held, ws) ==
  /\ todo = <<>> /\ app' = app /\ v \in app.voices /\ Place(v, i)
  /\ live' = live \cup {v} /\ index' = [index EXCEPT ![v] = i]
  /\ asked' = [asked EXCEPT ![v] = s] /\ word' = [word EXCEPT ![v] = w]
  /\ state' = [state EXCEPT ![v] = st]
  /\ holds' = IF held THEN holds \cup {v} ELSE holds \ {v}
  /\ todo' = ws /\ UNCHANGED <<current, locked, room>>
  /\ raised' = FALSE /\ app.quiet => \A u \in live' : state'[u] = "STOPPED"
Sound(s, w, st, held, i) ==
  /\ s \in Settings /\ s.format \in app.formats /\ s.format.is3d = (i < Max3D)
  /\ WordFile(w) /\ \A r \in Words \ {"TAR_PITCH"} : Asks(s, st = "PLAYING", r, w[r])
  /\ st \in {"STOPPED", "PLAYING", "STOPPING"} /\ (st = "PLAYING" => held)
  /\ "Submit" \notin app.calls /\ held => s.streaming
  /\ "Queue" \notin app.calls => ~s.streaming
\* The writes ws leave the values of f, and with the registers they do not reach
\* they are what v should have.
Answers(v, i, s, st, held, ws, f) ==
  /\ Sets(ws, i, f) /\ Unlocks(ws)
  /\ \A r \in Registers :
       Meets(v, s, st = "PLAYING", held, r, IF r \in DOMAIN f THEN f[r] ELSE image'[i][r])

LEMMA PlaceFacts ==
  ASSUME Shapes, OwnIndex, NEW v \in Voices, NEW i, Place(v, i)
  PROVE  /\ i \in HwVoices /\ free' \subseteq HwVoices /\ i \notin free'
         /\ image' = [j \in HwVoices |-> [r \in Registers |-> image'[j][r]]]
         /\ \A u \in live \ {v} : /\ u \in Voices /\ index[u] # i /\ index[u] \notin free'
                                  /\ image'[index[u]] = image[index[u]]
<1>1. /\ index \in [Voices -> HwVoices] /\ free \subseteq HwVoices
      /\ image = [j \in HwVoices |-> [r \in Registers |-> image[j][r]]]
      /\ live \subseteq Voices
  BY SizesAssumption DEF Shapes
<1>2. \A u \in live \ {v} : index[u] \notin free /\ (v \in live => index[u] # index[v])
  BY DEF OwnIndex
<1>3. CASE v \in live /\ i = index[v] /\ UNCHANGED <<free, image>>
  <2>1. i \notin free
    BY <1>3 DEF OwnIndex
  <2> QED BY <1>1, <1>2, <1>3, <2>1
<1>4. CASE v \notin live /\ i \in free /\ free' = free \ {i} /\ UNCHANGED image
  BY <1>1, <1>2, <1>4
<1>5. CASE /\ v \in live /\ i \in free
           /\ free' = (free \ {i}) \cup {index[v]} /\ image' = Forget(image, index[v])
  <2>1. index[v] # i
    BY <1>5 DEF OwnIndex
  <2>2. image' = [image EXCEPT ![index[v]] = [r \in Registers |-> Unknown]]
    BY <1>5 DEF Forget
  <2>3. \A u \in live \ {v} : image'[index[u]] = image[index[u]]
    BY <1>1, <1>2, <1>5, <2>2
  <2>4. image' = [j \in HwVoices |-> [r \in Registers |-> image'[j][r]]]
    BY <1>1, <2>2
  <2> QED BY <1>1, <1>2, <1>5, <2>1, <2>3, <2>4
<1> QED BY <1>3, <1>4, <1>5 DEF Place
LEMMA CallShapes ==
  ASSUME ImageInv, NEW v, NEW i, NEW s, NEW w, NEW st, NEW held, NEW ws,
         Leaving(v, i, s, w, st, held, ws), Sound(s, w, st, held, i), raised' \in BOOLEAN
  PROVE  Shapes' /\ OwnIndex' /\ CopiesFollow' /\ BuffersFollow'
<1>0. Shapes /\ OwnIndex /\ CopiesFollow /\ BuffersFollow
  BY DEF ImageInv
<1>1. app \in Applications /\ live \subseteq app.voices /\ app.voices \subseteq Voices
  BY <1>0, SizesAssumption DEF Shapes
<1>2. /\ v \in Voices /\ v \in app.voices /\ app' = app
      /\ live' = live \cup {v} /\ index' = [index EXCEPT ![v] = i]
      /\ asked' = [asked EXCEPT ![v] = s] /\ word' = [word EXCEPT ![v] = w]
      /\ state' = [state EXCEPT ![v] = st]
      /\ holds' = IF held THEN holds \cup {v} ELSE holds \ {v}
      /\ current' = current /\ locked' = locked /\ room' = room
  BY <1>1 DEF Leaving
<1>3. /\ i \in HwVoices /\ free' \subseteq HwVoices /\ i \notin free'
      /\ image' = [j \in HwVoices |-> [r \in Registers |-> image'[j][r]]]
      /\ \A u \in live \ {v} : /\ u \in Voices /\ index[u] # i /\ index[u] \notin free'
                               /\ image'[index[u]] = image[index[u]]
  <2>1. Place(v, i)
    BY DEF Leaving
  <2> QED BY <1>0, <1>2, <2>1, PlaceFacts
<1>4. /\ state \in [Voices -> {"STOPPED", "PLAYING", "STOPPING"}]
      /\ index \in [Voices -> HwVoices]
      /\ asked = [u \in Voices |-> asked[u]] /\ word = [u \in Voices |-> word[u]]
  BY <1>0 DEF Shapes
<1>5. /\ state'[v] = st /\ index'[v] = i /\ asked'[v] = s /\ word'[v] = w
      /\ \A u \in Voices \ {v} : /\ state'[u] = state[u] /\ index'[u] = index[u]
                                 /\ asked'[u] = asked[u] /\ word'[u] = word[u]
  BY <1>2, <1>4
<1>6. st \in {"STOPPED", "PLAYING", "STOPPING"}
  BY DEF Sound
<1>7. Shapes'
  <2>1. /\ asked' = [u \in Voices |-> asked'[u]] /\ word' = [u \in Voices |-> word'[u]]
    BY <1>2, <1>4
  <2>2. state' \in [Voices -> {"STOPPED", "PLAYING", "STOPPING"}] /\ index' \in [Voices -> HwVoices]
    BY <1>2, <1>3, <1>4, <1>6
  <2>3. holds' \subseteq live' /\ live' \subseteq app'.voices
    BY <1>0, <1>1, <1>2 DEF Shapes
  <2> QED BY <1>0, <1>1, <1>2, <1>3, <2>1, <2>2, <2>3 DEF Shapes
<1>8. OwnIndex'
  <2> SUFFICES ASSUME NEW u \in live'
               PROVE  /\ index'[u] \notin free'
                      /\ \A t \in live' : index'[t] = index'[u] => t = u
                      /\ asked'[u].format.is3d = (index'[u] < Max3D)
    BY DEF OwnIndex
  <2>1. CASE u = v
    BY <1>2, <1>3, <1>5, <2>1 DEF Sound
  <2>2. CASE u # v
    <3>1. u \in live /\ u \in Voices
      BY <1>2, <1>3, <2>2
    <3>2. /\ \A t \in live : index[t] = index[u] => t = u
          /\ asked[u].format.is3d = (index[u] < Max3D)
      BY <1>0, <3>1 DEF OwnIndex
    <3> QED BY <1>1, <1>2, <1>3, <1>5, <2>2, <3>1, <3>2
  <2> QED BY <2>1, <2>2
<1>9. CopiesFollow'
  <2> SUFFICES ASSUME NEW u \in live'
               PROVE  /\ asked'[u] \in Settings /\ asked'[u].format \in app.formats
                      /\ WordFile(word'[u])
                      /\ \A r \in Words \ {"TAR_PITCH"} :
                           Asks(asked'[u], state'[u] = "PLAYING", r, word'[u][r])
    BY <1>2, AskedIs DEF CopiesFollow
  <2>1. CASE u = v
    BY <1>5, <2>1 DEF Sound
  <2>2. CASE u # v
    <3>1. u \in live /\ u \in Voices
      BY <1>2, <1>3, <2>2
    <3>2. /\ asked[u] \in Settings /\ asked[u].format \in app.formats
          /\ WordFile(word[u])
          /\ \A r \in Words \ {"TAR_PITCH"} : AskedFor(u, r, word[u][r])
      BY <1>0, <3>1 DEF CopiesFollow
    <3>3. \A r \in Words \ {"TAR_PITCH"} :
            Asks(asked[u], state[u] = "PLAYING", r, word[u][r])
      BY <3>2, AskedIs
    <3> QED BY <1>5, <2>2, <3>1, <3>2, <3>3
  <2> QED BY <2>1, <2>2
<1>10. BuffersFollow'
  <2> SUFFICES ASSUME NEW u \in live'
               PROVE  /\ state'[u] = "PLAYING" => u \in holds'
                      /\ "Submit" \notin app.calls /\ u \in holds' => asked'[u].streaming
                      /\ "Queue" \notin app.calls => ~asked'[u].streaming
    BY <1>2 DEF BuffersFollow
  <2>1. CASE u = v
    BY <1>2, <1>5, <2>1 DEF Sound
  <2>2. CASE u # v
    <3>1. u \in live /\ u \in Voices
      BY <1>2, <1>3, <2>2
    <3> QED BY <1>0, <1>2, <1>5, <2>2, <3>1 DEF BuffersFollow
  <2> QED BY <2>1, <2>2
<1> QED BY <1>7, <1>8, <1>9, <1>10

LEMMA CallKeeps ==
  ASSUME ImageInv, NEW v, NEW i, NEW s, NEW w, NEW st, NEW held \in BOOLEAN, NEW ws, NEW f,
         Leaving(v, i, s, w, st, held, ws), Sound(s, w, st, held, i), raised' \in BOOLEAN,
         Answers(v, i, s, st, held, ws, f)
  PROVE  ImageInv'
<1>0. Shapes /\ OwnIndex /\ AtRest
  BY DEF ImageInv, CallsSound, Leaving
<1>1. live \subseteq app.voices /\ app.voices \subseteq Voices
  BY <1>0, SizesAssumption DEF Shapes
<1>2. /\ v \in Voices /\ app' = app /\ live' = live \cup {v}
      /\ holds' = IF held THEN holds \cup {v} ELSE holds \ {v}
      /\ todo' = ws /\ current' = current /\ locked' = locked /\ room' = room
  BY <1>1 DEF Leaving
<1>3. /\ state'[v] = st /\ index'[v] = i /\ asked'[v] = s
      /\ \A u \in Voices \ {v} : /\ state'[u] = state[u] /\ index'[u] = index[u]
                                 /\ asked'[u] = asked[u]
  BY <1>0, <1>2 DEF Leaving, Shapes
<1>4. \A u \in live \ {v} : /\ u \in Voices /\ image'[index[u]] = image[index[u]]
  <2>1. Place(v, i)
    BY DEF Leaving
  <2> QED BY <1>0, <1>2, <2>1, PlaceFacts
<1>5. ws \in Lists /\ Len(ws) >= 2 /\ ws # <<>> /\ Directed(ws, i, current)
      /\ Fits(ws, i) /\ Paced(ws, 0)
  <2>1. Opening(ws, i)
    BY DEF Answers, Sets
  <2>2. ws \in Lists /\ Len(ws) >= 2 /\ ws[1][1] = "WAIT" /\ ws[2] = <<"CURRENT", i>>
        /\ Fits(ws, i) /\ Paced(ws, 0)
    BY <2>1 DEF Opening, Piece
  <2> QED BY <2>2 DEF Directed, Lists
<1>6. Paced(ws, room)
  BY <1>0, <1>5, PacedMore, SizesAssumption DEF Shapes
<1>7. Pending(v)'
  <2> SUFFICES ASSUME NEW r \in Registers
               PROVE  \E x : Final(ws, r, x, image'[i][r]) /\ Suits(v, r, x)'
    BY <1>2, <1>3 DEF Pending
  <2>0. PICK x : x = IF r \in DOMAIN f THEN f[r] ELSE image'[i][r]
    OBVIOUS
  <2>1. Final(ws, r, x, image'[i][r])
    BY <2>0 DEF Answers, Sets, Adds
  <2>2. Meets(v, s, st = "PLAYING", held, r, x)
    BY <2>0 DEF Answers
  <2>3. v \in holds' <=> held
    BY <1>2
  <2>4. Meets(v, asked'[v], state'[v] = "PLAYING", v \in holds', r, x)
    BY <1>3, <2>2, <2>3 DEF Meets
  <2>5. Suits(v, r, x)'
    BY <1>2, <2>4, SuitsIs
  <2> QED BY <2>1, <2>5
<1>8. ASSUME NEW u \in live' \ {v} PROVE Settled(u)'
  <2>1. u \in live /\ u \in Voices
    BY <1>2, <1>4, <1>8
  <2> SUFFICES ASSUME NEW r \in Registers
               PROVE  \E x : x = image'[index'[u]][r] /\ Suits(u, r, x)'
    BY DEF Settled
  <2>2. PICK x : x = image[index[u]][r] /\ Suits(u, r, x)
    BY <1>0, <2>1 DEF AtRest, Settled
  <2>3. image'[index'[u]][r] = image[index[u]][r]
    BY <1>3, <1>4, <2>1
  <2>4. u \in holds' <=> u \in holds
    BY <1>2
  <2>5. Meets(u, asked[u], state[u] = "PLAYING", u \in holds, r, x)
    BY <1>2, <2>2, SuitsIs
  <2>6. Meets(u, asked'[u], state'[u] = "PLAYING", u \in holds', r, x)
    BY <1>3, <2>1, <2>4, <2>5 DEF Meets
  <2>7. Suits(u, r, x)'
    BY <1>2, <2>6, SuitsIs
  <2> QED BY <2>2, <2>3, <2>7
<1>9. InCall(v)'
  <2>1. locked' \subseteq {i} /\ (i \in locked') = FALSE
    BY <1>0, <1>2 DEF AtRest
  <2>2. Final(ws, "LOCK", FALSE, i \in locked')
    BY DEF Answers, Unlocks
  <2>3. raised' = FALSE /\ app.quiet => \A u \in live' : state'[u] = "STOPPED"
    BY DEF Leaving
  <2> QED BY <1>2, <1>3, <1>5, <1>6, <1>7, <1>8, <2>1, <2>2, <2>3 DEF InCall, Stopped
<1>10. CallsSound'
  BY <1>2, <1>5, <1>9 DEF CallsSound
<1> QED BY <1>10, CallShapes DEF ImageInv
-----------------------------------------------------------------------------
(* The words the setters compute. *)

LEMMA ValuesAre ==
  /\ Values("CFG_FMT") = [rate : Rates, stream : BOOLEAN, bins : BinSets,
                          persist : BOOLEAN, loop : BOOLEAN]
  /\ Values("CFG_MISC") = [release : Params \cup {Zero}, mode : Params \cup {Zero}]
  /\ Values("CFG_VBIN") = BinSets
  /\ \A r \in {"TAR_VOLA", "TAR_VOLB", "TAR_VOLC"} :
       Values(r) = BinSets \X Levels \X Levels
  /\ Values("TAR_PITCH") = Rates \X (Pitches \cup {Zero})
  /\ Values("TAR_HRTF") = Targets \cup {NoTarget, Zero}
  /\ \A r \in {"CFG_ENV0", "CFG_ENVA", "CFG_ENV1", "CFG_ENVF", "LFO_ENV", "TAR_FCA",
               "TAR_FCB"} : Values(r) = Params \cup {Zero}
BY DEF Values

LEMMA FormatRecord ==
  ASSUME NEW c \in Values("CFG_FMT"), NEW b \in BOOLEAN, NEW d \in BOOLEAN,
         NEW x \in Rates, NEW y \in BinSets
  PROVE  /\ [c EXCEPT !.rate = x, !.stream = b] \in Values("CFG_FMT")
         /\ [c EXCEPT !.bins = y] \in Values("CFG_FMT")
         /\ [c EXCEPT !.stream = b] \in Values("CFG_FMT")
         /\ [c EXCEPT !.loop = b] \in Values("CFG_FMT")
         /\ [c EXCEPT !.persist = b] \in Values("CFG_FMT")
         /\ [c EXCEPT !.persist = b, !.loop = d] \in Values("CFG_FMT")
<1> DEFINE V == [rate : Rates, stream : BOOLEAN, bins : BinSets,
                 persist : BOOLEAN, loop : BOOLEAN]
<1>1. c \in V
  BY ValuesAre
<1>2. /\ [c EXCEPT !.rate = x, !.stream = b] \in V /\ [c EXCEPT !.bins = y] \in V
      /\ [c EXCEPT !.stream = b] \in V /\ [c EXCEPT !.loop = b] \in V
      /\ [c EXCEPT !.persist = b] \in V /\ [c EXCEPT !.persist = b, !.loop = d] \in V
  BY <1>1
<1> HIDE DEF V
<1>3. Values("CFG_FMT") = V
  BY ValuesAre DEF V
<1> QED BY <1>2, <1>3

LEMMA SettingsGive ==
  ASSUME NEW s \in Settings
  PROVE  /\ Bins(s.target) \in BinSets /\ s.format.rate \in Rates
         /\ Volumes(s) \in BinSets \X Levels \X Levels
         /\ Pitch(s) \in Values("TAR_PITCH")
<1>1. /\ s.format \in Formats /\ s.pitch \in Pitches \cup {Zero}
      /\ s.gain \in [Knobs -> Levels]
  BY DEF Settings
<1>2. s.format.rate \in Rates
  BY <1>1 DEF Rates
<1>3. Bins(s.target) \in BinSets
  BY DEF Bins, BinSets
<1>4. s.gain["master"] \in Levels /\ s.gain["channel"] \in Levels /\ s.gain["hrtf"] \in Levels
  BY <1>1 DEF Knobs
<1>5. Volumes(s) \in BinSets \X Levels \X Levels
  BY <1>3, <1>4 DEF Volumes
<1>6. Pitch(s) \in Values("TAR_PITCH")
  BY <1>1, <1>2, ValuesAre DEF Pitch
<1> QED BY <1>2, <1>3, <1>5, <1>6

LEMMA FormatWordsGive ==
  ASSUME NEW s \in Settings, NEW w, WordFile(w)
  PROVE  LET n == FormatWords(s, w)
         IN /\ WordFile(n) /\ n["TAR_PITCH"] = Pitch(s)
            /\ n["CFG_FMT"] = [w["CFG_FMT"] EXCEPT !.rate = s.format.rate,
                                                   !.stream = s.streaming]
            /\ \A r \in Words \ {"CFG_FMT", "TAR_PITCH"} : n[r] = w[r]
<1> DEFINE n == FormatWords(s, w)
<1>1. {"CFG_FMT", "TAR_PITCH"} \subseteq Words
  BY WordNames
<1>2. w = [r \in Words |-> w[r]] /\ w["CFG_FMT"] \in Values("CFG_FMT")
  BY <1>1 DEF WordFile
<1>3. /\ n = [r \in Words |-> n[r]] /\ n["TAR_PITCH"] = Pitch(s)
      /\ n["CFG_FMT"] = [w["CFG_FMT"] EXCEPT !.rate = s.format.rate,
                                             !.stream = s.streaming]
      /\ \A r \in Words \ {"CFG_FMT", "TAR_PITCH"} : n[r] = w[r]
  BY <1>1, <1>2 DEF FormatWords
<1> HIDE DEF n
<1>4. n["CFG_FMT"] \in Values("CFG_FMT") /\ n["TAR_PITCH"] \in Values("TAR_PITCH")
  <2>1. s.streaming \in BOOLEAN
    BY DEF Settings
  <2>2. s.format.rate \in Rates /\ Pitch(s) \in Values("TAR_PITCH") /\ "2D" \in BinSets
    BY SettingsGive DEF BinSets
  <2>3. [w["CFG_FMT"] EXCEPT !.rate = s.format.rate, !.stream = s.streaming]
          \in Values("CFG_FMT")
    BY <1>2, <2>1, <2>2, FormatRecord
  <2> QED BY <1>3, <2>2, <2>3
<1>5. WordFile(n)
  BY <1>3, <1>4 DEF WordFile
<1> QED BY <1>3, <1>5 DEF n

LEMMA VolumeWordsGive ==
  ASSUME NEW s \in Settings, NEW w, WordFile(w)
  PROVE  LET n == VolumeWords(s, w)
         IN /\ WordFile(n)
            /\ \A r \in {"TAR_VOLA", "TAR_VOLB", "TAR_VOLC"} : n[r] = Volumes(s)
            /\ \A r \in Words \ {"TAR_VOLA", "TAR_VOLB", "TAR_VOLC"} : n[r] = w[r]
<1> DEFINE n == VolumeWords(s, w)
<1>1. {"TAR_VOLA", "TAR_VOLB", "TAR_VOLC"} \subseteq Words
  BY WordNames
<1>2. w = [r \in Words |-> w[r]]
  BY DEF WordFile
<1>3. /\ n = [r \in Words |-> n[r]]
      /\ \A r \in {"TAR_VOLA", "TAR_VOLB", "TAR_VOLC"} : n[r] = Volumes(s)
      /\ \A r \in Words \ {"TAR_VOLA", "TAR_VOLB", "TAR_VOLC"} : n[r] = w[r]
  BY <1>1, <1>2 DEF VolumeWords
<1> HIDE DEF n
<1>4. \A r \in {"TAR_VOLA", "TAR_VOLB", "TAR_VOLC"} : n[r] \in Values(r)
  BY <1>3, SettingsGive, ValuesAre
<1>5. WordFile(n)
  BY <1>3, <1>4 DEF WordFile
<1> QED BY <1>3, <1>5 DEF n

\* The words of SetHRTFTarget, with the change between speakers and the HRTF, and
\* without.
TurnedWords(s, w) ==
  VolumeWords(s, [[w EXCEPT !["TAR_HRTF"] = s.target]
                     EXCEPT !["CFG_VBIN"] = Bins(s.target), !["CFG_FMT"].bins = Bins(s.target)])
LEMMA TurnedWordsGive ==
  ASSUME NEW s \in Settings, NEW w, WordFile(w)
  PROVE  LET h == [w EXCEPT !["TAR_HRTF"] = s.target]
             n == TurnedWords(s, w)
         IN /\ WordFile(h) /\ h["TAR_HRTF"] = s.target
            /\ \A r \in Words \ {"TAR_HRTF"} : h[r] = w[r]
            /\ WordFile(n) /\ n["TAR_HRTF"] = s.target /\ n["CFG_VBIN"] = Bins(s.target)
            /\ n["CFG_FMT"] = [w["CFG_FMT"] EXCEPT !.bins = Bins(s.target)]
            /\ \A r \in {"TAR_VOLA", "TAR_VOLB", "TAR_VOLC"} : n[r] = Volumes(s)
            /\ \A r \in Words \ ({"TAR_HRTF"} \cup DirtyWords) : n[r] = w[r]
<1> DEFINE h == [w EXCEPT !["TAR_HRTF"] = s.target]
           g == [h EXCEPT !["CFG_VBIN"] = Bins(s.target), !["CFG_FMT"].bins = Bins(s.target)]
           n == TurnedWords(s, w)
<1>1. {"CFG_FMT", "CFG_VBIN", "TAR_HRTF"} \subseteq Words
  BY WordNames
<1>2. w = [r \in Words |-> w[r]] /\ w["CFG_FMT"] \in Values("CFG_FMT")
  BY <1>1 DEF WordFile
<1>3. /\ h = [r \in Words |-> h[r]] /\ h["TAR_HRTF"] = s.target
      /\ \A r \in Words \ {"TAR_HRTF"} : h[r] = w[r]
  BY <1>1, <1>2
<1>4. WordFile(h)
  <2>1. s.target \in Targets \cup {NoTarget, Zero}
    BY DEF Settings
  <2> HIDE DEF h
  <2> QED BY <1>3, <2>1, ValuesAre DEF WordFile
<1> HIDE DEF h
<1>5. /\ g = [r \in Words |-> g[r]] /\ g["CFG_VBIN"] = Bins(s.target)
      /\ g["CFG_FMT"] = [w["CFG_FMT"] EXCEPT !.bins = Bins(s.target)]
      /\ \A r \in Words \ {"CFG_VBIN", "CFG_FMT"} : g[r] = h[r]
  BY <1>1, <1>2, <1>3
<1> HIDE DEF g
<1>6. WordFile(g)
  <2>1. g["CFG_FMT"] \in Values("CFG_FMT") /\ g["CFG_VBIN"] \in Values("CFG_VBIN")
    <3>1. g["CFG_VBIN"] \in Values("CFG_VBIN")
      BY <1>5, SettingsGive, ValuesAre
    <3>2. Bins(s.target) \in BinSets /\ TRUE \in BOOLEAN /\ s.format.rate \in Rates
      BY SettingsGive
    <3>3. [w["CFG_FMT"] EXCEPT !.bins = Bins(s.target)] \in Values("CFG_FMT")
      BY <1>2, <3>2, FormatRecord
    <3> QED BY <1>5, <3>1, <3>3
  <2> QED BY <1>4, <1>5, <2>1 DEF WordFile
<1>7. n = VolumeWords(s, g)
  BY DEF TurnedWords, h, g
<1>8. /\ WordFile(n)
      /\ \A r \in {"TAR_VOLA", "TAR_VOLB", "TAR_VOLC"} : n[r] = Volumes(s)
      /\ \A r \in Words \ {"TAR_VOLA", "TAR_VOLB", "TAR_VOLC"} : n[r] = g[r]
  BY <1>6, <1>7, VolumeWordsGive
<1> HIDE DEF n
<1>9. /\ n["TAR_HRTF"] = s.target /\ n["CFG_VBIN"] = Bins(s.target)
      /\ n["CFG_FMT"] = [w["CFG_FMT"] EXCEPT !.bins = Bins(s.target)]
  BY <1>1, <1>3, <1>5, <1>8
<1>10. \A r \in Words \ ({"TAR_HRTF"} \cup DirtyWords) : n[r] = w[r]
  BY <1>3, <1>5, <1>8 DEF DirtyWords
<1> QED BY <1>3, <1>4, <1>8, <1>9, <1>10 DEF h, n

LEMMA TargetWordsGive ==
  ASSUME NEW s \in Settings, NEW w, WordFile(w), NEW dirty \in BOOLEAN
  PROVE  LET n == TargetWords(s, w, dirty)
         IN /\ WordFile(n) /\ n["TAR_HRTF"] = s.target
            /\ dirty =>
                 /\ n["CFG_VBIN"] = Bins(s.target)
                 /\ n["CFG_FMT"] = [w["CFG_FMT"] EXCEPT !.bins = Bins(s.target)]
                 /\ \A r \in {"TAR_VOLA", "TAR_VOLB", "TAR_VOLC"} : n[r] = Volumes(s)
            /\ \A r \in Words \ {"TAR_HRTF"} : ~dirty \/ r \notin DirtyWords => n[r] = w[r]
<1> DEFINE h == [w EXCEPT !["TAR_HRTF"] = s.target]
           m == TurnedWords(s, w)
<1>1. /\ WordFile(h) /\ h["TAR_HRTF"] = s.target
      /\ \A r \in Words \ {"TAR_HRTF"} : h[r] = w[r]
      /\ WordFile(m) /\ m["TAR_HRTF"] = s.target /\ m["CFG_VBIN"] = Bins(s.target)
      /\ m["CFG_FMT"] = [w["CFG_FMT"] EXCEPT !.bins = Bins(s.target)]
      /\ \A r \in {"TAR_VOLA", "TAR_VOLB", "TAR_VOLC"} : m[r] = Volumes(s)
      /\ \A r \in Words \ ({"TAR_HRTF"} \cup DirtyWords) : m[r] = w[r]
  BY TurnedWordsGive
<1>2. TargetWords(s, w, dirty) = IF dirty THEN m ELSE h
  BY DEF TargetWords, TurnedWords
<1> HIDE DEF h, m
<1> QED BY <1>1, <1>2

\* The writes of the words R of n after those of the whole file w, of which n
\* differs in R only.
LEMMA Follows ==
  ASSUME NEW i, NEW a, NEW b, NEW w, NEW n, WordFile(w), WordFile(n), NEW R,
         R \subseteq Words, \A r \in Words \ R : n[r] = w[r],
         Sets(a, i, w), Sets(b, i, At(R, n)), Unlocks(b)
  PROVE  Sets(a \o b, i, n) /\ Unlocks(a \o b)
<1>1. Sets(a \o b, i, Over(w, At(R, n))) /\ Unlocks(a \o b)
  BY SetsConcat DEF Sets
<1>2. w = [r \in Words |-> w[r]] /\ n = [r \in Words |-> n[r]]
  BY DEF WordFile
<1>3. Over(w, At(R, n)) = n
  <2>1. DOMAIN w = Words /\ DOMAIN At(R, n) = R /\ \A r \in R : At(R, n)[r] = n[r]
    BY <1>2 DEF At
  <2> QED BY <1>2, <2>1 DEF Over
<1> QED BY <1>1, <1>3
-----------------------------------------------------------------------------
(* The calls. *)

\* A voice between calls.
LEMMA Known ==
  ASSUME ImageInv, todo = <<>>, app' = app, NEW v \in live
  PROVE  /\ v \in Voices /\ v \in app.voices /\ app \in Applications
         /\ index[v] \in HwVoices /\ raised = FALSE
         /\ state[v] \in {"STOPPED", "PLAYING", "STOPPING"}
         /\ state = [u \in Voices |-> state[u]] /\ index = [u \in Voices |-> index[u]]
         /\ asked = [u \in Voices |-> asked[u]] /\ word = [u \in Voices |-> word[u]]
         /\ asked[v] \in Settings /\ asked[v].format \in app.formats
         /\ asked[v].format.is3d = (index[v] < Max3D) /\ WordFile(word[v])
         /\ state[v] = "PLAYING" => v \in holds
         /\ "Submit" \notin app.calls /\ v \in holds => asked[v].streaming
         /\ "Queue" \notin app.calls => ~asked[v].streaming
         /\ \A r \in Words \ {"TAR_PITCH"} :
              Asks(asked[v], state[v] = "PLAYING", r, word[v][r])
         /\ \A r \in Registers : Meets(v, asked[v], state[v] = "PLAYING", v \in holds, r,
                                       image[index[v]][r])
<1>0. Shapes /\ OwnIndex /\ CopiesFollow /\ BuffersFollow /\ AtRest /\ raised = FALSE
  BY DEF ImageInv, CallsSound
<1>1. live \subseteq app.voices /\ app.voices \subseteq Voices /\ app \in Applications
  BY <1>0, SizesAssumption DEF Shapes
<1>2. /\ index \in [Voices -> HwVoices] /\ raised \in BOOLEAN
      /\ state \in [Voices -> {"STOPPED", "PLAYING", "STOPPING"}]
      /\ asked = [u \in Voices |-> asked[u]] /\ word = [u \in Voices |-> word[u]]
  BY <1>0 DEF Shapes
<1>3. \A r \in Words \ {"TAR_PITCH"} : Asks(asked[v], state[v] = "PLAYING", r, word[v][r])
  BY <1>0, AskedIs DEF CopiesFollow
<1>4. ASSUME NEW r \in Registers
      PROVE  Meets(v, asked[v], state[v] = "PLAYING", v \in holds, r, image[index[v]][r])
  <2>1. PICK x : x = image[index[v]][r] /\ Suits(v, r, x)
    BY <1>0 DEF AtRest, Settled
  <2> QED BY <2>1, SuitsIs
<1>5. asked[v].format.is3d = (index[v] < Max3D)
  BY <1>0 DEF OwnIndex
<1>6. asked[v] \in Settings /\ asked[v].format \in app.formats /\ WordFile(word[v])
  BY <1>0 DEF CopiesFollow
<1>7. /\ state[v] = "PLAYING" => v \in holds
      /\ "Submit" \notin app.calls /\ v \in holds => asked[v].streaming
      /\ "Queue" \notin app.calls => ~asked[v].streaming
  BY <1>0 DEF BuffersFollow
<1>8. v \in Voices /\ v \in app.voices
  BY <1>1
<1>9. index[v] \in HwVoices /\ state[v] \in {"STOPPED", "PLAYING", "STOPPING"}
  BY <1>2, <1>8
<1> QED BY <1>0, <1>1, <1>2, <1>3, <1>4, <1>5, <1>6, <1>7, <1>8, <1>9

\* The words R are new and as s asks; of the others s asks no more than before.
Fresh(v, s, w, st, R) ==
  /\ w = [r \in Words |-> w[r]] /\ R \subseteq Words
  /\ \A r \in R : w[r] \in Values(r) /\ Asks(s, st = "PLAYING", r, w[r])
  /\ \A r \in Words \ R :
       /\ w[r] = word[v][r]
       /\ \A x : Asks(asked[v], state[v] = "PLAYING", r, x) => Asks(s, st = "PLAYING", r, x)
\* The writes leave the words R of w and, if base, the buffer of v.
Writes(v, s, w, ws, R, base) ==
  /\ Unlocks(ws)
  /\ \/ ~base /\ Sets(ws, index[v], At(R, w))
     \/ base /\ Sets(ws, index[v], Over(At(R, w), One("DATA", <<v, s.streaming>>)))

\* A call that leaves the voice its index.
LEMMA HereKeeps ==
  ASSUME ImageInv, app' = app, todo = <<>>, NEW v \in live, NEW s \in Settings, NEW w,
         NEW st \in {"STOPPED", "PLAYING", "STOPPING"}, NEW held \in BOOLEAN, NEW ws, NEW R,
         NEW base \in BOOLEAN,
         Leaves(v, s, w, ws), UNCHANGED <<live, index, free, image>>,
         state' = [state EXCEPT ![v] = st],
         holds' = IF held THEN holds \cup {v} ELSE holds \ {v},
         raised' \in BOOLEAN,
         raised' = FALSE /\ app.quiet => \A u \in live : state'[u] = "STOPPED",
         s.format \in app.formats, s.format.is3d = (index[v] < Max3D),
         st = "PLAYING" => held,
         "Submit" \notin app.calls /\ held => s.streaming,
         "Queue" \notin app.calls => ~s.streaming,
         Fresh(v, s, w, st, R), Writes(v, s, w, ws, R, base),
         ~base /\ held /\ OneKind => v \in holds /\ s.streaming = asked[v].streaming
  PROVE  ImageInv'
<1>1. /\ v \in app.voices /\ WordFile(word[v])
      /\ \A r \in Words \ {"TAR_PITCH"} :
           Asks(asked[v], state[v] = "PLAYING", r, word[v][r])
      /\ \A r \in Registers : Meets(v, asked[v], state[v] = "PLAYING", v \in holds, r,
                                    image[index[v]][r])
  BY Known
<1>2. Leaving(v, index[v], s, w, st, held, ws)
  <2>1. /\ index' = [index EXCEPT ![v] = index[v]] /\ live' = live \cup {v}
    BY Known
  <2>2. Place(v, index[v])
    BY DEF Place
  <2> QED BY <1>1, <2>1, <2>2 DEF Leaving, Leaves
<1>3. WordFile(w) /\ \A r \in Words \ {"TAR_PITCH"} : Asks(s, st = "PLAYING", r, w[r])
  BY <1>1 DEF Fresh, WordFile
<1>4. Sound(s, w, st, held, index[v])
  BY <1>3 DEF Sound
<1>5. "DATA" \notin Words /\ R \subseteq Words /\ Registers = Words \cup {"DATA"}
  BY WordNames DEF Registers, Fresh
<1>6. \A r \in Words \ R : Meets(v, s, st = "PLAYING", held, r, image'[index[v]][r])
  BY <1>1, <1>5 DEF Fresh, Meets
<1>7. \A r \in R : Meets(v, s, st = "PLAYING", held, r, w[r])
  BY <1>5 DEF Fresh, Meets
<1>8. CASE ~base
  <2> DEFINE f == At(R, w)
  <2>1. DOMAIN f = R /\ \A r \in R : f[r] = w[r]
    BY DEF At
  <2> HIDE DEF f
  <2>2. Meets(v, s, st = "PLAYING", held, "DATA", image'[index[v]]["DATA"])
    BY <1>1, <1>5, <1>8 DEF Meets
  <2>3. \A r \in Registers :
          Meets(v, s, st = "PLAYING", held, r, IF r \in DOMAIN f THEN f[r] ELSE image'[index[v]][r])
    BY <1>5, <1>6, <1>7, <2>1, <2>2
  <2>4. Sets(ws, index[v], f) /\ Unlocks(ws)
    BY <1>8 DEF Writes, f
  <2>5. Answers(v, index[v], s, st, held, ws, f)
    BY <2>3, <2>4 DEF Answers
  <2> QED BY <1>2, <1>4, <2>5, CallKeeps
<1>9. CASE base
  <2> DEFINE f == Over(At(R, w), One("DATA", <<v, s.streaming>>))
  <2>1. /\ DOMAIN f = R \cup {"DATA"} /\ f["DATA"] = <<v, s.streaming>>
        /\ \A r \in R : f[r] = w[r]
    BY <1>5 DEF At, Over, One
  <2> HIDE DEF f
  <2>2. Meets(v, s, st = "PLAYING", held, "DATA", f["DATA"])
    BY <1>5, <2>1 DEF Meets
  <2>3. \A r \in Registers :
          Meets(v, s, st = "PLAYING", held, r, IF r \in DOMAIN f THEN f[r] ELSE image'[index[v]][r])
    BY <1>5, <1>6, <1>7, <2>1, <2>2
  <2>4. Sets(ws, index[v], f) /\ Unlocks(ws)
    BY <1>9 DEF Writes, f
  <2>5. Answers(v, index[v], s, st, held, ws, f)
    BY <2>3, <2>4 DEF Answers
  <2> QED BY <1>2, <1>4, <2>5, CallKeeps
<1> QED BY <1>8, <1>9

LEMMA SetterKeeps ==
  ASSUME ImageInv, app' = app, todo = <<>>, NEW v \in live, NEW s \in Settings, NEW w,
         NEW ws, NEW R, Setter(v, s, w, ws), app.quiet => \A u \in live : Stopped(u),
         s.format \in app.formats, s.format.is3d = (index[v] < Max3D),
         s.streaming = asked[v].streaming,
         Fresh(v, s, w, state[v], R), Sets(ws, index[v], At(R, w)), Unlocks(ws)
  PROVE  ImageInv'
<1>1. /\ state[v] \in {"STOPPED", "PLAYING", "STOPPING"} /\ raised = FALSE
      /\ state = [u \in Voices |-> state[u]]
      /\ state[v] = "PLAYING" => v \in holds
      /\ "Submit" \notin app.calls /\ v \in holds => asked[v].streaming
      /\ "Queue" \notin app.calls => ~asked[v].streaming
  BY Known
<1>2. /\ Leaves(v, s, w, ws) /\ UNCHANGED <<live, index, free, image>>
      /\ state' = [state EXCEPT ![v] = state[v]]
      /\ holds' = IF v \in holds THEN holds \cup {v} ELSE holds \ {v}
      /\ raised' = FALSE
      /\ app.quiet => \A u \in live : state'[u] = "STOPPED"
  BY <1>1 DEF Setter, Stopped
<1>3. Writes(v, s, w, ws, R, FALSE)
  BY DEF Writes
<1>4. raised' = FALSE /\ app.quiet => \A u \in live : state'[u] = "STOPPED"
  BY <1>2
<1>5. (v \in holds) \in BOOLEAN /\ FALSE \in BOOLEAN /\ raised' \in BOOLEAN
  <2>1. raised' \in BOOLEAN
    BY <1>2
  <2>2. (v \in holds) \in BOOLEAN
    OBVIOUS
  <2> QED BY <2>1, <2>2
<1>6. "Submit" \notin app.calls /\ v \in holds => s.streaming
  BY <1>1
<1>7. "Queue" \notin app.calls => ~s.streaming
  BY <1>1
<1>8. ~FALSE /\ v \in holds /\ OneKind => v \in holds /\ s.streaming = asked[v].streaming
  OBVIOUS
<1> HIDE DEF Writes, Setter
<1> QED BY <1>1, <1>2, <1>3, <1>4, <1>5, <1>6, <1>7, <1>8, HereKeeps
\* Brackets of two and of three words.
LEMMA TwoSets ==
  ASSUME NEW i \in HwVoices, NEW w, WordFile(w), NEW x \in Words, NEW y \in Words, x # y
  PROVE  /\ Sets(Bracket(i, WordsOf(<<x, y>>, w)), i, At({x, y}, w))
         /\ Unlocks(Bracket(i, WordsOf(<<x, y>>, w)))
<1> DEFINE rs == <<x, y>>
<1>1. /\ rs \in Seq(Words) /\ Len(rs) <= 15
      /\ \A j, l \in 1 .. Len(rs) : rs[j] = rs[l] => j = l
      /\ \A r : r \in {x, y} <=> \E l \in 1 .. Len(rs) : rs[l] = r
  OBVIOUS
<1> HIDE DEF rs
<1>2. /\ Sets(Bracket(i, WordsOf(rs, w)), i, At({x, y}, w))
      /\ Unlocks(Bracket(i, WordsOf(rs, w)))
  BY <1>1, BracketSets
<1> QED BY <1>2 DEF rs

LEMMA ThreeSets ==
  ASSUME NEW i \in HwVoices, NEW w, WordFile(w), NEW x \in Words, NEW y \in Words,
         NEW z \in Words, x # y, x # z, y # z
  PROVE  /\ Sets(Bracket(i, WordsOf(<<x, y, z>>, w)), i, At({x, y, z}, w))
         /\ Unlocks(Bracket(i, WordsOf(<<x, y, z>>, w)))
<1> DEFINE rs == <<x, y, z>>
<1>1. /\ rs \in Seq(Words) /\ Len(rs) <= 15
      /\ \A j, l \in 1 .. Len(rs) : rs[j] = rs[l] => j = l
      /\ \A r : r \in {x, y, z} <=> \E l \in 1 .. Len(rs) : rs[l] = r
  OBVIOUS
<1> HIDE DEF rs
<1>2. /\ Sets(Bracket(i, WordsOf(rs, w)), i, At({x, y, z}, w))
      /\ Unlocks(Bracket(i, WordsOf(rs, w)))
  BY <1>1, BracketSets
<1> QED BY <1>2 DEF rs

LEMMA VolumeSets ==
  ASSUME NEW i \in HwVoices, NEW w, WordFile(w)
  PROVE  /\ Sets(VolumeWrites(i, w), i, At({"TAR_VOLA", "TAR_VOLB", "TAR_VOLC"}, w))
         /\ Unlocks(VolumeWrites(i, w))
BY WordNames, ThreeSets DEF VolumeWrites

LEMMA GainKeeps ==
  ASSUME ImageInv, app' = app, todo = <<>>, app.quiet => \A u \in live : Stopped(u),
         NEW v \in live, NEW k \in Knobs, NEW g \in Gains, VoiceSetGain(v, k, g)
  PROVE  ImageInv'
<1> DEFINE R  == {"TAR_VOLA", "TAR_VOLB", "TAR_VOLC"}
           s  == [asked[v] EXCEPT !.gain[k] = g]
           w  == VolumeWords(s, word[v])
           ws == VolumeWrites(index[v], w)
<1>1. /\ index[v] \in HwVoices /\ asked[v] \in Settings /\ asked[v].format \in app.formats
      /\ asked[v].format.is3d = (index[v] < Max3D) /\ WordFile(word[v])
  BY Known
<1>2. /\ s \in Settings
      /\ s.format = asked[v].format /\ s.streaming = asked[v].streaming
      /\ s.target = asked[v].target /\ s.looping = asked[v].looping
      /\ s.filter = asked[v].filter /\ s.coefficients = asked[v].coefficients
      /\ s.amplitude = asked[v].amplitude /\ s.pitch = asked[v].pitch
  BY <1>1 DEF Settings, Levels
<1>3. Setter(v, s, w, ws)
  BY DEF VoiceSetGain
<1> HIDE DEF s
<1>4. /\ WordFile(w) /\ \A r \in R : w[r] = Volumes(s)
      /\ \A r \in Words \ R : w[r] = word[v][r]
  BY <1>1, <1>2, VolumeWordsGive
<1> HIDE DEF w
<1>6. Sets(ws, index[v], At(R, w)) /\ Unlocks(ws)
  BY <1>1, <1>4, VolumeSets
<1>7. Fresh(v, s, w, state[v], R)
  <2>1. R \subseteq Words
    BY WordNames
  <2>2. \A r \in R : w[r] \in Values(r) /\ Asks(s, state[v] = "PLAYING", r, w[r])
    BY <1>4, <2>1 DEF WordFile, Asks
  <2>3. \A r \in Words \ R : \A x :
          Asks(asked[v], state[v] = "PLAYING", r, x) => Asks(s, state[v] = "PLAYING", r, x)
    BY <1>2 DEF Asks, Pitch
  <2> QED BY <1>4, <2>1, <2>2, <2>3 DEF Fresh, WordFile
<1> HIDE DEF R, ws
<1> QED BY <1>1, <1>2, <1>3, <1>6, <1>7, SetterKeeps
LEMMA TargetKeeps ==
  ASSUME ImageInv, app' = app, todo = <<>>, app.quiet => \A u \in live : Stopped(u),
         NEW v \in live, NEW t \in Targets \cup {NoTarget}, VoiceSetHRTFTarget(v, t)
  PROVE  ImageInv'
<1> DEFINE s  == [asked[v] EXCEPT !.target = t]
           d  == TargetDirty(asked[v].target, t)
           w  == TargetWords(s, word[v], d)
           ws == TargetWrites(index[v], w, d)
           R  == IF d THEN {"TAR_HRTF"} \cup DirtyWords ELSE {"TAR_HRTF"}
<1>1. /\ index[v] \in HwVoices /\ asked[v] \in Settings /\ asked[v].format \in app.formats
      /\ asked[v].format.is3d = (index[v] < Max3D) /\ WordFile(word[v])
      /\ \A r \in Words \ {"TAR_PITCH"} :
           Asks(asked[v], state[v] = "PLAYING", r, word[v][r])
  BY Known
<1>2. /\ s \in Settings /\ s.target = t
      /\ s.format = asked[v].format /\ s.streaming = asked[v].streaming
      /\ s.gain = asked[v].gain /\ s.looping = asked[v].looping
      /\ s.filter = asked[v].filter /\ s.coefficients = asked[v].coefficients
      /\ s.amplitude = asked[v].amplitude /\ s.pitch = asked[v].pitch
  BY <1>1 DEF Settings
<1>3. Setter(v, s, w, ws)
  BY DEF VoiceSetHRTFTarget
<1>4. /\ d \in BOOLEAN
      /\ ~d => Bins(s.target) = Bins(asked[v].target) /\ Volumes(s) = Volumes(asked[v])
  <2>1. d = ((asked[v].target = NoTarget) # (t = NoTarget))
    BY DEF TargetDirty
  <2> HIDE DEF s
  <2> QED BY <1>2, <2>1 DEF Bins, Volumes
<1> HIDE DEF s, d
<1>5. /\ WordFile(w) /\ w["TAR_HRTF"] = s.target
      /\ d => /\ w["CFG_VBIN"] = Bins(s.target)
              /\ w["CFG_FMT"] = [word[v]["CFG_FMT"] EXCEPT !.bins = Bins(s.target)]
              /\ \A r \in {"TAR_VOLA", "TAR_VOLB", "TAR_VOLC"} : w[r] = Volumes(s)
      /\ \A r \in Words \ {"TAR_HRTF"} : ~d \/ r \notin DirtyWords => w[r] = word[v][r]
  BY <1>1, <1>2, <1>4, TargetWordsGive
<1> HIDE DEF w
<1>6. Sets(ws, index[v], At(R, w)) /\ Unlocks(ws)
  BY <1>1, <1>4, <1>5, TargetSets
<1>7. Fresh(v, s, w, state[v], R)
  <2>1. R \subseteq Words
    BY WordNames DEF DirtyWords
  <2>2. \A r \in R : w[r] \in Values(r)
    BY <1>5, <2>1 DEF WordFile
  <2>3. Asks(s, state[v] = "PLAYING", "TAR_HRTF", w["TAR_HRTF"])
    BY <1>5 DEF Asks
  <2>4. ASSUME d
        PROVE  \A r \in DirtyWords : Asks(s, state[v] = "PLAYING", r, w[r])
    <3>1. Asks(asked[v], state[v] = "PLAYING", "CFG_FMT", word[v]["CFG_FMT"])
      BY <1>1, WordNames
    <3>2. Asks(s, state[v] = "PLAYING", "CFG_FMT", w["CFG_FMT"])
      <4>1. word[v]["CFG_FMT"] \in [rate : Rates, stream : BOOLEAN, bins : BinSets,
                                    persist : BOOLEAN, loop : BOOLEAN]
        BY <1>1, WordNames, ValuesAre DEF WordFile
      <4> QED BY <1>2, <1>5, <2>4, <3>1, <4>1 DEF Asks
    <3>3. \A r \in {"TAR_VOLA", "TAR_VOLB", "TAR_VOLC"} :
            Asks(s, state[v] = "PLAYING", r, w[r])
      BY <1>5, <2>4 DEF Asks
    <3>4. Asks(s, state[v] = "PLAYING", "CFG_VBIN", w["CFG_VBIN"])
      BY <1>5, <2>4 DEF Asks
    <3> QED BY <3>2, <3>3, <3>4 DEF DirtyWords
  <2>5. \A r \in R : Asks(s, state[v] = "PLAYING", r, w[r])
    BY <2>3, <2>4
  <2>6. \A r \in Words \ R : w[r] = word[v][r]
    BY <1>5
  <2>7. ASSUME NEW r \in Words \ R, NEW x, Asks(asked[v], state[v] = "PLAYING", r, x)
        PROVE  Asks(s, state[v] = "PLAYING", r, x)
    <3>1. CASE d
      BY <1>2, <2>7, <3>1 DEF Asks, Pitch, DirtyWords
    <3>2. CASE ~d
      BY <1>2, <1>4, <2>7, <3>2 DEF Asks, Pitch
    <3> QED BY <3>1, <3>2
  <2> QED BY <1>5, <2>1, <2>2, <2>5, <2>6, <2>7 DEF Fresh, WordFile
<1> HIDE DEF R, ws
<1> QED BY <1>1, <1>2, <1>3, <1>6, <1>7, SetterKeeps

LEMMA LoopingKeeps ==
  ASSUME ImageInv, app' = app, todo = <<>>, app.quiet => \A u \in live : Stopped(u),
         NEW v \in live, NEW b \in BOOLEAN, VoiceSetLooping(v, b)
  PROVE  ImageInv'
<1> DEFINE s  == [asked[v] EXCEPT !.looping = b]
           c  == [word[v]["CFG_FMT"] EXCEPT !.loop = b]
           w  == [word[v] EXCEPT !["CFG_FMT"].loop = b]
           ws == Bracket(index[v], WordsOf(<<"CFG_FMT">>, w))
<1>1. /\ index[v] \in HwVoices /\ asked[v] \in Settings /\ asked[v].format \in app.formats
      /\ asked[v].format.is3d = (index[v] < Max3D) /\ WordFile(word[v])
      /\ \A r \in Words \ {"TAR_PITCH"} :
           Asks(asked[v], state[v] = "PLAYING", r, word[v][r])
  BY Known
<1>2. /\ s \in Settings /\ s.looping = b
      /\ s.format = asked[v].format /\ s.streaming = asked[v].streaming
      /\ s.gain = asked[v].gain /\ s.target = asked[v].target
      /\ s.filter = asked[v].filter /\ s.coefficients = asked[v].coefficients
      /\ s.amplitude = asked[v].amplitude /\ s.pitch = asked[v].pitch
  BY <1>1 DEF Settings
<1>3. Setter(v, s, w, ws)
  BY DEF VoiceSetLooping
<1>4. "CFG_FMT" \in Words /\ "CFG_FMT" # "TAR_PITCH"
  BY WordNames
<1>5. /\ word[v]["CFG_FMT"] \in Values("CFG_FMT") /\ word[v] = [r \in Words |-> word[v][r]]
      /\ Asks(asked[v], state[v] = "PLAYING", "CFG_FMT", word[v]["CFG_FMT"])
  BY <1>1, <1>4 DEF WordFile
<1>6. /\ w = [r \in Words |-> w[r]] /\ w["CFG_FMT"] = c
      /\ \A r \in Words \ {"CFG_FMT"} : w[r] = word[v][r]
  BY <1>4, <1>5
<1> HIDE DEF s, w
<1>7. c \in Values("CFG_FMT") /\ c.loop = b /\ c.rate = word[v]["CFG_FMT"].rate
      /\ c.stream = word[v]["CFG_FMT"].stream /\ c.bins = word[v]["CFG_FMT"].bins
      /\ c.persist = word[v]["CFG_FMT"].persist
  <2>1. word[v]["CFG_FMT"] \in [rate : Rates, stream : BOOLEAN, bins : BinSets,
                                persist : BOOLEAN, loop : BOOLEAN]
    BY <1>5, ValuesAre
  <2>2. asked[v].format.rate \in Rates /\ "2D" \in BinSets
    BY <1>1, SettingsGive DEF BinSets
  <2>3. c \in Values("CFG_FMT")
    BY <1>5, <2>2, FormatRecord
  <2> QED BY <2>1, <2>3
<1> HIDE DEF c
<1>8. WordFile(w)
  BY <1>1, <1>6, <1>7 DEF WordFile
<1>9. Sets(ws, index[v], Fmt(w)) /\ Unlocks(ws)
  BY <1>1, <1>8, FmtSets
<1>10. Fresh(v, s, w, state[v], {"CFG_FMT"})
  <2>1. Asks(s, state[v] = "PLAYING", "CFG_FMT", w["CFG_FMT"])
    BY <1>2, <1>5, <1>6, <1>7 DEF Asks
  <2>2. \A r \in Words \ {"CFG_FMT"} : \A x :
          Asks(asked[v], state[v] = "PLAYING", r, x) => Asks(s, state[v] = "PLAYING", r, x)
    BY <1>2 DEF Asks, Pitch, Volumes
  <2> QED BY <1>4, <1>6, <1>7, <2>1, <2>2 DEF Fresh
<1> HIDE DEF ws
<1> QED BY <1>1, <1>2, <1>3, <1>9, <1>10, SetterKeeps DEF Fmt
LEMMA AmplitudeKeeps ==
  ASSUME ImageInv, app' = app, todo = <<>>, app.quiet => \A u \in live : Stopped(u),
         NEW v \in live, NEW e \in Params, VoiceSetAmplitudeEnvelope(v, e)
  PROVE  ImageInv'
<1> DEFINE R  == {"CFG_ENV0", "CFG_ENVA", "LFO_ENV"}
           s  == [asked[v] EXCEPT !.amplitude = e]
           w  == [word[v] EXCEPT !["CFG_ENV0"] = e, !["CFG_ENVA"] = e, !["LFO_ENV"] = e]
           ws == Bracket(index[v], WordsOf(<<"CFG_ENV0", "CFG_ENVA", "LFO_ENV">>, w))
<1>1. /\ index[v] \in HwVoices /\ asked[v] \in Settings /\ asked[v].format \in app.formats
      /\ asked[v].format.is3d = (index[v] < Max3D) /\ WordFile(word[v])
      /\ \A r \in Words \ {"TAR_PITCH"} :
           Asks(asked[v], state[v] = "PLAYING", r, word[v][r])
  BY Known
<1>2. /\ s \in Settings /\ s.amplitude = e
      /\ s.format = asked[v].format /\ s.streaming = asked[v].streaming
      /\ s.gain = asked[v].gain /\ s.target = asked[v].target
      /\ s.looping = asked[v].looping /\ s.pitch = asked[v].pitch
      /\ s.filter = asked[v].filter /\ s.coefficients = asked[v].coefficients
  BY <1>1 DEF Settings
<1>3. Setter(v, s, w, ws)
  BY DEF VoiceSetAmplitudeEnvelope
<1>4. R \subseteq Words /\ "TAR_PITCH" \notin R
  BY WordNames
<1>5. word[v] = [r \in Words |-> word[v][r]] /\ \A r \in Words : word[v][r] \in Values(r)
  BY <1>1 DEF WordFile
<1>6. /\ w = [r \in Words |-> w[r]]
      /\ \A r \in R : w[r] = e
      /\ \A r \in Words \ R : w[r] = word[v][r]
  BY <1>4, <1>5
<1> HIDE DEF s, w
<1>7. \A r \in R : w[r] \in Values(r)
  BY <1>4, <1>5, <1>6, ValuesAre
<1>8. WordFile(w)
  BY <1>5, <1>6, <1>7 DEF WordFile
<1>9. Sets(ws, index[v], At(R, w)) /\ Unlocks(ws)
  BY <1>1, <1>4, <1>8, ThreeSets
<1>10. Fresh(v, s, w, state[v], R)
  <2>1. \A r \in R : Asks(s, state[v] = "PLAYING", r, w[r])
    BY <1>2, <1>6 DEF Asks
  <2>2. \A r \in Words \ R : \A x :
          Asks(asked[v], state[v] = "PLAYING", r, x) => Asks(s, state[v] = "PLAYING", r, x)
    BY <1>2 DEF Asks, Pitch, Volumes
  <2> QED BY <1>4, <1>6, <1>7, <2>1, <2>2 DEF Fresh
<1> HIDE DEF ws, R
<1> QED BY <1>1, <1>2, <1>3, <1>9, <1>10, SetterKeeps

LEMMA FilterKeeps ==
  ASSUME ImageInv, app' = app, todo = <<>>, app.quiet => \A u \in live : Stopped(u),
         NEW v \in live, NEW e \in Params, VoiceSetFilterEnvelope(v, e)
  PROVE  ImageInv'
<1> DEFINE R  == {"CFG_ENV1", "CFG_ENVF", "CFG_MISC"}
           s  == [asked[v] EXCEPT !.filter = e]
           w  == [word[v] EXCEPT !["CFG_ENV1"] = e, !["CFG_ENVF"] = e,
                              !["CFG_MISC"].release = e]
           ws == Bracket(index[v], WordsOf(<<"CFG_ENV1", "CFG_ENVF", "CFG_MISC">>, w))
<1>1. /\ index[v] \in HwVoices /\ asked[v] \in Settings /\ asked[v].format \in app.formats
      /\ asked[v].format.is3d = (index[v] < Max3D) /\ WordFile(word[v])
      /\ \A r \in Words \ {"TAR_PITCH"} :
           Asks(asked[v], state[v] = "PLAYING", r, word[v][r])
  BY Known
<1>2. /\ s \in Settings /\ s.filter = e
      /\ s.format = asked[v].format /\ s.streaming = asked[v].streaming
      /\ s.gain = asked[v].gain /\ s.target = asked[v].target
      /\ s.looping = asked[v].looping /\ s.pitch = asked[v].pitch
      /\ s.amplitude = asked[v].amplitude /\ s.coefficients = asked[v].coefficients
  BY <1>1 DEF Settings
<1>3. Setter(v, s, w, ws)
  BY DEF VoiceSetFilterEnvelope
<1>4. R \subseteq Words /\ "TAR_PITCH" \notin R
  BY WordNames
<1>5. word[v] = [r \in Words |-> word[v][r]] /\ \A r \in Words : word[v][r] \in Values(r)
  BY <1>1 DEF WordFile
<1>6. /\ w = [r \in Words |-> w[r]]
      /\ w["CFG_ENV1"] = e /\ w["CFG_ENVF"] = e
      /\ w["CFG_MISC"] = [word[v]["CFG_MISC"] EXCEPT !.release = e]
      /\ \A r \in Words \ R : w[r] = word[v][r]
  BY <1>4, <1>5
<1> HIDE DEF s, w
<1>7. \A r \in R : w[r] \in Values(r)
  <2> DEFINE V == [release : Params \cup {Zero}, mode : Params \cup {Zero}]
  <2>1. word[v]["CFG_MISC"] \in V
    BY <1>4, <1>5, ValuesAre
  <2>2. w["CFG_MISC"] \in V
    BY <1>6, <2>1
  <2> HIDE DEF V
  <2>3. Values("CFG_MISC") = V
    BY ValuesAre DEF V
  <2> QED BY <1>6, <2>2, <2>3, ValuesAre
<1>8. WordFile(w)
  BY <1>5, <1>6, <1>7 DEF WordFile
<1>9. Sets(ws, index[v], At(R, w)) /\ Unlocks(ws)
  BY <1>1, <1>4, <1>8, ThreeSets
<1>10. Fresh(v, s, w, state[v], R)
  <2>1. \A r \in R : Asks(s, state[v] = "PLAYING", r, w[r])
    <3>1. /\ Asks(asked[v], state[v] = "PLAYING", "CFG_MISC", word[v]["CFG_MISC"])
          /\ word[v]["CFG_MISC"] \in [release : Params \cup {Zero}, mode : Params \cup {Zero}]
      BY <1>1, <1>4, <1>5, ValuesAre
    <3>2. Asks(s, state[v] = "PLAYING", "CFG_MISC", w["CFG_MISC"])
      BY <1>2, <1>6, <3>1 DEF Asks
    <3> QED BY <1>2, <1>6, <3>2 DEF Asks
  <2>2. \A r \in Words \ R : \A x :
          Asks(asked[v], state[v] = "PLAYING", r, x) => Asks(s, state[v] = "PLAYING", r, x)
    BY <1>2 DEF Asks, Pitch, Volumes
  <2> QED BY <1>4, <1>6, <1>7, <2>1, <2>2 DEF Fresh
<1> HIDE DEF ws, R
<1> QED BY <1>1, <1>2, <1>3, <1>9, <1>10, SetterKeeps

LEMMA CoefficientsKeeps ==
  ASSUME ImageInv, app' = app, todo = <<>>, app.quiet => \A u \in live : Stopped(u),
         NEW v \in live, NEW e \in Params, VoiceSetFilterCoefficients(v, e)
  PROVE  ImageInv'
<1> DEFINE R  == {"TAR_FCA", "TAR_FCB", "CFG_MISC"}
           s  == [asked[v] EXCEPT !.coefficients = e]
           w  == [word[v] EXCEPT !["TAR_FCA"] = e, !["TAR_FCB"] = e,
                              !["CFG_MISC"].mode = e]
           ws == Bracket(index[v], WordsOf(<<"TAR_FCA", "TAR_FCB", "CFG_MISC">>, w))
<1>1. /\ index[v] \in HwVoices /\ asked[v] \in Settings /\ asked[v].format \in app.formats
      /\ asked[v].format.is3d = (index[v] < Max3D) /\ WordFile(word[v])
      /\ \A r \in Words \ {"TAR_PITCH"} :
           Asks(asked[v], state[v] = "PLAYING", r, word[v][r])
  BY Known
<1>2. /\ s \in Settings /\ s.coefficients = e
      /\ s.format = asked[v].format /\ s.streaming = asked[v].streaming
      /\ s.gain = asked[v].gain /\ s.target = asked[v].target
      /\ s.looping = asked[v].looping /\ s.pitch = asked[v].pitch
      /\ s.filter = asked[v].filter /\ s.amplitude = asked[v].amplitude
  BY <1>1 DEF Settings
<1>3. Setter(v, s, w, ws)
  BY DEF VoiceSetFilterCoefficients
<1>4. R \subseteq Words /\ "TAR_PITCH" \notin R
  BY WordNames
<1>5. word[v] = [r \in Words |-> word[v][r]] /\ \A r \in Words : word[v][r] \in Values(r)
  BY <1>1 DEF WordFile
<1>6. /\ w = [r \in Words |-> w[r]]
      /\ w["TAR_FCA"] = e /\ w["TAR_FCB"] = e
      /\ w["CFG_MISC"] = [word[v]["CFG_MISC"] EXCEPT !.mode = e]
      /\ \A r \in Words \ R : w[r] = word[v][r]
  BY <1>4, <1>5
<1> HIDE DEF s, w
<1>7. \A r \in R : w[r] \in Values(r)
  <2> DEFINE V == [release : Params \cup {Zero}, mode : Params \cup {Zero}]
  <2>1. word[v]["CFG_MISC"] \in V
    BY <1>4, <1>5, ValuesAre
  <2>2. w["CFG_MISC"] \in V
    BY <1>6, <2>1
  <2> HIDE DEF V
  <2>3. Values("CFG_MISC") = V
    BY ValuesAre DEF V
  <2> QED BY <1>6, <2>2, <2>3, ValuesAre
<1>8. WordFile(w)
  BY <1>5, <1>6, <1>7 DEF WordFile
<1>9. Sets(ws, index[v], At(R, w)) /\ Unlocks(ws)
  BY <1>1, <1>4, <1>8, ThreeSets
<1>10. Fresh(v, s, w, state[v], R)
  <2>1. \A r \in R : Asks(s, state[v] = "PLAYING", r, w[r])
    <3>1. /\ Asks(asked[v], state[v] = "PLAYING", "CFG_MISC", word[v]["CFG_MISC"])
          /\ word[v]["CFG_MISC"] \in [release : Params \cup {Zero}, mode : Params \cup {Zero}]
      BY <1>1, <1>4, <1>5, ValuesAre
    <3>2. Asks(s, state[v] = "PLAYING", "CFG_MISC", w["CFG_MISC"])
      BY <1>2, <1>6, <3>1 DEF Asks
    <3> QED BY <1>2, <1>6, <3>2 DEF Asks
  <2>2. \A r \in Words \ R : \A x :
          Asks(asked[v], state[v] = "PLAYING", r, x) => Asks(s, state[v] = "PLAYING", r, x)
    BY <1>2 DEF Asks, Pitch, Volumes
  <2> QED BY <1>4, <1>6, <1>7, <2>1, <2>2 DEF Fresh
<1> HIDE DEF ws, R
<1> QED BY <1>1, <1>2, <1>3, <1>9, <1>10, SetterKeeps

LEMMA PitchKeeps ==
  ASSUME ImageInv, app' = app, todo = <<>>, app.quiet => \A u \in live : Stopped(u),
         NEW v \in live, NEW p \in Pitches, VoiceSetPitch(v, p)
  PROVE  ImageInv'
<1> DEFINE s  == [asked[v] EXCEPT !.pitch = p]
           w  == word[v]
           ws == PitchWrites(index[v], s)
           st == state[v]
           f  == One("TAR_PITCH", Pitch(s))
<1>1. /\ v \in app.voices /\ index[v] \in HwVoices /\ asked[v] \in Settings
      /\ asked[v].format \in app.formats /\ raised = FALSE
      /\ asked[v].format.is3d = (index[v] < Max3D) /\ WordFile(word[v])
      /\ index = [u \in Voices |-> index[u]] /\ state = [u \in Voices |-> state[u]]
      /\ state[v] \in {"STOPPED", "PLAYING", "STOPPING"}
      /\ state[v] = "PLAYING" => v \in holds
      /\ "Submit" \notin app.calls /\ v \in holds => asked[v].streaming
      /\ "Queue" \notin app.calls => ~asked[v].streaming
      /\ \A r \in Words \ {"TAR_PITCH"} :
           Asks(asked[v], state[v] = "PLAYING", r, word[v][r])
      /\ \A r \in Registers : Meets(v, asked[v], state[v] = "PLAYING", v \in holds, r,
                                    image[index[v]][r])
  BY Known
<1>2. /\ s \in Settings
      /\ s.format = asked[v].format /\ s.streaming = asked[v].streaming
      /\ s.gain = asked[v].gain /\ s.target = asked[v].target
      /\ s.looping = asked[v].looping /\ s.filter = asked[v].filter
      /\ s.coefficients = asked[v].coefficients /\ s.amplitude = asked[v].amplitude
  BY <1>1 DEF Settings
<1>3. Setter(v, s, w, ws)
  BY DEF VoiceSetPitch
<1> HIDE DEF s
<1>4. Pitch(s) \in Values("TAR_PITCH")
  BY <1>2, SettingsGive
<1>5. Sets(ws, index[v], f) /\ Unlocks(ws)
  BY <1>1, <1>4, PitchSets
<1>6. \A r \in Words \ {"TAR_PITCH"} : \A x :
        Asks(asked[v], st = "PLAYING", r, x) => Asks(s, st = "PLAYING", r, x)
  BY <1>2 DEF Asks, Volumes
<1>7. Sound(s, w, st, v \in holds, index[v])
  BY <1>1, <1>2, <1>6 DEF Sound
<1>8. DOMAIN f = {"TAR_PITCH"} /\ f["TAR_PITCH"] = Pitch(s)
  BY DEF One
<1> HIDE DEF ws, f
<1>9. Leaving(v, index[v], s, w, st, v \in holds, ws) /\ raised' = FALSE
  <2>1. Place(v, index[v])
    BY <1>3 DEF Place, Setter
  <2>2. holds' = IF v \in holds THEN holds \cup {v} ELSE holds \ {v}
    BY <1>3 DEF Setter
  <2>3. index' = [index EXCEPT ![v] = index[v]] /\ state' = [state EXCEPT ![v] = st]
    BY <1>1, <1>3 DEF Setter
  <2> QED BY <1>1, <1>3, <2>1, <2>2, <2>3 DEF Setter, Leaves, Leaving, Stopped
<1>10. Answers(v, index[v], s, st, v \in holds, ws, f)
  <2>1. \A r \in Registers : r # "TAR_PITCH" =>
          Meets(v, s, st = "PLAYING", v \in holds, r, image[index[v]][r])
    BY <1>1, <1>2, <1>6 DEF Meets
  <2>2. Meets(v, s, st = "PLAYING", v \in holds, "TAR_PITCH", f["TAR_PITCH"])
    BY <1>4, <1>8 DEF Meets, Asks
  <2>3. image' = image
    BY <1>3 DEF Setter
  <2> QED BY <1>5, <1>8, <2>1, <2>2, <2>3 DEF Answers
<1>11. (v \in holds) \in BOOLEAN
  OBVIOUS
<1>12. raised' \in BOOLEAN
  BY <1>9
<1> HIDE DEF w, st
<1> QED BY <1>7, <1>9, <1>10, <1>11, <1>12, CallKeeps
\* The calls that write the word of the format alone.
LEMMA FmtFresh ==
  ASSUME ImageInv, todo = <<>>, app' = app, NEW v \in live, NEW s \in Settings, NEW w, NEW st,
         s.format = asked[v].format, s.target = asked[v].target, s.gain = asked[v].gain,
         s.pitch = asked[v].pitch, s.filter = asked[v].filter,
         s.coefficients = asked[v].coefficients, s.amplitude = asked[v].amplitude,
         w = [r \in Words |-> w[r]], \A r \in Words \ {"CFG_FMT"} : w[r] = word[v][r],
         w["CFG_FMT"] \in Values("CFG_FMT"),
         w["CFG_FMT"].rate = word[v]["CFG_FMT"].rate,
         w["CFG_FMT"].bins = word[v]["CFG_FMT"].bins,
         w["CFG_FMT"].stream = s.streaming,
         st = "PLAYING" => /\ w["CFG_FMT"].loop = s.looping
                           /\ w["CFG_FMT"].persist = s.streaming
  PROVE  WordFile(w) /\ Fresh(v, s, w, st, {"CFG_FMT"})
<1>1. /\ WordFile(word[v])
      /\ \A r \in Words \ {"TAR_PITCH"} :
           Asks(asked[v], state[v] = "PLAYING", r, word[v][r])
  BY Known
<1>2. "CFG_FMT" \in Words /\ "CFG_FMT" # "TAR_PITCH"
  BY WordNames
<1>3. Asks(s, st = "PLAYING", "CFG_FMT", w["CFG_FMT"])
  BY <1>1, <1>2 DEF Asks
<1>4. \A r \in Words \ {"CFG_FMT"} : \A x :
        Asks(asked[v], state[v] = "PLAYING", r, x) => Asks(s, st = "PLAYING", r, x)
  BY DEF Asks, Pitch, Volumes
<1> QED BY <1>1, <1>2, <1>3, <1>4 DEF Fresh, WordFile

LEMMA StartKeeps ==
  ASSUME ImageInv, app' = app, todo = <<>>, NEW v \in live, VoiceStart(v)
  PROVE  ImageInv'
<1> DEFINE s    == asked[v]
           c    == [word[v]["CFG_FMT"] EXCEPT !.persist = asked[v].streaming, !.loop = asked[v].looping]
           w    == [word[v] EXCEPT !["CFG_FMT"].persist = asked[v].streaming,
                             !["CFG_FMT"].loop = asked[v].looping]
           st   == "PLAYING"
           held == v \in holds
           ws   == <<Wait(7)>> \o LockedGroup(index[v],
                     WordsOf(<<"CFG_FMT">>, w) \o <<<<"ANTECEDENT_VOICE", Zero>>,
                       <<"VOICE_ON", index[v]>>, <<"VOICE_PAUSE", index[v]>>>>)
<1>1. /\ index[v] \in HwVoices /\ asked[v] \in Settings /\ asked[v].format \in app.formats
      /\ v \in Voices /\ asked[v].format.is3d = (index[v] < Max3D) /\ WordFile(word[v])
      /\ state[v] \in {"STOPPED", "PLAYING", "STOPPING"}
      /\ state = [u \in Voices |-> state[u]] /\ raised = FALSE
      /\ state[v] = "PLAYING" => v \in holds
      /\ "Submit" \notin app.calls /\ v \in holds => asked[v].streaming
      /\ "Queue" \notin app.calls => ~asked[v].streaming
      /\ \A r \in Words \ {"TAR_PITCH"} :
           Asks(asked[v], state[v] = "PLAYING", r, word[v][r])
  BY Known
<1>2. /\ s \in Settings /\ s.streaming = asked[v].streaming /\ s.looping = asked[v].looping
      /\ s.format = asked[v].format /\ s.pitch = asked[v].pitch
      /\ s.gain = asked[v].gain /\ s.target = asked[v].target
      /\ s.filter = asked[v].filter /\ s.coefficients = asked[v].coefficients
      /\ s.amplitude = asked[v].amplitude
  BY <1>1 DEF Settings
<1>3. "CFG_FMT" \in Words /\ "CFG_FMT" # "TAR_PITCH"
  BY WordNames
<1>4. /\ word[v]["CFG_FMT"] \in Values("CFG_FMT") /\ word[v] = [r \in Words |-> word[v][r]]
      /\ Asks(asked[v], state[v] = "PLAYING", "CFG_FMT", word[v]["CFG_FMT"])
  BY <1>1, <1>3 DEF WordFile
<1>5. /\ w = [r \in Words |-> w[r]] /\ w["CFG_FMT"] = c
      /\ \A r \in Words \ {"CFG_FMT"} : w[r] = word[v][r]
  BY <1>3, <1>4
<1>6. /\ c \in Values("CFG_FMT") /\ c.rate = word[v]["CFG_FMT"].rate
      /\ c.bins = word[v]["CFG_FMT"].bins
      /\ c.stream = word[v]["CFG_FMT"].stream /\ c.persist = asked[v].streaming
      /\ c.loop = asked[v].looping
  <2>1. word[v]["CFG_FMT"] \in [rate : Rates, stream : BOOLEAN, bins : BinSets,
                                persist : BOOLEAN, loop : BOOLEAN]
    BY <1>4, ValuesAre
  <2>2. /\ asked[v].format.rate \in Rates /\ "2D" \in BinSets
        /\ asked[v].streaming \in BOOLEAN /\ asked[v].looping \in BOOLEAN
    BY <1>1, SettingsGive DEF BinSets, Settings
  <2>3. c \in Values("CFG_FMT")
    BY <1>4, <2>2, FormatRecord
  <2> QED BY <2>1, <2>3
<1>7. /\ v \in holds /\ holds' = holds /\ state' = [state EXCEPT ![v] = st]
      /\ Raised(v, s, w, ws)
  BY DEF VoiceStart, MayStart
<1>8. st = "PLAYING" => c.loop = s.looping /\ c.persist = s.streaming
  BY <1>6
<1>9. c.stream = s.streaming
  BY <1>4, <1>6 DEF Asks
<1> HIDE DEF s, c, w
<1>10. WordFile(w) /\ Fresh(v, s, w, st, {"CFG_FMT"})
  BY <1>2, <1>5, <1>6, <1>8, <1>9, FmtFresh
<1>11. Sets(ws, index[v], Fmt(w)) /\ Unlocks(ws)
  BY <1>1, <1>10, StartSets
<1>12. Writes(v, s, w, ws, {"CFG_FMT"}, FALSE)
  BY <1>11 DEF Writes, Fmt
<1>13. /\ UNCHANGED <<live, index, free, image>> /\ raised' = TRUE
       /\ Leaves(v, s, w, ws)
  BY <1>7 DEF Raised
<1>14. raised' \in BOOLEAN /\ held \in BOOLEAN /\ FALSE \in BOOLEAN
  <2>1. raised' \in BOOLEAN
    BY <1>13
  <2>2. (v \in holds) \in BOOLEAN
    OBVIOUS
  <2> QED BY <2>1, <2>2
<1>15. state' = [state EXCEPT ![v] = st] /\ st \in {"STOPPED", "PLAYING", "STOPPING"}
  BY <1>7
<1>16. /\ holds' = IF held THEN holds \cup {v} ELSE holds \ {v}
       /\ st = "PLAYING" => held
       /\ "Submit" \notin app.calls /\ held => s.streaming
       /\ "Queue" \notin app.calls => ~s.streaming
       /\ ~FALSE /\ held /\ OneKind => v \in holds /\ s.streaming = asked[v].streaming
  BY <1>1, <1>2, <1>7
<1>17. raised' = FALSE /\ app.quiet => \A u \in live : state'[u] = "STOPPED"
  BY <1>13
<1> HIDE DEF st, held, ws
<1> QED BY <1>1, <1>2, <1>10, <1>12, <1>13, <1>14, <1>15, <1>16, <1>17, HereKeeps

LEMMA ReleaseKeeps ==
  ASSUME ImageInv, app' = app, todo = <<>>, NEW v \in live, VoiceRelease(v)
  PROVE  ImageInv'
<1> DEFINE s    == asked[v]
           c    == [word[v]["CFG_FMT"] EXCEPT !.persist = FALSE]
           w    == [word[v] EXCEPT !["CFG_FMT"].persist = FALSE]
           st   == "STOPPING"
           held == v \in holds
           ws   == <<Wait(5)>> \o Tail(FmtBracket(v, w)) \o <<<<"VOICE_RELEASE", index[v]>>>>
<1>1. /\ index[v] \in HwVoices /\ asked[v] \in Settings /\ asked[v].format \in app.formats
      /\ v \in Voices /\ asked[v].format.is3d = (index[v] < Max3D) /\ WordFile(word[v])
      /\ state[v] \in {"STOPPED", "PLAYING", "STOPPING"}
      /\ state = [u \in Voices |-> state[u]] /\ raised = FALSE
      /\ state[v] = "PLAYING" => v \in holds
      /\ "Submit" \notin app.calls /\ v \in holds => asked[v].streaming
      /\ "Queue" \notin app.calls => ~asked[v].streaming
      /\ \A r \in Words \ {"TAR_PITCH"} :
           Asks(asked[v], state[v] = "PLAYING", r, word[v][r])
  BY Known
<1>2. /\ s \in Settings /\ s.streaming = asked[v].streaming /\ s.looping = asked[v].looping
      /\ s.format = asked[v].format /\ s.pitch = asked[v].pitch
      /\ s.gain = asked[v].gain /\ s.target = asked[v].target
      /\ s.filter = asked[v].filter /\ s.coefficients = asked[v].coefficients
      /\ s.amplitude = asked[v].amplitude
  BY <1>1 DEF Settings
<1>3. "CFG_FMT" \in Words /\ "CFG_FMT" # "TAR_PITCH"
  BY WordNames
<1>4. /\ word[v]["CFG_FMT"] \in Values("CFG_FMT") /\ word[v] = [r \in Words |-> word[v][r]]
      /\ Asks(asked[v], state[v] = "PLAYING", "CFG_FMT", word[v]["CFG_FMT"])
  BY <1>1, <1>3 DEF WordFile
<1>5. /\ w = [r \in Words |-> w[r]] /\ w["CFG_FMT"] = c
      /\ \A r \in Words \ {"CFG_FMT"} : w[r] = word[v][r]
  BY <1>3, <1>4
<1>6. /\ c \in Values("CFG_FMT") /\ c.rate = word[v]["CFG_FMT"].rate
      /\ c.bins = word[v]["CFG_FMT"].bins
      /\ c.stream = word[v]["CFG_FMT"].stream
  <2>1. word[v]["CFG_FMT"] \in [rate : Rates, stream : BOOLEAN, bins : BinSets,
                                persist : BOOLEAN, loop : BOOLEAN]
    BY <1>4, ValuesAre
  <2>2. /\ asked[v].format.rate \in Rates /\ "2D" \in BinSets
        /\ asked[v].streaming \in BOOLEAN /\ asked[v].looping \in BOOLEAN
    BY <1>1, SettingsGive DEF BinSets, Settings
  <2>3. c \in Values("CFG_FMT")
    BY <1>4, <2>2, FormatRecord
  <2> QED BY <2>1, <2>3
<1>7. /\ holds' = holds /\ state' = [state EXCEPT ![v] = st]
      /\ Raised(v, s, w, ws)
  BY DEF VoiceRelease
<1>8. st = "PLAYING" => c.loop = s.looping /\ c.persist = s.streaming
  OBVIOUS
<1>9. c.stream = s.streaming
  BY <1>4, <1>6 DEF Asks
<1> HIDE DEF s, c, w
<1>10. WordFile(w) /\ Fresh(v, s, w, st, {"CFG_FMT"})
  BY <1>2, <1>5, <1>6, <1>8, <1>9, FmtFresh
<1>11. Sets(ws, index[v], Fmt(w)) /\ Unlocks(ws)
  BY <1>1, <1>10, StopSets DEF FmtBracket
<1>12. Writes(v, s, w, ws, {"CFG_FMT"}, FALSE)
  BY <1>11 DEF Writes, Fmt
<1>13. /\ UNCHANGED <<live, index, free, image>> /\ raised' = TRUE
       /\ Leaves(v, s, w, ws)
  BY <1>7 DEF Raised
<1>14. raised' \in BOOLEAN /\ held \in BOOLEAN /\ FALSE \in BOOLEAN
  <2>1. raised' \in BOOLEAN
    BY <1>13
  <2>2. (v \in holds) \in BOOLEAN
    OBVIOUS
  <2> QED BY <2>1, <2>2
<1>15. state' = [state EXCEPT ![v] = st] /\ st \in {"STOPPED", "PLAYING", "STOPPING"}
  BY <1>7
<1>16. /\ holds' = IF held THEN holds \cup {v} ELSE holds \ {v}
       /\ st = "PLAYING" => held
       /\ "Submit" \notin app.calls /\ held => s.streaming
       /\ "Queue" \notin app.calls => ~s.streaming
       /\ ~FALSE /\ held /\ OneKind => v \in holds /\ s.streaming = asked[v].streaming
  BY <1>1, <1>2, <1>7
<1>17. raised' = FALSE /\ app.quiet => \A u \in live : state'[u] = "STOPPED"
  BY <1>13
<1> HIDE DEF st, held, ws
<1> QED BY <1>1, <1>2, <1>10, <1>12, <1>13, <1>14, <1>15, <1>16, <1>17, HereKeeps

LEMMA StopKeeps ==
  ASSUME ImageInv, app' = app, todo = <<>>, NEW v \in live, VoiceStop(v)
  PROVE  ImageInv'
<1> DEFINE s    == asked[v]
           c    == [word[v]["CFG_FMT"] EXCEPT !.persist = FALSE, !.loop = FALSE]
           w    == [word[v] EXCEPT !["CFG_FMT"].persist = FALSE, !["CFG_FMT"].loop = FALSE]
           st   == "STOPPING"
           held == v \in holds
           ws   == <<Wait(5)>> \o Tail(FmtBracket(v, w)) \o <<<<"VOICE_OFF", index[v]>>>>
<1>1. /\ index[v] \in HwVoices /\ asked[v] \in Settings /\ asked[v].format \in app.formats
      /\ v \in Voices /\ asked[v].format.is3d = (index[v] < Max3D) /\ WordFile(word[v])
      /\ state[v] \in {"STOPPED", "PLAYING", "STOPPING"}
      /\ state = [u \in Voices |-> state[u]] /\ raised = FALSE
      /\ state[v] = "PLAYING" => v \in holds
      /\ "Submit" \notin app.calls /\ v \in holds => asked[v].streaming
      /\ "Queue" \notin app.calls => ~asked[v].streaming
      /\ \A r \in Words \ {"TAR_PITCH"} :
           Asks(asked[v], state[v] = "PLAYING", r, word[v][r])
  BY Known
<1>2. /\ s \in Settings /\ s.streaming = asked[v].streaming /\ s.looping = asked[v].looping
      /\ s.format = asked[v].format /\ s.pitch = asked[v].pitch
      /\ s.gain = asked[v].gain /\ s.target = asked[v].target
      /\ s.filter = asked[v].filter /\ s.coefficients = asked[v].coefficients
      /\ s.amplitude = asked[v].amplitude
  BY <1>1 DEF Settings
<1>3. "CFG_FMT" \in Words /\ "CFG_FMT" # "TAR_PITCH"
  BY WordNames
<1>4. /\ word[v]["CFG_FMT"] \in Values("CFG_FMT") /\ word[v] = [r \in Words |-> word[v][r]]
      /\ Asks(asked[v], state[v] = "PLAYING", "CFG_FMT", word[v]["CFG_FMT"])
  BY <1>1, <1>3 DEF WordFile
<1>5. /\ w = [r \in Words |-> w[r]] /\ w["CFG_FMT"] = c
      /\ \A r \in Words \ {"CFG_FMT"} : w[r] = word[v][r]
  BY <1>3, <1>4
<1>6. /\ c \in Values("CFG_FMT") /\ c.rate = word[v]["CFG_FMT"].rate
      /\ c.bins = word[v]["CFG_FMT"].bins
      /\ c.stream = word[v]["CFG_FMT"].stream
  <2>1. word[v]["CFG_FMT"] \in [rate : Rates, stream : BOOLEAN, bins : BinSets,
                                persist : BOOLEAN, loop : BOOLEAN]
    BY <1>4, ValuesAre
  <2>2. /\ asked[v].format.rate \in Rates /\ "2D" \in BinSets
        /\ asked[v].streaming \in BOOLEAN /\ asked[v].looping \in BOOLEAN
    BY <1>1, SettingsGive DEF BinSets, Settings
  <2>3. c \in Values("CFG_FMT")
    BY <1>4, <2>2, FormatRecord
  <2> QED BY <2>1, <2>3
<1>7. /\ holds' = holds /\ state' = [state EXCEPT ![v] = st]
      /\ Raised(v, s, w, ws)
  BY DEF VoiceStop
<1>8. st = "PLAYING" => c.loop = s.looping /\ c.persist = s.streaming
  OBVIOUS
<1>9. c.stream = s.streaming
  BY <1>4, <1>6 DEF Asks
<1> HIDE DEF s, c, w
<1>10. WordFile(w) /\ Fresh(v, s, w, st, {"CFG_FMT"})
  BY <1>2, <1>5, <1>6, <1>8, <1>9, FmtFresh
<1>11. Sets(ws, index[v], Fmt(w)) /\ Unlocks(ws)
  BY <1>1, <1>10, StopSets DEF FmtBracket
<1>12. Writes(v, s, w, ws, {"CFG_FMT"}, FALSE)
  BY <1>11 DEF Writes, Fmt
<1>13. /\ UNCHANGED <<live, index, free, image>> /\ raised' = TRUE
       /\ Leaves(v, s, w, ws)
  BY <1>7 DEF Raised
<1>14. raised' \in BOOLEAN /\ held \in BOOLEAN /\ FALSE \in BOOLEAN
  <2>1. raised' \in BOOLEAN
    BY <1>13
  <2>2. (v \in holds) \in BOOLEAN
    OBVIOUS
  <2> QED BY <2>1, <2>2
<1>15. state' = [state EXCEPT ![v] = st] /\ st \in {"STOPPED", "PLAYING", "STOPPING"}
  BY <1>7
<1>16. /\ holds' = IF held THEN holds \cup {v} ELSE holds \ {v}
       /\ st = "PLAYING" => held
       /\ "Submit" \notin app.calls /\ held => s.streaming
       /\ "Queue" \notin app.calls => ~s.streaming
       /\ ~FALSE /\ held /\ OneKind => v \in holds /\ s.streaming = asked[v].streaming
  BY <1>1, <1>2, <1>7
<1>17. raised' = FALSE /\ app.quiet => \A u \in live : state'[u] = "STOPPED"
  BY <1>13
<1> HIDE DEF st, held, ws
<1> QED BY <1>1, <1>2, <1>10, <1>12, <1>13, <1>14, <1>15, <1>16, <1>17, HereKeeps
LEMMA QueueAnswers ==
  ASSUME NEW i \in HwVoices, NEW v \in Voices, NEW w, WordFile(w), NEW accepted \in BOOLEAN
  PROVE  LET a  == Bracket(i, WordsOf(<<"CFG_FMT">>, w))
             b  == <<Wait(3), <<"CURRENT_SSL", Zero>>, <<"SEGMENT_OFFSET", Zero>>,
                     <<"SEGMENT_LENGTH", Zero>>, Wait(2), <<"CURRENT", i>>,
                     <<"DATA", <<v, TRUE>>>>>>
             ws == a \o IF accepted THEN b ELSE <<>>
         IN /\ Unlocks(ws)
            /\ accepted => Sets(ws, i, Over(Fmt(w), One("DATA", <<v, TRUE>>)))
            /\ ~accepted => Sets(ws, i, Fmt(w))
<1> DEFINE a  == Bracket(i, WordsOf(<<"CFG_FMT">>, w))
           b  == <<Wait(3), <<"CURRENT_SSL", Zero>>, <<"SEGMENT_OFFSET", Zero>>,
                   <<"SEGMENT_LENGTH", Zero>>, Wait(2), <<"CURRENT", i>>,
                   <<"DATA", <<v, TRUE>>>>>>
           ws == a \o IF accepted THEN b ELSE <<>>
           g  == One("DATA", <<v, TRUE>>)
<1>1. Sets(a, i, Fmt(w)) /\ Unlocks(a)
  BY FmtSets
<1>2. Adds(b, i, g) /\ \A old : Final(b, "LOCK", old, old)
  BY QueueAdds
<1> HIDE DEF a, b, g
<1>3. a \in Lists /\ b \in Lists /\ Opening(a, i)
  BY <1>1, <1>2 DEF Sets, Adds, Piece
<1>4. Sets(a \o b, i, Over(Fmt(w), g))
  BY <1>1, <1>2, <1>3, SetsConcat DEF Sets
<1>5. Unlocks(a \o b)
  BY <1>1, <1>2, <1>3, FinalConcat DEF Unlocks
<1>6. a \o <<>> = a
  BY <1>3 DEF Lists
<1>7. Unlocks(ws) /\ (accepted => Sets(ws, i, Over(Fmt(w), g))) /\ (~accepted => Sets(ws, i, Fmt(w)))
  BY <1>1, <1>4, <1>5, <1>6
<1> QED BY <1>7 DEF a, b, g

LEMMA SubmitAnswers ==
  ASSUME NEW i \in HwVoices, NEW v \in Voices, NEW w, WordFile(w), NEW accepted \in BOOLEAN
  PROVE  LET a  == Bracket(i, WordsOf(<<"CFG_FMT">>, w))
             b  == <<Wait(2), <<"INBUF_SGE", Zero>>, <<"INBUF_SGE_OFFSET", Zero>>>>
                   \o Bracket(i, <<<<"DATA", <<v, FALSE>>>>, <<"BUF_LBO", Zero>>,
                                    <<"BUF_CBO", Zero>>, <<"BUF_EBO", Zero>>>>)
             ws == a \o IF accepted THEN b ELSE <<>>
         IN /\ Unlocks(ws)
            /\ accepted => Sets(ws, i, Over(Fmt(w), One("DATA", <<v, FALSE>>)))
            /\ ~accepted => Sets(ws, i, Fmt(w))
<1> DEFINE a  == Bracket(i, WordsOf(<<"CFG_FMT">>, w))
           b  == <<Wait(2), <<"INBUF_SGE", Zero>>, <<"INBUF_SGE_OFFSET", Zero>>>>
                 \o Bracket(i, <<<<"DATA", <<v, FALSE>>>>, <<"BUF_LBO", Zero>>,
                                  <<"BUF_CBO", Zero>>, <<"BUF_EBO", Zero>>>>)
           ws == a \o IF accepted THEN b ELSE <<>>
           g  == One("DATA", <<v, FALSE>>)
<1>1. Sets(a, i, Fmt(w)) /\ Unlocks(a)
  BY FmtSets
<1>2. Adds(b, i, g) /\ Unlocks(b)
  BY SubmitAdds
<1> HIDE DEF a, b, g
<1>3. a \in Lists /\ b \in Lists /\ Opening(a, i)
  BY <1>1, <1>2 DEF Sets, Adds, Piece
<1>4. Sets(a \o b, i, Over(Fmt(w), g)) /\ Unlocks(a \o b)
  BY <1>1, <1>2, <1>3, SetsConcat DEF Sets
<1>5. a \o <<>> = a
  BY <1>3 DEF Lists
<1>6. Unlocks(ws) /\ (accepted => Sets(ws, i, Over(Fmt(w), g))) /\ (~accepted => Sets(ws, i, Fmt(w)))
  BY <1>1, <1>4, <1>5
<1> QED BY <1>6 DEF a, b, g

LEMMA QueueKeeps ==
  ASSUME ImageInv, app' = app, todo = <<>>, NEW v \in live, NEW accepted \in BOOLEAN,
         "Queue" \in app.calls, BufferQueue(v, accepted)
  PROVE  ImageInv'
<1> DEFINE s    == [asked[v] EXCEPT !.streaming = TRUE]
           c    == [word[v]["CFG_FMT"] EXCEPT !.stream = TRUE]
           w    == [word[v] EXCEPT !["CFG_FMT"].stream = TRUE]
           st   == state[v]
           held == accepted \/ v \in holds
           ws   == FmtBracket(v, w) \o IF accepted
                   THEN <<Wait(3), <<"CURRENT_SSL", Zero>>, <<"SEGMENT_OFFSET", Zero>>,
                          <<"SEGMENT_LENGTH", Zero>>, Wait(2), <<"CURRENT", index[v]>>,
                          <<"DATA", <<v, TRUE>>>>>>
                   ELSE <<>>
<1>1. /\ index[v] \in HwVoices /\ asked[v] \in Settings /\ asked[v].format \in app.formats
      /\ v \in Voices /\ asked[v].format.is3d = (index[v] < Max3D) /\ WordFile(word[v])
      /\ state[v] \in {"STOPPED", "PLAYING", "STOPPING"}
      /\ state = [u \in Voices |-> state[u]] /\ raised = FALSE
      /\ state[v] = "PLAYING" => v \in holds
      /\ "Submit" \notin app.calls /\ v \in holds => asked[v].streaming
      /\ "Queue" \notin app.calls => ~asked[v].streaming
      /\ \A r \in Words \ {"TAR_PITCH"} :
           Asks(asked[v], state[v] = "PLAYING", r, word[v][r])
  BY Known
<1>2. /\ s \in Settings /\ s.streaming = TRUE /\ s.looping = asked[v].looping
      /\ s.format = asked[v].format /\ s.pitch = asked[v].pitch
      /\ s.gain = asked[v].gain /\ s.target = asked[v].target
      /\ s.filter = asked[v].filter /\ s.coefficients = asked[v].coefficients
      /\ s.amplitude = asked[v].amplitude
  BY <1>1 DEF Settings
<1>3. "CFG_FMT" \in Words /\ "CFG_FMT" # "TAR_PITCH"
  BY WordNames
<1>4. /\ word[v]["CFG_FMT"] \in Values("CFG_FMT") /\ word[v] = [r \in Words |-> word[v][r]]
      /\ Asks(asked[v], state[v] = "PLAYING", "CFG_FMT", word[v]["CFG_FMT"])
  BY <1>1, <1>3 DEF WordFile
<1>5. /\ w = [r \in Words |-> w[r]] /\ w["CFG_FMT"] = c
      /\ \A r \in Words \ {"CFG_FMT"} : w[r] = word[v][r]
  BY <1>3, <1>4
<1>6. /\ c \in Values("CFG_FMT") /\ c.rate = word[v]["CFG_FMT"].rate
      /\ c.bins = word[v]["CFG_FMT"].bins
      /\ c.stream = TRUE
      /\ c.loop = word[v]["CFG_FMT"].loop /\ c.persist = word[v]["CFG_FMT"].persist
  <2>1. word[v]["CFG_FMT"] \in [rate : Rates, stream : BOOLEAN, bins : BinSets,
                                persist : BOOLEAN, loop : BOOLEAN]
    BY <1>4, ValuesAre
  <2>2. /\ asked[v].format.rate \in Rates /\ "2D" \in BinSets
        /\ asked[v].streaming \in BOOLEAN /\ asked[v].looping \in BOOLEAN
    BY <1>1, SettingsGive DEF BinSets, Settings
  <2>3. c \in Values("CFG_FMT")
    BY <1>4, <2>2, FormatRecord
  <2> QED BY <2>1, <2>3
<1>7. /\ holds' = IF accepted THEN holds \cup {v} ELSE holds
      /\ state' = state /\ Raised(v, s, w, ws)
      /\ asked[v].streaming \/ state[v] # "PLAYING"
  BY <1>1 DEF BufferQueue, QueueWords
<1>8. st = "PLAYING" => c.loop = s.looping /\ c.persist = s.streaming
  BY <1>2, <1>4, <1>6, <1>7 DEF Asks
<1>9. c.stream = s.streaming
  BY <1>2, <1>6
<1> HIDE DEF s, c, w
<1>10. WordFile(w) /\ Fresh(v, s, w, st, {"CFG_FMT"})
  BY <1>2, <1>5, <1>6, <1>8, <1>9, FmtFresh
<1>11. /\ Unlocks(ws)
       /\ accepted => Sets(ws, index[v], Over(Fmt(w), One("DATA", <<v, TRUE>>)))
       /\ ~accepted => Sets(ws, index[v], Fmt(w))
  BY <1>1, <1>10, QueueAnswers DEF FmtBracket
<1> HIDE DEF ws
<1>12. Writes(v, s, w, ws, {"CFG_FMT"}, accepted)
  <2>1. One("DATA", <<v, s.streaming>>) = One("DATA", <<v, TRUE>>)
    BY Zenon, <1>2
  <2>2. CASE accepted
    <3>1. Sets(ws, index[v], Over(Fmt(w), One("DATA", <<v, s.streaming>>)))
      BY Zenon, <1>11, <2>1, <2>2
    <3> QED BY <1>11, <2>2, <3>1 DEF Writes, Fmt
  <2>3. CASE ~accepted
    BY <1>11, <2>3 DEF Writes, Fmt
  <2> QED BY <2>2, <2>3
<1>13. /\ UNCHANGED <<live, index, free, image>> /\ raised' = TRUE
       /\ Leaves(v, s, w, ws)
  BY <1>1, <1>7 DEF Raised
<1>14. raised' \in BOOLEAN /\ held \in BOOLEAN
  <2>1. raised' \in BOOLEAN
    BY <1>13
  <2>2. (v \in holds) \in BOOLEAN
    OBVIOUS
  <2> QED BY <2>1, <2>2
<1>15. state' = [state EXCEPT ![v] = st] /\ st \in {"STOPPED", "PLAYING", "STOPPING"}
  BY <1>1, <1>7
<1>16. /\ holds' = IF held THEN holds \cup {v} ELSE holds \ {v}
       /\ st = "PLAYING" => held
       /\ "Submit" \notin app.calls /\ held => s.streaming
       /\ "Queue" \notin app.calls => ~s.streaming
       /\ ~accepted /\ held /\ OneKind => v \in holds /\ s.streaming = asked[v].streaming
  BY <1>1, <1>2, <1>7 DEF OneKind
<1>17. raised' = FALSE /\ app.quiet => \A u \in live : state'[u] = "STOPPED"
  BY <1>7, <1>13 DEF Stopped
<1>18. s \in Settings /\ s.format \in app.formats /\ s.format.is3d = (index[v] < Max3D)
  BY <1>1, <1>2
<1> HIDE DEF st, held
<1> QED BY <1>10, <1>12, <1>13, <1>14, <1>15, <1>16, <1>17, <1>18, HereKeeps

LEMMA SubmitKeeps ==
  ASSUME ImageInv, app' = app, todo = <<>>, app.quiet => \A u \in live : Stopped(u),
         NEW v \in live, NEW accepted \in BOOLEAN,
         "Submit" \in app.calls, BufferSubmit(v, accepted)
  PROVE  ImageInv'
<1> DEFINE s    == [asked[v] EXCEPT !.streaming = FALSE]
           c    == [word[v]["CFG_FMT"] EXCEPT !.stream = FALSE]
           w    == [word[v] EXCEPT !["CFG_FMT"].stream = FALSE]
           st   == state[v]
           held == accepted
           ws   == FmtBracket(v, w) \o IF accepted
                   THEN <<Wait(2), <<"INBUF_SGE", Zero>>, <<"INBUF_SGE_OFFSET", Zero>>>>
                        \o Bracket(index[v],
                             <<<<"DATA", <<v, FALSE>>>>, <<"BUF_LBO", Zero>>,
                               <<"BUF_CBO", Zero>>, <<"BUF_EBO", Zero>>>>)
                   ELSE <<>>
<1>1. /\ index[v] \in HwVoices /\ asked[v] \in Settings /\ asked[v].format \in app.formats
      /\ v \in Voices /\ asked[v].format.is3d = (index[v] < Max3D) /\ WordFile(word[v])
      /\ state[v] \in {"STOPPED", "PLAYING", "STOPPING"}
      /\ state = [u \in Voices |-> state[u]] /\ raised = FALSE
      /\ state[v] = "PLAYING" => v \in holds
      /\ "Submit" \notin app.calls /\ v \in holds => asked[v].streaming
      /\ "Queue" \notin app.calls => ~asked[v].streaming
      /\ \A r \in Words \ {"TAR_PITCH"} :
           Asks(asked[v], state[v] = "PLAYING", r, word[v][r])
  BY Known
<1>2. /\ s \in Settings /\ s.streaming = FALSE /\ s.looping = asked[v].looping
      /\ s.format = asked[v].format /\ s.pitch = asked[v].pitch
      /\ s.gain = asked[v].gain /\ s.target = asked[v].target
      /\ s.filter = asked[v].filter /\ s.coefficients = asked[v].coefficients
      /\ s.amplitude = asked[v].amplitude
  BY <1>1 DEF Settings
<1>3. "CFG_FMT" \in Words /\ "CFG_FMT" # "TAR_PITCH"
  BY WordNames
<1>4. /\ word[v]["CFG_FMT"] \in Values("CFG_FMT") /\ word[v] = [r \in Words |-> word[v][r]]
      /\ Asks(asked[v], state[v] = "PLAYING", "CFG_FMT", word[v]["CFG_FMT"])
  BY <1>1, <1>3 DEF WordFile
<1>5. /\ w = [r \in Words |-> w[r]] /\ w["CFG_FMT"] = c
      /\ \A r \in Words \ {"CFG_FMT"} : w[r] = word[v][r]
  BY <1>3, <1>4
<1>6. /\ c \in Values("CFG_FMT") /\ c.rate = word[v]["CFG_FMT"].rate
      /\ c.bins = word[v]["CFG_FMT"].bins
      /\ c.stream = FALSE
      /\ c.loop = word[v]["CFG_FMT"].loop /\ c.persist = word[v]["CFG_FMT"].persist
  <2>1. word[v]["CFG_FMT"] \in [rate : Rates, stream : BOOLEAN, bins : BinSets,
                                persist : BOOLEAN, loop : BOOLEAN]
    BY <1>4, ValuesAre
  <2>2. /\ asked[v].format.rate \in Rates /\ "2D" \in BinSets
        /\ asked[v].streaming \in BOOLEAN /\ asked[v].looping \in BOOLEAN
    BY <1>1, SettingsGive DEF BinSets, Settings
  <2>3. c \in Values("CFG_FMT")
    BY <1>4, <2>2, FormatRecord
  <2> QED BY <2>1, <2>3
<1>7. /\ holds' = IF accepted THEN holds \cup {v} ELSE holds \ {v}
      /\ state' = state /\ Leaves(v, s, w, ws) /\ UNCHANGED <<live, index, free, image, raised>>
      /\ state[v] = "STOPPED"
  BY <1>1 DEF BufferSubmit, Stopped
<1>8. st = "PLAYING" => c.loop = s.looping /\ c.persist = s.streaming
  BY <1>7
<1>9. c.stream = s.streaming
  BY <1>2, <1>6
<1> HIDE DEF s, c, w
<1>10. WordFile(w) /\ Fresh(v, s, w, st, {"CFG_FMT"})
  BY <1>2, <1>5, <1>6, <1>8, <1>9, FmtFresh
<1>11. /\ Unlocks(ws)
       /\ accepted => Sets(ws, index[v], Over(Fmt(w), One("DATA", <<v, FALSE>>)))
       /\ ~accepted => Sets(ws, index[v], Fmt(w))
  BY <1>1, <1>10, SubmitAnswers DEF FmtBracket
<1> HIDE DEF ws
<1>12. Writes(v, s, w, ws, {"CFG_FMT"}, accepted)
  <2>1. One("DATA", <<v, s.streaming>>) = One("DATA", <<v, FALSE>>)
    BY Zenon, <1>2
  <2>2. CASE accepted
    <3>1. Sets(ws, index[v], Over(Fmt(w), One("DATA", <<v, s.streaming>>)))
      BY Zenon, <1>11, <2>1, <2>2
    <3> QED BY <1>11, <2>2, <3>1 DEF Writes, Fmt
  <2>3. CASE ~accepted
    BY <1>11, <2>3 DEF Writes, Fmt
  <2> QED BY <2>2, <2>3
<1>13. /\ UNCHANGED <<live, index, free, image>> /\ raised' = FALSE
       /\ Leaves(v, s, w, ws)
  BY <1>1, <1>7
<1>14. raised' \in BOOLEAN /\ held \in BOOLEAN
  <2>1. raised' \in BOOLEAN
    BY <1>13
  <2>2. (v \in holds) \in BOOLEAN
    OBVIOUS
  <2> QED BY <2>1, <2>2
<1>15. state' = [state EXCEPT ![v] = st] /\ st \in {"STOPPED", "PLAYING", "STOPPING"}
  BY <1>1, <1>7
<1>16. /\ holds' = IF held THEN holds \cup {v} ELSE holds \ {v}
       /\ st = "PLAYING" => held
       /\ "Submit" \notin app.calls /\ held => s.streaming
       /\ "Queue" \notin app.calls => ~s.streaming
       /\ ~accepted /\ held /\ OneKind => v \in holds /\ s.streaming = asked[v].streaming
  BY <1>1, <1>2, <1>7 DEF OneKind
<1>17. raised' = FALSE /\ app.quiet => \A u \in live : state'[u] = "STOPPED"
  BY <1>7, <1>13 DEF Stopped
<1> HIDE DEF st, held
<1> QED BY <1>1, <1>2, <1>10, <1>12, <1>13, <1>14, <1>15, <1>16, <1>17, HereKeeps
LEMMA FormatWritesSet ==
  ASSUME NEW i \in HwVoices, NEW w, WordFile(w)
  PROVE  /\ Sets(FormatWrites(i, w), i, At({"CFG_FMT", "TAR_PITCH"}, w))
         /\ Unlocks(FormatWrites(i, w))
BY WordNames, TwoSets DEF FormatWrites

LEMMA FormatKeeps ==
  ASSUME ImageInv, app' = app, todo = <<>>, app.quiet => \A u \in live : Stopped(u),
         NEW v \in live, NEW f \in app.formats, VoiceSetFormat(v, f)
  PROVE  ImageInv'
<1> DEFINE s  == [asked[v] EXCEPT !.format = f]
           w  == FormatWords(s, word[v])
           R  == {"CFG_FMT", "TAR_PITCH"}
           st == state[v]
<1>1. /\ v \in app.voices /\ v \in Voices /\ app \in Applications
      /\ index[v] \in HwVoices /\ asked[v] \in Settings
      /\ asked[v].format \in app.formats /\ raised = FALSE
      /\ asked[v].format.is3d = (index[v] < Max3D) /\ WordFile(word[v])
      /\ index = [u \in Voices |-> index[u]] /\ state = [u \in Voices |-> state[u]]
      /\ state[v] \in {"STOPPED", "PLAYING", "STOPPING"}
      /\ "Submit" \notin app.calls /\ v \in holds => asked[v].streaming
      /\ "Queue" \notin app.calls => ~asked[v].streaming
      /\ \A r \in Words \ {"TAR_PITCH"} :
           Asks(asked[v], state[v] = "PLAYING", r, word[v][r])
  BY Known
<1>2. f \in Formats /\ f.is3d \in BOOLEAN
  BY <1>1, SizesAssumption DEF Formats
<1>3. /\ s \in Settings /\ s.format = f
      /\ s.streaming = asked[v].streaming /\ s.target = asked[v].target
      /\ s.gain = asked[v].gain /\ s.looping = asked[v].looping
      /\ s.filter = asked[v].filter /\ s.coefficients = asked[v].coefficients
      /\ s.amplitude = asked[v].amplitude /\ s.pitch = asked[v].pitch
  BY <1>1, <1>2 DEF Settings
<1>4. /\ st = "STOPPED" /\ UNCHANGED <<live, state, holds, raised>>
      /\ \/ /\ ~(f.is3d # (index[v] < Max3D))
            /\ Leaves(v, s, w, FormatWrites(index[v], w))
            /\ UNCHANGED <<index, free, image>>
         \/ /\ f.is3d # (index[v] < Max3D)
            /\ \E i \in Allocatable(f.is3d) :
                 /\ Leaves(v, s, w, Flush(i, word[v]) \o FormatWrites(i, w))
                 /\ index' = [index EXCEPT ![v] = i]
                 /\ free' = (free \ {i}) \cup {index[v]}
            /\ image' = Forget(image, index[v])
  BY DEF VoiceSetFormat, Stopped
<1> HIDE DEF s
<1>5. /\ WordFile(w) /\ w["TAR_PITCH"] = Pitch(s)
      /\ w["CFG_FMT"] = [word[v]["CFG_FMT"] EXCEPT !.rate = s.format.rate,
                                                   !.stream = s.streaming]
      /\ \A r \in Words \ {"CFG_FMT", "TAR_PITCH"} : w[r] = word[v][r]
  <2>1. s \in Settings /\ WordFile(word[v])
    BY <1>1, <1>3
  <2> QED BY <2>1, FormatWordsGive
<1> HIDE DEF w
<1>6. {"CFG_FMT", "TAR_PITCH"} \subseteq Words
  BY WordNames
<1>7. \A r \in {"CFG_FMT", "TAR_PITCH"} : Asks(s, st = "PLAYING", r, w[r])
  <2>1. Asks(asked[v], state[v] = "PLAYING", "CFG_FMT", word[v]["CFG_FMT"])
    BY <1>1, <1>6
  <2>2. word[v]["CFG_FMT"] \in [rate : Rates, stream : BOOLEAN, bins : BinSets,
                                persist : BOOLEAN, loop : BOOLEAN]
    BY <1>1, <1>6, ValuesAre DEF WordFile
  <2>3. Asks(s, st = "PLAYING", "CFG_FMT", w["CFG_FMT"])
    BY <1>3, <1>4, <1>5, <2>1, <2>2 DEF Asks
  <2>4. Asks(s, st = "PLAYING", "TAR_PITCH", w["TAR_PITCH"])
    BY <1>5 DEF Asks
  <2> QED BY <2>3, <2>4
<1>8. \A r \in Words \ {"CFG_FMT", "TAR_PITCH"} : \A x :
        Asks(asked[v], state[v] = "PLAYING", r, x) => Asks(s, st = "PLAYING", r, x)
  BY <1>3 DEF Asks, Volumes
<1>9. CASE /\ ~(f.is3d # (index[v] < Max3D))
           /\ Leaves(v, s, w, FormatWrites(index[v], w))
           /\ UNCHANGED <<index, free, image>>
  <2>1. Setter(v, s, w, FormatWrites(index[v], w))
    BY <1>4, <1>9 DEF Setter
  <2>2. s.format \in app.formats /\ s.format.is3d = (index[v] < Max3D)
    BY <1>2, <1>3, <1>9
  <2>3. Fresh(v, s, w, state[v], R)
    BY <1>5, <1>6, <1>7, <1>8 DEF Fresh, WordFile
  <2>4. /\ Sets(FormatWrites(index[v], w), index[v], At(R, w))
        /\ Unlocks(FormatWrites(index[v], w))
    BY <1>1, <1>5, FormatWritesSet
  <2> HIDE DEF R
  <2> QED BY <1>3, <2>1, <2>2, <2>3, <2>4, SetterKeeps
<1>10. CASE /\ f.is3d # (index[v] < Max3D)
            /\ \E i \in Allocatable(f.is3d) :
                 /\ Leaves(v, s, w, Flush(i, word[v]) \o FormatWrites(i, w))
                 /\ index' = [index EXCEPT ![v] = i]
                 /\ free' = (free \ {i}) \cup {index[v]}
            /\ image' = Forget(image, index[v])
  <2>1. PICK i \in Allocatable(f.is3d) :
               /\ Leaves(v, s, w, Flush(i, word[v]) \o FormatWrites(i, w))
               /\ index' = [index EXCEPT ![v] = i]
               /\ free' = (free \ {i}) \cup {index[v]}
    BY <1>10
  <2> DEFINE ws == Flush(i, word[v]) \o FormatWrites(i, w)
  <2>2. i \in free /\ i \in HwVoices /\ s.format.is3d = (i < Max3D)
    <3>1. free \subseteq HwVoices
      BY DEF ImageInv, Shapes
    <3> QED BY <1>3, <3>1 DEF Allocatable
  <2>3. Sets(ws, i, w) /\ Unlocks(ws)
    <3>1. Sets(Flush(i, word[v]), i, word[v])
      BY <1>1, <2>2, FlushSets
    <3>2. /\ Sets(FormatWrites(i, w), i, At(R, w)) /\ Unlocks(FormatWrites(i, w))
      BY <1>5, <2>2, FormatWritesSet
    <3> QED BY <1>1, <1>5, <1>6, <3>1, <3>2, Follows
  <2>4. Leaving(v, i, s, w, st, v \in holds, ws)
    <3>1. Place(v, i)
      BY <1>10, <2>1, <2>2 DEF Place
    <3>2. holds' = IF v \in holds THEN holds \cup {v} ELSE holds \ {v}
      BY <1>4
    <3>3. state' = [state EXCEPT ![v] = st] /\ live' = live \cup {v}
      BY <1>1, <1>4
    <3>4. raised' = FALSE /\ app.quiet => \A u \in live' : state'[u] = "STOPPED"
      BY <1>4 DEF Stopped
    <3> HIDE DEF ws
    <3>5. Leaves(v, s, w, ws)
      BY <2>1 DEF ws
    <3> QED BY <1>1, <2>1, <3>1, <3>2, <3>3, <3>4, <3>5 DEF Leaving, Leaves
  <2>5. \A r \in Words : Asks(s, st = "PLAYING", r, w[r])
    BY <1>1, <1>5, <1>7, <1>8
  <2>6. Sound(s, w, st, v \in holds, i)
    BY <1>1, <1>3, <1>4, <1>5, <2>2, <2>5 DEF Sound
  <2>7. ~OneClass
    <3>1. f \in app.formats /\ asked[v].format \in app.formats
          /\ f.is3d # asked[v].format.is3d
      BY <1>1, <1>10
    <3> QED BY <3>1 DEF OneClass
  <2>8. Answers(v, i, s, st, v \in holds, ws, w)
    <3>1. DOMAIN w = Words /\ "DATA" \notin Words /\ \A r \in Words : w[r] \in Values(r)
      BY <1>5, WordNames DEF WordFile
    <3>2. \A r \in Words : Meets(v, s, st = "PLAYING", v \in holds, r, w[r])
      BY <2>5, <3>1 DEF Meets
    <3>3. Meets(v, s, st = "PLAYING", v \in holds, "DATA", image'[i]["DATA"])
      BY <2>7, <3>1 DEF Meets
    <3> HIDE DEF ws
    <3> QED BY <2>3, <3>1, <3>2, <3>3 DEF Answers, Registers
  <2>9. raised' \in BOOLEAN
    BY <1>1, <1>4
  <2>10. (v \in holds) \in BOOLEAN
    OBVIOUS
  <2> HIDE DEF ws, st
  <2> QED BY <2>4, <2>6, <2>8, <2>9, <2>10, CallKeeps
<1> QED BY <1>4, <1>9, <1>10
LEMMA ClearedFile == WordFile(ClearedWords)
<1>1. ClearedWords = [r \in Words |-> ClearedWords[r]]
  BY DEF ClearedWords
<1>2. Zero \in Rates /\ Zero \in Levels /\ "0" \in BinSets
  BY DEF Rates, Levels, BinSets
<1>3. ASSUME NEW r \in Words PROVE ClearedWords[r] \in Values(r)
  <2>1. CASE r = "CFG_FMT"
    BY <1>2, <2>1, WordNames, ValuesAre DEF ClearedWords
  <2>2. CASE r = "CFG_MISC"
    BY <2>2, WordNames, ValuesAre DEF ClearedWords
  <2>3. CASE r = "CFG_VBIN"
    BY <1>2, <2>3, WordNames, ValuesAre DEF ClearedWords
  <2>4. CASE r \in {"TAR_VOLA", "TAR_VOLB", "TAR_VOLC"}
    BY <1>2, <2>4, WordNames, ValuesAre DEF ClearedWords
  <2>5. CASE r = "TAR_PITCH"
    BY <1>2, <2>5, WordNames, ValuesAre DEF ClearedWords
  <2>6. CASE r = "TAR_HRTF"
    BY <2>6, WordNames, ValuesAre DEF ClearedWords
  <2>7. CASE r \in {"CFG_ENV0", "CFG_ENVA", "CFG_ENV1", "CFG_ENVF", "LFO_ENV", "TAR_FCA",
                    "TAR_FCB"}
    BY <2>7, WordNames, ValuesAre DEF ClearedWords
  <2> QED BY <2>1, <2>2, <2>3, <2>4, <2>5, <2>6, <2>7, WordNames
<1> QED BY <1>1, <1>3 DEF WordFile


LEMMA CreatedSettings ==
  ASSUME NEW f \in Formats
  PROVE  LET s0 == Cleared(f)
             s2 == [s0 EXCEPT !.target = NoTarget]
             s3 == [s2 EXCEPT !.gain["master"] = 1]
             s4 == [s3 EXCEPT !.gain["channel"] = 1]
             s5 == [s4 EXCEPT !.gain["hrtf"] = 1]
             s6 == [s5 EXCEPT !.pitch = 1]
         IN /\ {s0, s2, s3, s4, s5, s6} \subseteq Settings
            /\ s6.format = f /\ s0.format = f /\ s6.streaming = FALSE /\ s0.streaming = FALSE
            /\ s6.target = NoTarget /\ s2.target = NoTarget /\ s5.target = NoTarget
            /\ s6.gain = s5.gain /\ s6.amplitude = Zero /\ s6.filter = Zero
            /\ s6.coefficients = Zero
<1> DEFINE s0 == Cleared(f)
           s2 == [s0 EXCEPT !.target = NoTarget]
           s3 == [s2 EXCEPT !.gain["master"] = 1]
           s4 == [s3 EXCEPT !.gain["channel"] = 1]
           s5 == [s4 EXCEPT !.gain["hrtf"] = 1]
           s6 == [s5 EXCEPT !.pitch = 1]
<1>1. /\ Zero \in Levels /\ 1 \in Levels /\ 1 \in Pitches
  BY SizesAssumption DEF Levels
<1>2. /\ s0 \in Settings /\ s0.format = f /\ s0.streaming = FALSE
      /\ s0.amplitude = Zero /\ s0.filter = Zero /\ s0.coefficients = Zero
  BY <1>1 DEF Cleared, Settings
<1> HIDE DEF s0
<1>3. /\ s2 \in Settings /\ s2.format = f /\ s2.streaming = FALSE /\ s2.target = NoTarget
      /\ s2.amplitude = Zero /\ s2.filter = Zero /\ s2.coefficients = Zero
  BY <1>2 DEF Settings
<1> HIDE DEF s2
<1>4. /\ s3 \in Settings /\ s3.format = f /\ s3.streaming = FALSE /\ s3.target = NoTarget
      /\ s3.amplitude = Zero /\ s3.filter = Zero /\ s3.coefficients = Zero
  BY <1>1, <1>3 DEF Settings
<1> HIDE DEF s3
<1>5. /\ s4 \in Settings /\ s4.format = f /\ s4.streaming = FALSE /\ s4.target = NoTarget
      /\ s4.amplitude = Zero /\ s4.filter = Zero /\ s4.coefficients = Zero
  BY <1>1, <1>4 DEF Settings
<1> HIDE DEF s4
<1>6. /\ s5 \in Settings /\ s5.format = f /\ s5.streaming = FALSE /\ s5.target = NoTarget
      /\ s5.amplitude = Zero /\ s5.filter = Zero /\ s5.coefficients = Zero
  BY <1>1, <1>5 DEF Settings
<1> HIDE DEF s5
<1>7. /\ s6 \in Settings /\ s6.format = f /\ s6.streaming = FALSE /\ s6.target = NoTarget
      /\ s6.amplitude = Zero /\ s6.filter = Zero /\ s6.coefficients = Zero
      /\ s6.gain = s5.gain
  BY <1>1, <1>6 DEF Settings
<1> HIDE DEF s6
<1>8. {s0, s2, s3, s4, s5, s6} \subseteq Settings
  BY <1>2, <1>3, <1>4, <1>5, <1>6, <1>7
<1> QED BY <1>2, <1>3, <1>6, <1>7, <1>8 DEF s0, s2, s3, s4, s5, s6
LEMMA CreateKeeps ==
  ASSUME ImageInv, app' = app, todo = <<>>, app.quiet => \A u \in live : Stopped(u),
         NEW v \in app.voices, NEW f \in app.formats, VoiceCreate(v, f)
  PROVE  ImageInv'
<1> DEFINE i  == CHOOSE k \in Allocatable(f.is3d) : TRUE
           s0 == Cleared(f)
           w1 == FormatWords(s0, ClearedWords)
           s2 == [s0 EXCEPT !.target = NoTarget]
           w2 == TargetWords(s2, w1, TRUE)
           s3 == [s2 EXCEPT !.gain["master"] = 1]
           s4 == [s3 EXCEPT !.gain["channel"] = 1]
           s5 == [s4 EXCEPT !.gain["hrtf"] = 1]
           s6 == [s5 EXCEPT !.pitch = 1]
           w3 == VolumeWords(s3, w2)
           w4 == VolumeWords(s4, w2)
           w5 == VolumeWords(s5, w2)
           a1 == Flush(i, ClearedWords) \o FormatWrites(i, w1)
           a2 == a1 \o TargetWrites(i, w2, TRUE)
           a3 == a2 \o VolumeWrites(i, w3)
           a4 == a3 \o VolumeWrites(i, w4)
           a5 == a4 \o VolumeWrites(i, w5)
           a6 == a5 \o PitchWrites(i, s6)
           fp == {"CFG_FMT", "TAR_PITCH"}
           vo == {"TAR_VOLA", "TAR_VOLB", "TAR_VOLC"}
           td == {"TAR_HRTF"} \cup DirtyWords
           g  == Over(w5, One("TAR_PITCH", Pitch(s6)))
<1>1. /\ v \in Voices /\ app \in Applications /\ f \in Formats /\ f.is3d \in BOOLEAN
      /\ free \subseteq HwVoices /\ raised = FALSE
      /\ state = [u \in Voices |-> state[u]] /\ live \subseteq Voices
  <2>1. Shapes /\ raised = FALSE
    BY DEF ImageInv, CallsSound
  <2>2. state \in [Voices -> {"STOPPED", "PLAYING", "STOPPING"}]
    BY <2>1 DEF Shapes
  <2> QED BY <2>1, <2>2, SizesAssumption DEF Shapes, Formats
<1>2. /\ v \notin live /\ Allocatable(f.is3d) # {}
      /\ index' = [index EXCEPT ![v] = i] /\ free' = free \ {i}
      /\ Leaves(v, s6, w5, a6)
      /\ live' = live \cup {v} /\ state' = [state EXCEPT ![v] = "STOPPED"]
      /\ holds' = holds \ {v} /\ UNCHANGED <<image, raised>>
  BY DEF VoiceCreate
<1>3. i \in free /\ i \in HwVoices /\ f.is3d = (i < Max3D)
  <2>1. i \in Allocatable(f.is3d)
    BY <1>2
  <2> QED BY <1>1, <2>1 DEF Allocatable
<1>4. /\ s0 \in Settings /\ s2 \in Settings /\ s3 \in Settings /\ s4 \in Settings
      /\ s5 \in Settings /\ s6 \in Settings
      /\ s6.format = f /\ s0.format = f /\ s6.streaming = FALSE /\ s0.streaming = FALSE
      /\ s6.target = NoTarget /\ s2.target = NoTarget /\ s5.target = NoTarget
      /\ s6.gain = s5.gain /\ s6.amplitude = Zero /\ s6.filter = Zero
      /\ s6.coefficients = Zero
  BY <1>1, CreatedSettings
<1> HIDE DEF i, s0, s2, s3, s4, s5, s6
<1>5. /\ WordFile(w1)
      /\ w1["CFG_FMT"] = [ClearedWords["CFG_FMT"] EXCEPT !.rate = s0.format.rate,
                                                         !.stream = s0.streaming]
      /\ \A r \in Words \ fp : w1[r] = ClearedWords[r]
  <2>1. s0 \in Settings
    BY <1>4
  <2> QED BY <2>1, ClearedFile, FormatWordsGive
<1> HIDE DEF w1
<1>6. /\ WordFile(w2) /\ w2["TAR_HRTF"] = s2.target /\ w2["CFG_VBIN"] = Bins(s2.target)
      /\ w2["CFG_FMT"] = [w1["CFG_FMT"] EXCEPT !.bins = Bins(s2.target)]
      /\ \A r \in Words \ td : w2[r] = w1[r]
  <2>1. s2 \in Settings
    BY <1>4
  <2> DEFINE n == TurnedWords(s2, w1)
  <2>2. /\ WordFile(n) /\ n["TAR_HRTF"] = s2.target /\ n["CFG_VBIN"] = Bins(s2.target)
        /\ n["CFG_FMT"] = [w1["CFG_FMT"] EXCEPT !.bins = Bins(s2.target)]
        /\ \A r \in Words \ td : n[r] = w1[r]
    BY <1>5, <2>1, TurnedWordsGive
  <2>3. w2 = n
    BY DEF w2, TargetWords, TurnedWords
  <2> HIDE DEF n, w2
  <2> QED BY <2>2, <2>3
<1> HIDE DEF w2
<1>7. /\ WordFile(w3) /\ \A r \in Words \ vo : w3[r] = w2[r]
      /\ WordFile(w4) /\ \A r \in Words \ vo : w4[r] = w2[r]
      /\ WordFile(w5) /\ \A r \in Words \ vo : w5[r] = w2[r]
      /\ \A r \in vo : w5[r] = Volumes(s5)
  BY <1>4, <1>6, VolumeWordsGive
<1> HIDE DEF w3, w4, w5
<1>8. fp \subseteq Words /\ vo \subseteq Words /\ td \subseteq Words
  BY WordNames DEF DirtyWords
<1>9. Sets(a1, i, w1) /\ Unlocks(a1)
  <2>1. Sets(Flush(i, ClearedWords), i, ClearedWords)
    BY <1>3, ClearedFile, FlushSets
  <2>2. Sets(FormatWrites(i, w1), i, At(fp, w1)) /\ Unlocks(FormatWrites(i, w1))
    BY <1>3, <1>5, FormatWritesSet
  <2> HIDE DEF fp
  <2> QED BY <1>5, <1>8, <2>1, <2>2, ClearedFile, Follows
<1> HIDE DEF a1
<1>10. Sets(a2, i, w2) /\ Unlocks(a2)
  <2>1. Sets(TargetWrites(i, w2, TRUE), i, At(td, w2)) /\ Unlocks(TargetWrites(i, w2, TRUE))
    BY <1>3, <1>6, TargetSets
  <2> HIDE DEF td
  <2> QED BY <1>5, <1>6, <1>8, <1>9, <2>1, Follows
<1> HIDE DEF a2
<1>11. Sets(a3, i, w3) /\ Unlocks(a3)
  <2>1. Sets(VolumeWrites(i, w3), i, At(vo, w3)) /\ Unlocks(VolumeWrites(i, w3))
    BY <1>3, <1>7, VolumeSets
  <2> HIDE DEF vo
  <2> QED BY <1>6, <1>7, <1>8, <1>10, <2>1, Follows
<1> HIDE DEF a3
<1>12. Sets(a4, i, w4) /\ Unlocks(a4)
  <2>1. Sets(VolumeWrites(i, w4), i, At(vo, w4)) /\ Unlocks(VolumeWrites(i, w4))
    BY <1>3, <1>7, VolumeSets
  <2>2. \A r \in Words \ vo : w4[r] = w3[r]
    BY <1>7
  <2> HIDE DEF vo
  <2> QED BY <1>7, <1>8, <1>11, <2>1, <2>2, Follows
<1> HIDE DEF a4
<1>13. Sets(a5, i, w5) /\ Unlocks(a5)
  <2>1. Sets(VolumeWrites(i, w5), i, At(vo, w5)) /\ Unlocks(VolumeWrites(i, w5))
    BY <1>3, <1>7, VolumeSets
  <2>2. \A r \in Words \ vo : w5[r] = w4[r]
    BY <1>7
  <2> HIDE DEF vo
  <2> QED BY <1>7, <1>8, <1>12, <2>1, <2>2, Follows
<1> HIDE DEF a5
<1>14. Sets(a6, i, g) /\ Unlocks(a6)
  <2>1. Pitch(s6) \in Values("TAR_PITCH")
    BY <1>4, SettingsGive
  <2>2. /\ Sets(PitchWrites(i, s6), i, One("TAR_PITCH", Pitch(s6)))
        /\ Unlocks(PitchWrites(i, s6))
    BY <1>3, <2>1, PitchSets
  <2> QED BY <1>13, <2>2, SetsConcat DEF Sets
<1> HIDE DEF a6
<1>15. /\ DOMAIN g = Words /\ g["TAR_PITCH"] = Pitch(s6)
       /\ \A r \in Words \ {"TAR_PITCH"} : g[r] = w5[r]
  <2>1. DOMAIN w5 = Words /\ "TAR_PITCH" \in Words
    BY <1>7, WordNames DEF WordFile
  <2> QED BY <2>1 DEF Over, One
<1> HIDE DEF g
<1>16. \A r \in Words \ {"TAR_PITCH"} : Asks(s6, FALSE, r, w5[r])
  <2> SUFFICES ASSUME NEW r \in Words \ {"TAR_PITCH"} PROVE Asks(s6, FALSE, r, w5[r])
    OBVIOUS
  <2>1. CASE r = "CFG_FMT"
    <3>1. w5["CFG_FMT"] = w2["CFG_FMT"] /\ "CFG_FMT" \in Words
      BY <1>7, WordNames
    <3>2. w1["CFG_FMT"] \in [rate : Rates, stream : BOOLEAN, bins : BinSets,
                             persist : BOOLEAN, loop : BOOLEAN]
          /\ ClearedWords["CFG_FMT"] \in [rate : Rates, stream : BOOLEAN, bins : BinSets,
                                          persist : BOOLEAN, loop : BOOLEAN]
      BY <1>5, <3>1, ClearedFile, ValuesAre DEF WordFile
    <3>3. w1["CFG_FMT"].rate = f.rate /\ w1["CFG_FMT"].stream = FALSE
      BY <1>4, <1>5, <3>2
    <3>4. /\ w5["CFG_FMT"].rate = f.rate /\ w5["CFG_FMT"].stream = FALSE
          /\ w5["CFG_FMT"].bins = Bins(NoTarget)
      BY <1>4, <1>6, <3>1, <3>2, <3>3
    <3> QED BY <1>4, <2>1, <3>4 DEF Asks
  <2>2. CASE r = "CFG_VBIN" \/ r = "TAR_HRTF"
    <3>1. w5[r] = w2[r]
      BY <1>7, <2>2, WordNames
    <3> QED BY <1>4, <1>6, <2>2, <3>1 DEF Asks
  <2>3. CASE r \in vo
    <3>1. Volumes(s5) = Volumes(s6)
      BY <1>4 DEF Volumes
    <3> QED BY <1>7, <2>3, <3>1 DEF Asks
  <2>4. CASE r \notin vo /\ r # "CFG_FMT" /\ r # "CFG_VBIN" /\ r # "TAR_HRTF"
    BY <1>4, <2>4, WordNames DEF Asks
  <2> QED BY <2>1, <2>2, <2>3, <2>4
<1>17. Sound(s6, w5, "STOPPED", FALSE, i)
  <2>1. ~s6.streaming
    BY <1>4
  <2>2. \A r \in Words \ {"TAR_PITCH"} : Asks(s6, "STOPPED" = "PLAYING", r, w5[r])
    BY <1>16
  <2>3. s6.format \in app.formats /\ s6.format.is3d = (i < Max3D)
    BY <1>3, <1>4
  <2> QED BY <1>4, <1>7, <2>1, <2>2, <2>3 DEF Sound
<1>18. Leaving(v, i, s6, w5, "STOPPED", FALSE, a6)
  <2>1. Place(v, i)
    BY <1>2, <1>3 DEF Place
  <2>2. \A u \in live' : state'[u] = "STOPPED" \/ ~app.quiet
    BY <1>1, <1>2 DEF Stopped
  <2> QED BY <1>2, <2>1, <2>2 DEF Leaving, Leaves
<1>19. Answers(v, i, s6, "STOPPED", FALSE, a6, g)
  <2>1. "DATA" \notin Words /\ Registers = Words \cup {"DATA"}
    BY WordNames DEF Registers
  <2>2. ASSUME NEW r \in Words
        PROVE  Meets(v, s6, "STOPPED" = "PLAYING", FALSE, r, g[r])
    <3>1. CASE r = "TAR_PITCH"
      <4>1. g[r] \in Values(r)
        BY <1>4, <1>15, <3>1, SettingsGive
      <4> QED BY <1>15, <2>1, <3>1, <4>1 DEF Meets, Asks
    <3>2. CASE r # "TAR_PITCH"
      <4>1. g[r] \in Values(r) /\ Asks(s6, FALSE, r, g[r])
        BY <1>7, <1>15, <1>16, <3>2 DEF WordFile
      <4> QED BY <2>1, <4>1 DEF Meets
    <3> QED BY <3>1, <3>2
  <2>3. Meets(v, s6, "STOPPED" = "PLAYING", FALSE, "DATA", image'[i]["DATA"])
    BY <2>1 DEF Meets
  <2> QED BY <1>14, <1>15, <2>1, <2>2, <2>3 DEF Answers
<1>20. raised' \in BOOLEAN
  BY <1>1, <1>2
<1> QED BY <1>17, <1>18, <1>19, <1>20, CallKeeps
-----------------------------------------------------------------------------
(* The other steps. *)

LEMMA DestroyKeeps ==
  ASSUME ImageInv, app' = app, todo = <<>>, NEW v \in live, VoiceDestroy(v)
  PROVE  ImageInv'
<1>0. Shapes /\ OwnIndex /\ CopiesFollow /\ BuffersFollow /\ AtRest /\ raised = FALSE
  BY DEF ImageInv, CallsSound
<1>1. /\ live \subseteq app.voices /\ app.voices \subseteq Voices /\ index \in [Voices -> HwVoices]
      /\ free \subseteq HwVoices
      /\ image = [j \in HwVoices |-> [r \in Registers |-> image[j][r]]]
  BY <1>0, SizesAssumption DEF Shapes
<1>2. /\ live' = live \ {v} /\ holds' = holds \ {v} /\ free' = free \cup {index[v]}
      /\ image' = [image EXCEPT ![index[v]] = [r \in Registers |-> Unknown]]
      /\ UNCHANGED <<state, index, asked, word, current, locked, room, todo, raised>>
  BY DEF VoiceDestroy, SlotsCleared, Forget
<1>3. \A u \in live' : /\ u \in live /\ u \in Voices /\ u # v /\ index[u] # index[v]
                       /\ image'[index[u]] = image[index[u]]
  BY <1>0, <1>1, <1>2 DEF OwnIndex
<1>4. Shapes'
  <2>1. image' = [j \in HwVoices |-> [r \in Registers |-> image'[j][r]]]
    BY <1>1, <1>2
  <2>2. free' \subseteq HwVoices /\ holds' \subseteq live' /\ live' \subseteq app'.voices
    BY <1>0, <1>1, <1>2 DEF Shapes
  <2> QED BY <1>0, <1>2, <2>1, <2>2 DEF Shapes
<1>5. OwnIndex'
  BY <1>0, <1>2, <1>3 DEF OwnIndex
<1>6. CopiesFollow'
  <2> SUFFICES ASSUME NEW u \in live'
               PROVE  /\ asked'[u] \in Settings /\ asked'[u].format \in app.formats
                      /\ WordFile(word'[u])
                      /\ \A r \in Words \ {"TAR_PITCH"} :
                           Asks(asked'[u], state'[u] = "PLAYING", r, word'[u][r])
    BY AskedIs DEF CopiesFollow
  <2>1. u \in live
    BY <1>3
  <2>2. /\ asked[u] \in Settings /\ asked[u].format \in app.formats /\ WordFile(word[u])
        /\ \A r \in Words \ {"TAR_PITCH"} :
             Asks(asked[u], state[u] = "PLAYING", r, word[u][r])
    BY <1>0, <2>1, AskedIs DEF CopiesFollow
  <2> QED BY <1>2, <2>2
<1>7. BuffersFollow'
  BY <1>0, <1>2, <1>3 DEF BuffersFollow
<1>8. ASSUME NEW u \in live' PROVE Settled(u)'
  <2> SUFFICES ASSUME NEW r \in Registers
               PROVE  \E x : x = image'[index'[u]][r] /\ Suits(u, r, x)'
    BY DEF Settled
  <2>1. PICK x : x = image[index[u]][r] /\ Suits(u, r, x)
    BY <1>0, <1>3 DEF AtRest, Settled
  <2>2. Meets(u, asked[u], state[u] = "PLAYING", u \in holds, r, x)
    BY <2>1, SuitsIs
  <2>3. Meets(u, asked'[u], state'[u] = "PLAYING", u \in holds', r, x)
    BY <1>2, <2>2 DEF Meets
  <2>4. Suits(u, r, x)'
    BY <2>3, SuitsIs
  <2> QED BY <1>2, <1>3, <2>1, <2>4
<1>9. CallsSound'
  BY <1>0, <1>2, <1>8 DEF CallsSound, AtRest
<1> QED BY <1>4, <1>5, <1>6, <1>7, <1>9 DEF ImageInv

\* A step that changes neither the voices nor what they were asked.
LEMMA SameVoices ==
  ASSUME OwnIndex, CopiesFollow, BuffersFollow, app' = app,
         UNCHANGED <<live, state, index, holds, asked, word, free>>
  PROVE  /\ OwnIndex' /\ CopiesFollow' /\ BuffersFollow'
         /\ \A v, r, x : Suits(v, r, x) => Suits(v, r, x)'
<1>1. OwnIndex'
  BY DEF OwnIndex
<1>2. CopiesFollow'
  <2> SUFFICES ASSUME NEW u \in live'
               PROVE  /\ asked'[u] \in Settings /\ asked'[u].format \in app.formats
                      /\ WordFile(word'[u])
                      /\ \A r \in Words \ {"TAR_PITCH"} :
                           Asks(asked'[u], state'[u] = "PLAYING", r, word'[u][r])
    BY AskedIs DEF CopiesFollow
  <2>2. /\ asked[u] \in Settings /\ asked[u].format \in app.formats /\ WordFile(word[u])
        /\ \A r \in Words \ {"TAR_PITCH"} :
             Asks(asked[u], state[u] = "PLAYING", r, word[u][r])
    BY AskedIs DEF CopiesFollow
  <2> QED BY <2>2
<1>3. BuffersFollow'
  BY DEF BuffersFollow
<1>4. ASSUME NEW v, NEW r, NEW x, Suits(v, r, x) PROVE Suits(v, r, x)'
  <2>1. Meets(v, asked[v], state[v] = "PLAYING", v \in holds, r, x)
    BY <1>4, SuitsIs
  <2>2. Meets(v, asked'[v], state'[v] = "PLAYING", v \in holds', r, x)
    BY <2>1 DEF Meets
  <2> QED BY <2>2, SuitsIs
<1> QED BY <1>1, <1>2, <1>3, <1>4

LEMMA StepKeeps ==
  ASSUME ImageInv, app' = app, Step
  PROVE  ImageInv'
<1> DEFINE name == Head(todo)[1]
           val  == Head(todo)[2]
<1>0. Shapes /\ OwnIndex /\ CopiesFollow /\ BuffersFollow /\ todo # <<>>
  BY DEF ImageInv, Step
<1>1. PICK v \in live : InCall(v)
  BY <1>0 DEF ImageInv, CallsSound
<1> DEFINE i == index[v]
<1>2. /\ i \in HwVoices /\ v \in Voices
      /\ \A u \in live \ {v} : u \in Voices /\ index[u] \in HwVoices /\ index[u] # i
      /\ image = [j \in HwVoices |-> [r \in Registers |-> image[j][r]]]
      /\ current \in HwVoices /\ locked \subseteq HwVoices /\ room \in 0 .. FifoSize
      /\ raised \in BOOLEAN
  BY <1>0, SizesAssumption DEF Shapes, OwnIndex
<1>3. /\ todo \in Lists /\ Fits(todo, i) /\ Directed(todo, i, current) /\ Paced(todo, room)
      /\ locked \subseteq {i} /\ Final(todo, "LOCK", FALSE, i \in locked)
      /\ Pending(v) /\ \A u \in live \ {v} : Settled(u)
      /\ raised = FALSE /\ app.quiet => \A u \in live : Stopped(u)
  BY <1>1 DEF InCall
<1>4. /\ todo' = Tail(todo)
      /\ room' = IF name = "WAIT" THEN val ELSE room - 1
      /\ current' = IF name = "CURRENT" THEN val ELSE current
      /\ locked' = IF name # "LOCK" THEN locked
                   ELSE IF val THEN locked \cup {current} ELSE locked \ {current}
      /\ image' = IF name \in Registers THEN [image EXCEPT ![current][name] = val] ELSE image
      /\ raised' = (raised /\ Tail(todo) # <<>>)
      /\ UNCHANGED <<live, state, index, holds, asked, word, free>>
  BY DEF Step
<1>5. /\ Fits(todo', i) /\ Directed(todo', i, current')
      /\ name \notin {"WAIT", "CURRENT"} => current = i
      /\ name = "CURRENT" => val = i
      /\ name = "WAIT" => val \in 0 .. FifoSize
      /\ name = "LOCK" => val \in BOOLEAN
  BY <1>0, <1>3, <1>4, DirectedTail
<1>6. todo' \in Lists /\ Paced(todo', room') /\ (name # "WAIT" => room > 0)
  <2>1. room \in Int /\ todo' \in Lists
    BY <1>0, <1>2, <1>3, <1>4, SizesAssumption, TailAt
  <2> QED BY <1>0, <1>3, <1>4, <2>1, PacedTail
<1>7. /\ \A r, x, old : Final(todo, r, x, old) =>
            Final(todo', r, x, IF name = r THEN val ELSE old)
  BY <1>0, <1>3, <1>4, FinalTail
<1>8. "WAIT" \notin Registers /\ "CURRENT" \notin Registers /\ "LOCK" \notin Registers
  BY WordNames DEF Registers
<1> HIDE DEF name, val, i
<1>9. /\ image' = [j \in HwVoices |-> [r \in Registers |-> image'[j][r]]]
      /\ \A r \in Registers : image'[i][r] = IF name = r THEN val ELSE image[i][r]
      /\ \A u \in live \ {v} : image'[index[u]] = image[index[u]]
  <2>1. CASE name \in Registers
    <3>1. current = i /\ image' = [image EXCEPT ![i][name] = val]
      BY <1>4, <1>5, <1>8, <2>1
    <3> QED BY <1>2, <2>1, <3>1
  <2>2. CASE name \notin Registers
    <3>1. image' = image
      BY <1>4, <2>2
    <3> QED BY <1>2, <2>2, <3>1
  <2> QED BY <2>1, <2>2
<1>10. locked' \subseteq {i} /\ (i \in locked') = IF name = "LOCK" THEN val ELSE i \in locked
  <2>1. CASE name = "LOCK"
    <3>1. current = i /\ val \in {TRUE, FALSE}
      BY <1>5, <2>1
    <3>2. CASE val = TRUE
      <4>1. locked' = locked \cup {i}
        BY <1>4, <2>1, <3>1, <3>2
      <4>2. (i \in locked') = TRUE /\ locked' \subseteq {i}
        BY <1>3, <4>1
      <4> QED BY <2>1, <3>2, <4>2
    <3>3. CASE val = FALSE
      <4>1. locked' = locked \ {i}
        BY <1>4, <2>1, <3>1, <3>3
      <4>2. (i \in locked') = FALSE /\ locked' \subseteq {i}
        BY <1>3, <4>1
      <4> QED BY <2>1, <3>3, <4>2
    <3> QED BY <3>1, <3>2, <3>3
  <2>2. CASE name # "LOCK"
    <3>1. locked' = locked
      BY <1>4, <2>2
    <3> QED BY <1>3, <2>2, <3>1
  <2> QED BY <2>1, <2>2
<1>11. Final(todo', "LOCK", FALSE, i \in locked')
  <2>1. Final(todo', "LOCK", FALSE, IF name = "LOCK" THEN val ELSE i \in locked)
    BY <1>3, <1>7
  <2> QED BY Zenon, <1>10, <2>1
<1>12. /\ OwnIndex' /\ CopiesFollow' /\ BuffersFollow'
       /\ \A u, r, x : Suits(u, r, x) => Suits(u, r, x)'
  BY <1>0, <1>4, SameVoices
<1>13. Shapes'
  <2>1. current' \in HwVoices /\ locked' \subseteq HwVoices
    BY <1>2, <1>4, <1>5, <1>10
  <2>2. room' \in 0 .. FifoSize
    BY <1>2, <1>4, <1>5, <1>6, SizesAssumption
  <2>3. raised' \in BOOLEAN
    BY <1>4
  <2> QED BY <1>0, <1>4, <1>9, <2>1, <2>2, <2>3 DEF Shapes
<1>14. ASSUME NEW r \in Registers
       PROVE  \E x : Final(todo', r, x, image'[i][r]) /\ Suits(v, r, x)'
  <2>1. PICK x : Final(todo, r, x, image[i][r]) /\ Suits(v, r, x)
    BY <1>3 DEF Pending, i
  <2>2. Final(todo', r, x, image'[i][r])
    BY <1>7, <1>9, <2>1
  <2> QED BY <1>12, <2>1, <2>2
<1>15. ASSUME NEW u \in live \ {v} PROVE Settled(u)'
  <2> SUFFICES ASSUME NEW r \in Registers
               PROVE  \E x : x = image'[index'[u]][r] /\ Suits(u, r, x)'
    BY DEF Settled
  <2>1. PICK x : x = image[index[u]][r] /\ Suits(u, r, x)
    BY <1>3 DEF Settled
  <2> QED BY <1>4, <1>9, <1>12, <2>1
<1>16. CASE todo' = <<>>
  <2>1. Settled(v)'
    <3> SUFFICES ASSUME NEW r \in Registers
                 PROVE  \E x : x = image'[index'[v]][r] /\ Suits(v, r, x)'
      BY DEF Settled
    <3>1. PICK x : Final(todo', r, x, image'[i][r]) /\ Suits(v, r, x)'
      BY <1>14
    <3>2. x = image'[i][r]
      BY <1>16, <3>1, FinalDone
    <3> QED BY <1>4, <3>1, <3>2 DEF i
  <2>2. locked' = {}
    <3>1. FALSE = (i \in locked')
      BY <1>11, <1>16, FinalDone
    <3>2. i \notin locked'
      BY <3>1
    <3> QED BY <1>10, <3>2
  <2>3. raised' = FALSE
    BY <1>4, <1>16
  <2>4. \A u \in live' : Settled(u)'
    BY <1>4, <1>15, <2>1
  <2>5. CallsSound'
    BY <1>16, <2>2, <2>3, <2>4 DEF CallsSound, AtRest
  <2> QED BY <1>12, <1>13, <2>5 DEF ImageInv
<1>17. CASE todo' # <<>>
  <2>1. raised' = FALSE => raised = FALSE
    BY <1>2, <1>4, <1>17
  <2>2. Pending(v)'
    BY <1>4, <1>14 DEF Pending, i
  <2>3. index'[v] = i
    BY <1>4 DEF i
  <2>4. raised' = FALSE /\ app'.quiet => \A u \in live' : state'[u] = "STOPPED"
    BY <1>3, <1>4, <2>1 DEF Stopped
  <2>5. \A u \in live' \ {v} : Settled(u)'
    BY <1>4, <1>15
  <2>6. InCall(v)'
    BY <1>5, <1>6, <1>10, <1>11, <2>2, <2>3, <2>4, <2>5 DEF InCall, Stopped
  <2>7. v \in live'
    BY <1>4
  <2>8. CallsSound'
    BY <1>17, <2>6, <2>7 DEF CallsSound
  <2> QED BY <1>12, <1>13, <2>8 DEF ImageInv
<1> QED BY <1>16, <1>17
\* apu_dpc retires a voice: less is asked of its registers than before.
LEMMA RetireKeeps ==
  ASSUME ImageInv, app' = app, NEW v \in Voices, DpcRetire(v)
  PROVE  ImageInv'
<1>0. /\ Shapes /\ OwnIndex /\ CopiesFollow /\ BuffersFollow /\ CallsSound
      /\ v \in live /\ app' = app
  BY DEF ImageInv, DpcRetire
<1>1. /\ state \in [Voices -> {"STOPPED", "PLAYING", "STOPPING"}]
      /\ holds \subseteq live
  BY <1>0 DEF Shapes
<1>2. /\ state' = [state EXCEPT ![v] = "STOPPED"] /\ holds' \subseteq holds
      /\ UNCHANGED <<live, index, asked, word, free, current, locked, image, room,
                     todo, raised>>
  BY DEF DpcRetire
<1>3. \A u : state'[u] = "PLAYING" /\ u \in Voices => state[u] = "PLAYING" /\ u # v
  BY <1>1, <1>2
<1>4. live \subseteq Voices
  BY <1>0, SizesAssumption DEF Shapes
<1>5. Shapes'
  <2>1. state' \in [Voices -> {"STOPPED", "PLAYING", "STOPPING"}]
    BY <1>1, <1>2
  <2>2. holds' \subseteq live'
    BY <1>1, <1>2
  <2> QED BY <1>0, <1>2, <2>1, <2>2 DEF Shapes
<1>6. OwnIndex'
  BY <1>0, <1>2 DEF OwnIndex
<1>7. \A u \in live : \A r, x : Asks(asked[u], state[u] = "PLAYING", r, x) =>
                              Asks(asked'[u], state'[u] = "PLAYING", r, x)
  BY <1>2, <1>3, <1>4 DEF Asks
<1>8. CopiesFollow'
  <2> SUFFICES ASSUME NEW u \in live'
               PROVE  /\ asked'[u] \in Settings /\ asked'[u].format \in app.formats
                      /\ WordFile(word'[u])
                      /\ \A r \in Words \ {"TAR_PITCH"} :
                           Asks(asked'[u], state'[u] = "PLAYING", r, word'[u][r])
    BY <1>0, AskedIs DEF CopiesFollow
  <2>1. u \in live
    BY <1>2
  <2>2. /\ asked[u] \in Settings /\ asked[u].format \in app.formats /\ WordFile(word[u])
        /\ \A r \in Words \ {"TAR_PITCH"} :
             Asks(asked[u], state[u] = "PLAYING", r, word[u][r])
    BY <1>0, <2>1, AskedIs DEF CopiesFollow
  <2> QED BY <1>2, <1>7, <2>1, <2>2
<1>9. BuffersFollow'
  <2> SUFFICES ASSUME NEW u \in live
               PROVE  /\ state'[u] = "PLAYING" => u \in holds'
                      /\ "Submit" \notin app.calls /\ u \in holds' => asked[u].streaming
                      /\ "Queue" \notin app.calls => ~asked[u].streaming
    BY <1>0, <1>2 DEF BuffersFollow
  <2>1. state'[u] = "PLAYING" => u \in holds'
    <3>1. \A t \in holds \ {v} : t \in holds'
      BY DEF DpcRetire
    <3> QED BY <1>0, <1>3, <1>4, <3>1 DEF BuffersFollow
  <2> QED BY <1>0, <1>2, <2>1 DEF BuffersFollow
<1>10. ASSUME NEW u \in live, NEW r, NEW x, Suits(u, r, x) PROVE Suits(u, r, x)'
  <2>1. Meets(u, asked[u], state[u] = "PLAYING", u \in holds, r, x)
    BY <1>0, <1>10, SuitsIs
  <2>2. Meets(u, asked'[u], state'[u] = "PLAYING", u \in holds', r, x)
    BY <1>2, <1>7, <2>1 DEF Meets
  <2> QED BY <1>0, <2>2, SuitsIs
<1>11. ASSUME NEW u \in live, Settled(u) PROVE Settled(u)'
  <2> SUFFICES ASSUME NEW r \in Registers
               PROVE  \E x : x = image'[index'[u]][r] /\ Suits(u, r, x)'
    BY DEF Settled
  <2>1. PICK x : x = image[index[u]][r] /\ Suits(u, r, x)
    BY <1>11 DEF Settled
  <2> QED BY <1>2, <1>10, <2>1
<1>12. ASSUME todo = <<>> PROVE CallsSound'
  BY <1>0, <1>2, <1>11, <1>12 DEF CallsSound, AtRest
<1>13. ASSUME todo # <<>> PROVE CallsSound'
  <2>1. PICK c \in live : InCall(c)
    BY <1>0, <1>13 DEF CallsSound
  <2>2. Pending(c)'
    <3> SUFFICES ASSUME NEW r \in Registers
                 PROVE  \E x : Final(todo', r, x, image'[index'[c]][r]) /\ Suits(c, r, x)'
      BY DEF Pending
    <3>1. PICK x : Final(todo, r, x, image[index[c]][r]) /\ Suits(c, r, x)
      BY <2>1 DEF InCall, Pending
    <3> QED BY <1>2, <1>10, <3>1
  <2>3. \A u \in live' \ {c} : Settled(u)'
    BY <1>2, <1>11, <2>1 DEF InCall
  <2>4. raised' = FALSE /\ app'.quiet => \A u \in live' : state'[u] = "STOPPED"
    BY <1>0, <1>1, <1>2, <1>4, <2>1 DEF InCall, Stopped
  <2>5. InCall(c)'
    BY <1>2, <2>1, <2>2, <2>3, <2>4 DEF InCall, Stopped
  <2> QED BY <1>2, <1>13, <2>5 DEF CallsSound
<1> QED BY <1>5, <1>6, <1>8, <1>9, <1>12, <1>13 DEF ImageInv

\* The callback queues only between calls, in an application that is quiet where
\* its callback queues.
LEMMA CallbackKeeps ==
  ASSUME ImageInv, app' = app, QuietWhenQueueing, NEW v \in Voices, DpcCallback(v)
  PROVE  ImageInv'
<1>0. /\ Shapes /\ OwnIndex /\ CopiesFollow /\ BuffersFollow /\ CallsSound
      /\ v \in live /\ app' = app /\ state[v] # "STOPPED" /\ app.queues
      /\ raised = FALSE
  <2>1. raised \in BOOLEAN /\ ~raised
    BY DEF ImageInv, Shapes, DpcCallback
  <2> QED BY <2>1 DEF ImageInv, DpcCallback, Stopped
<1>1. todo = <<>>
  <2> SUFFICES ASSUME todo # <<>> PROVE FALSE
    OBVIOUS
  <2>1. PICK c \in live : InCall(c)
    BY <1>0 DEF CallsSound
  <2>2. app.quiet
    BY <1>0 DEF QuietWhenQueueing
  <2> QED BY <1>0, <2>1, <2>2 DEF InCall, Stopped
<1>2. AtRest /\ locked = {}
  BY <1>0, <1>1 DEF CallsSound, AtRest
<1> DEFINE c == [word[v]["CFG_FMT"] EXCEPT !.stream = TRUE]
           w == [word[v] EXCEPT !["CFG_FMT"].stream = TRUE]
           i == index[v]
<1>3. /\ i \in HwVoices /\ asked[v] \in Settings /\ WordFile(word[v])
      /\ asked[v].format \in app.formats
      /\ word = [u \in Voices |-> word[u]] /\ live \subseteq Voices
      /\ \A r \in Words \ {"TAR_PITCH"} :
           Asks(asked[v], state[v] = "PLAYING", r, word[v][r])
      /\ \A r \in Registers : Meets(v, asked[v], state[v] = "PLAYING", v \in holds, r,
                                    image[index[v]][r])
  <2>1. live \subseteq Voices
    BY <1>0, SizesAssumption DEF Shapes
  <2> QED BY <1>0, <1>1, <2>1, Known
<1>4. /\ image = [j \in HwVoices |-> [r \in Registers |-> image[j][r]]]
      /\ \A u \in live \ {v} : index[u] # i /\ index[u] \in HwVoices /\ u \in Voices
  BY <1>0, <1>3 DEF Shapes, OwnIndex
<1>5. "CFG_FMT" \in Words /\ "CFG_FMT" # "TAR_PITCH" /\ "DATA" \notin Words
      /\ Registers = Words \cup {"DATA"}
  BY WordNames DEF Registers
<1>6. /\ word[v]["CFG_FMT"] \in Values("CFG_FMT") /\ word[v] = [r \in Words |-> word[v][r]]
      /\ Asks(asked[v], state[v] = "PLAYING", "CFG_FMT", word[v]["CFG_FMT"])
  BY <1>3, <1>5 DEF WordFile
<1>7. /\ w = [r \in Words |-> w[r]] /\ w["CFG_FMT"] = c
      /\ \A r \in Words \ {"CFG_FMT"} : w[r] = word[v][r]
  BY <1>5, <1>6
<1>8. /\ asked[v].streaming = TRUE
      /\ current' = i /\ locked' = locked \ {i} /\ word' = [word EXCEPT ![v] = w]
      /\ image' = [image EXCEPT ![i]["CFG_FMT"] = w["CFG_FMT"], ![i]["DATA"] = <<v, TRUE>>]
      /\ room' = 0
      /\ UNCHANGED <<live, state, index, holds, asked, free, todo, raised>>
  <2>1. asked[v].streaming \in BOOLEAN /\ asked[v].streaming
    BY <1>3 DEF Settings, DpcCallback
  <2> QED BY <2>1 DEF DpcCallback, QueueWords
<1>9. c \in Values("CFG_FMT") /\ Asks(asked[v], state[v] = "PLAYING", "CFG_FMT", c)
  <2>1. word[v]["CFG_FMT"] \in [rate : Rates, stream : BOOLEAN, bins : BinSets,
                                persist : BOOLEAN, loop : BOOLEAN]
    BY <1>6, ValuesAre
  <2>2. asked[v].format.rate \in Rates /\ "2D" \in BinSets
    BY <1>3, SettingsGive DEF BinSets
  <2>3. c \in Values("CFG_FMT")
    BY <1>6, <2>2, FormatRecord
  <2>4. /\ c.rate = word[v]["CFG_FMT"].rate /\ c.bins = word[v]["CFG_FMT"].bins
        /\ c.loop = word[v]["CFG_FMT"].loop /\ c.persist = word[v]["CFG_FMT"].persist
        /\ c.stream = TRUE
    BY <2>1
  <2> HIDE DEF c
  <2> QED BY <1>6, <1>8, <2>3, <2>4 DEF Asks
<1> HIDE DEF c, w, i
<1>10. WordFile(w)
  BY <1>3, <1>7, <1>9 DEF WordFile
<1>11. /\ image' = [j \in HwVoices |-> [r \in Registers |-> image'[j][r]]]
       /\ image'[i]["CFG_FMT"] = c /\ image'[i]["DATA"] = <<v, TRUE>>
       /\ \A r \in Words \ {"CFG_FMT"} : image'[i][r] = image[i][r]
       /\ \A u \in live \ {v} : image'[index[u]] = image[index[u]]
  <2>1. image[i] = [r \in Registers |-> image[i][r]] /\ DOMAIN image = HwVoices
    BY <1>3, <1>4
  <2>2. image'[i] = [[image[i] EXCEPT !["CFG_FMT"] = c] EXCEPT !["DATA"] = <<v, TRUE>>]
    BY <1>3, <1>7, <1>8, <2>1
  <2>3. DOMAIN image' = HwVoices /\ \A j \in HwVoices \ {i} : image'[j] = image[j]
    BY <1>3, <1>8, <2>1
  <2> DEFINE d == <<v, TRUE>>
  <2> HIDE DEF d
  <2>4. image'[i] = [[image[i] EXCEPT !["CFG_FMT"] = c] EXCEPT !["DATA"] = d]
    BY <2>2 DEF d
  <2>5. /\ image'[i] = [r \in Registers |-> image'[i][r]]
        /\ image'[i]["CFG_FMT"] = c /\ image'[i]["DATA"] = d
        /\ \A r \in Words \ {"CFG_FMT"} : image'[i][r] = image[i][r]
    BY <1>5, <2>1, <2>4
  <2>6. image' = [j \in HwVoices |-> image'[j]]
    BY <1>8, <2>1
  <2>7. \A j \in HwVoices : image'[j] = [r \in Registers |-> image'[j][r]]
    BY <1>4, <2>3, <2>5
  <2>8. image' = [j \in HwVoices |-> [r \in Registers |-> image'[j][r]]]
    BY <2>6, <2>7
  <2>9. \A u \in live \ {v} : image'[index[u]] = image[index[u]]
    BY <1>4, <2>3
  <2> QED BY <2>5, <2>8, <2>9 DEF d
<1>12. Shapes'
  <2>1. word' = [u \in Voices |-> word'[u]]
    BY <1>3, <1>8
  <2>2. current' \in HwVoices /\ locked' \subseteq HwVoices
    BY <1>2, <1>3, <1>8
  <2>3. room' \in 0 .. FifoSize
    BY <1>8, SizesAssumption
  <2> QED BY <1>0, <1>8, <1>11, <2>1, <2>2, <2>3 DEF Shapes
<1>13. OwnIndex'
  BY <1>0, <1>8 DEF OwnIndex
<1>14. CopiesFollow'
  <2> SUFFICES ASSUME NEW u \in live
               PROVE  /\ asked'[u] \in Settings /\ asked'[u].format \in app.formats
                      /\ WordFile(word'[u])
                      /\ \A r \in Words \ {"TAR_PITCH"} :
                           Asks(asked'[u], state'[u] = "PLAYING", r, word'[u][r])
    BY <1>0, <1>8, AskedIs DEF CopiesFollow
  <2>1. CASE u = v
    <3>1. word'[v] = w
      BY <1>0, <1>3, <1>8
    <3>2. \A r \in Words \ {"TAR_PITCH"} : Asks(asked[v], state[v] = "PLAYING", r, w[r])
      BY <1>3, <1>7, <1>9
    <3> QED BY <1>3, <1>8, <1>10, <2>1, <3>1, <3>2
  <2>2. CASE u # v
    <3>1. word'[u] = word[u]
      BY <1>3, <1>8, <2>2
    <3>2. /\ asked[u] \in Settings /\ asked[u].format \in app.formats /\ WordFile(word[u])
          /\ \A r \in Words \ {"TAR_PITCH"} :
               Asks(asked[u], state[u] = "PLAYING", r, word[u][r])
      BY <1>0, AskedIs DEF CopiesFollow
    <3> QED BY <1>8, <3>1, <3>2
  <2> QED BY <2>1, <2>2
<1>15. BuffersFollow'
  BY <1>0, <1>8 DEF BuffersFollow
<1>16. ASSUME NEW u \in live PROVE Settled(u)'
  <2> SUFFICES ASSUME NEW r \in Registers
               PROVE  \E x : x = image'[index'[u]][r] /\ Suits(u, r, x)'
    BY DEF Settled
  <2>1. CASE u = v
    <3>1. PICK x : x = image'[i][r]
      OBVIOUS
    <3>2. Meets(v, asked[v], state[v] = "PLAYING", v \in holds, r, x)
      <4>1. CASE r = "DATA"
        <5>1. x = <<v, TRUE>>
          BY <1>11, <3>1, <4>1
        <5>2. <<v, TRUE>> = <<v, asked[v].streaming>>
          BY Zenon, <1>8
        <5>3. x = <<v, asked[v].streaming>>
          BY Zenon, <5>1, <5>2
        <5> QED BY <1>5, <4>1, <5>3 DEF Meets
      <4>2. CASE r = "CFG_FMT"
        BY <1>5, <1>9, <1>11, <3>1, <4>2 DEF Meets
      <4>3. CASE r # "DATA" /\ r # "CFG_FMT"
        BY <1>3, <1>5, <1>11, <3>1, <4>3 DEF i
      <4> QED BY <4>1, <4>2, <4>3
    <3>3. Suits(v, r, x)'
      <4>1. Meets(v, asked'[v], state'[v] = "PLAYING", v \in holds', r, x)
        BY <1>8, <3>2
      <4> QED BY <1>0, <4>1, SuitsIs
    <3> QED BY <1>8, <2>1, <3>1, <3>3 DEF i
  <2>2. CASE u # v
    <3>1. PICK x : x = image[index[u]][r] /\ Suits(u, r, x)
      BY <1>2 DEF AtRest, Settled
    <3>2. Meets(u, asked[u], state[u] = "PLAYING", u \in holds, r, x)
      BY <1>0, <3>1, SuitsIs
    <3>3. Meets(u, asked'[u], state'[u] = "PLAYING", u \in holds', r, x)
      BY <1>8, <3>2
    <3>4. Suits(u, r, x)'
      BY <1>0, <3>3, SuitsIs
    <3> QED BY <1>8, <1>11, <2>2, <3>1, <3>4
  <2> QED BY <2>1, <2>2
<1>17. CallsSound'
  BY <1>0, <1>1, <1>2, <1>8, <1>16 DEF CallsSound, AtRest
<1> QED BY <1>12, <1>13, <1>14, <1>15, <1>17 DEF ImageInv
-----------------------------------------------------------------------------
(* The theorems. *)

LEMMA InitSound == Init => ImageInv
<1> SUFFICES ASSUME Init PROVE ImageInv
  OBVIOUS
<1> USE DEF Init
<1>1. Shapes
  <2>1. 0 \in HwVoices /\ FifoSize \in 0 .. FifoSize
    BY SizesAssumption DEF HwVoices
  <2> QED BY <2>1 DEF Shapes
<1>2. OwnIndex /\ CopiesFollow /\ BuffersFollow
  BY DEF OwnIndex, CopiesFollow, BuffersFollow
<1>3. CallsSound
  BY DEF CallsSound, AtRest
<1> QED BY <1>1, <1>2, <1>3 DEF ImageInv

LEMMA NextKeeps ==
  ASSUME ImageInv, QuietWhenQueueing, Next
  PROVE  ImageInv'
<1>0. app' = app
  BY DEF Next
<1>1. ASSUME NEW v \in app.voices, NEW f \in app.formats, Passive("Create"), VoiceCreate(v, f)
      PROVE  ImageInv'
  BY <1>0, <1>1, CreateKeeps DEF Passive, Call
<1>2. ASSUME NEW v \in live, NEW f \in app.formats, Passive("SetFormat"), VoiceSetFormat(v, f)
      PROVE  ImageInv'
  BY <1>0, <1>2, FormatKeeps DEF Passive, Call
<1>3. ASSUME NEW v \in live, NEW p \in Pitches, Passive("SetPitch"), VoiceSetPitch(v, p)
      PROVE  ImageInv'
  BY <1>0, <1>3, PitchKeeps DEF Passive, Call
<1>4. ASSUME NEW v \in live, NEW k \in Knobs, NEW g \in Gains, Passive("SetGain"),
             VoiceSetGain(v, k, g)
      PROVE  ImageInv'
  BY <1>0, <1>4, GainKeeps DEF Passive, Call
<1>5. ASSUME NEW v \in live, NEW t \in Targets \cup {NoTarget}, Passive("SetTarget"),
             VoiceSetHRTFTarget(v, t)
      PROVE  ImageInv'
  BY <1>0, <1>5, TargetKeeps DEF Passive, Call
<1>6. ASSUME NEW v \in live, NEW b \in BOOLEAN, Passive("SetLooping"), VoiceSetLooping(v, b)
      PROVE  ImageInv'
  BY <1>0, <1>6, LoopingKeeps DEF Passive, Call
<1>7. ASSUME NEW v \in live, NEW e \in Params, Passive("Amplitude"),
             VoiceSetAmplitudeEnvelope(v, e)
      PROVE  ImageInv'
  BY <1>0, <1>7, AmplitudeKeeps DEF Passive, Call
<1>8. ASSUME NEW v \in live, NEW e \in Params, Passive("Filter"), VoiceSetFilterEnvelope(v, e)
      PROVE  ImageInv'
  BY <1>0, <1>8, FilterKeeps DEF Passive, Call
<1>9. ASSUME NEW v \in live, NEW e \in Params, Passive("Coefficients"),
             VoiceSetFilterCoefficients(v, e)
      PROVE  ImageInv'
  BY <1>0, <1>9, CoefficientsKeeps DEF Passive, Call
<1>10. ASSUME NEW v \in live, NEW b \in BOOLEAN, Call("Queue"), BufferQueue(v, b)
       PROVE  ImageInv'
  BY <1>0, <1>10, QueueKeeps DEF Call
<1>11. ASSUME NEW v \in live, NEW b \in BOOLEAN, Passive("Submit"), BufferSubmit(v, b)
       PROVE  ImageInv'
  BY <1>0, <1>11, SubmitKeeps DEF Passive, Call
<1>12. ASSUME NEW v \in live, Call("Start"), VoiceStart(v) PROVE ImageInv'
  BY <1>0, <1>12, StartKeeps DEF Call
<1>13. ASSUME NEW v \in live, Call("Release"), VoiceRelease(v) PROVE ImageInv'
  BY <1>0, <1>13, ReleaseKeeps DEF Call
<1>14. ASSUME NEW v \in live, Call("Stop"), VoiceStop(v) PROVE ImageInv'
  BY <1>0, <1>14, StopKeeps DEF Call
<1>15. ASSUME NEW v \in live, Call("Destroy"), VoiceDestroy(v) PROVE ImageInv'
  BY <1>0, <1>15, DestroyKeeps DEF Call
<1>16. Step => ImageInv'
  BY <1>0, StepKeeps
<1>17. ASSUME NEW v \in Voices, DpcCallback(v) PROVE ImageInv'
  BY <1>0, <1>17, CallbackKeeps
<1>18. ASSUME NEW v \in Voices, DpcRetire(v) PROVE ImageInv'
  BY <1>0, <1>18, RetireKeeps
<1> QED BY <1>1, <1>2, <1>3, <1>4, <1>5, <1>6, <1>7, <1>8, <1>9, <1>10, <1>11, <1>12,
           <1>13, <1>14, <1>15, <1>16, <1>17, <1>18 DEF Next

\* The invariant says what the run checks.
LEMMA ImageImplies ==
  ASSUME ImageInv
  PROVE  /\ RegistersSound /\ RoomForEveryWrite
         /\ OneClass /\ OneKind =>
              \A v \in live : state[v] = "PLAYING" /\ todo = <<>> =>
                 image[index[v]]["DATA"] = <<v, asked[v].streaming>>
<1>0. Shapes /\ OwnIndex /\ CopiesFollow /\ BuffersFollow /\ CallsSound
  BY DEF ImageInv
<1>1. TypeOK
  BY <1>0, SizesAssumption DEF Shapes, TypeOK
<1>2. HardwareFollowsCalls
  <2> SUFFICES ASSUME todo = <<>>, NEW v \in live, NEW r \in Words
               PROVE  image[index[v]][r] # Unknown /\ AskedFor(v, r, image[index[v]][r])
    BY DEF HardwareFollowsCalls
  <2>1. r \in Registers
    BY DEF Registers
  <2>2. PICK x : x = image[index[v]][r] /\ Suits(v, r, x)
    BY <1>0, <2>1 DEF CallsSound, AtRest, Settled
  <2>3. x \in Values(r) /\ AskedFor(v, r, x)
    BY <2>2 DEF Suits
  <2> QED BY <2>2, <2>3, UnknownAssumption
<1>3. NoneLeftLocked
  BY <1>0 DEF NoneLeftLocked, CallsSound, AtRest
<1>4. RoomForEveryWrite
  <2> SUFFICES ASSUME todo # <<>>, Head(todo)[1] # "WAIT" PROVE room > 0
    BY DEF RoomForEveryWrite
  <2>1. PICK v \in live : InCall(v)
    BY <1>0 DEF CallsSound
  <2>2. /\ todo \in Lists /\ Fits(todo, index[v]) /\ Paced(todo, room)
    BY <2>1 DEF InCall
  <2>3. room \in Int
    BY <1>0, SizesAssumption DEF Shapes
  <2> QED BY <2>2, <2>3, PacedTail
<1>5. ASSUME OneClass, OneKind, NEW v \in live, state[v] = "PLAYING", todo = <<>>
      PROVE  image[index[v]]["DATA"] = <<v, asked[v].streaming>>
  <2>1. "DATA" \in Registers /\ v \in holds
    BY <1>0, <1>5 DEF Registers, BuffersFollow
  <2>2. PICK x : x = image[index[v]]["DATA"] /\ Suits(v, "DATA", x)
    BY <1>0, <1>5, <2>1 DEF CallsSound, AtRest, Settled
  <2> QED BY <1>5, <2>1, <2>2 DEF Suits
<1> QED BY <1>1, <1>2, <1>3, <1>4, <1>5 DEF RegistersSound

LEMMA ImageInvariance == Spec => [](QuietWhenQueueing => ImageInv)
<1>1. Init => (QuietWhenQueueing => ImageInv)
  BY InitSound
<1>2. (QuietWhenQueueing => ImageInv) /\ [Next]_vars => (QuietWhenQueueing => ImageInv)'
  <2> SUFFICES ASSUME QuietWhenQueueing => ImageInv, [Next]_vars, QuietWhenQueueing'
               PROVE  ImageInv'
    OBVIOUS
  <2>1. app' = app
    BY DEF Next, vars
  <2>2. QuietWhenQueueing /\ ImageInv
    BY <2>1 DEF QuietWhenQueueing
  <2>3. CASE Next
    BY <2>2, <2>3, NextKeeps
  <2>4. CASE UNCHANGED vars
    <3>1. Shapes' /\ OwnIndex' /\ CopiesFollow' /\ BuffersFollow'
          /\ \A v, r, x : Suits(v, r, x) => Suits(v, r, x)'
      <4>1. Shapes'
        BY <2>2, <2>4 DEF ImageInv, Shapes, vars
      <4> QED BY <2>2, <2>4, <4>1, SameVoices DEF ImageInv, vars
    <3>2. \A u \in live : Settled(u) => Settled(u)'
      <4> SUFFICES ASSUME NEW u \in live, Settled(u), NEW r \in Registers
                   PROVE  \E x : x = image'[index'[u]][r] /\ Suits(u, r, x)'
        BY DEF Settled
      <4>1. PICK x : x = image[index[u]][r] /\ Suits(u, r, x)
        BY DEF Settled
      <4> QED BY <2>4, <3>1, <4>1 DEF vars
    <3>3. CallsSound'
      <4>1. CASE todo = <<>>
        BY <2>2, <2>4, <3>2, <4>1 DEF ImageInv, CallsSound, AtRest, vars
      <4>2. CASE todo # <<>>
        <5>1. PICK c \in live : InCall(c)
          BY <2>2, <4>2 DEF ImageInv, CallsSound
        <5>2. Pending(c)'
          <6> SUFFICES ASSUME NEW r \in Registers
                PROVE  \E x : Final(todo', r, x, image'[index'[c]][r]) /\ Suits(c, r, x)'
            BY DEF Pending
          <6>1. PICK x : Final(todo, r, x, image[index[c]][r]) /\ Suits(c, r, x)
            BY <5>1 DEF InCall, Pending
          <6> QED BY <2>4, <3>1, <6>1 DEF vars
        <5>3. InCall(c)'
          BY <2>4, <3>2, <5>1, <5>2 DEF InCall, Stopped, vars
        <5> QED BY <2>4, <4>2, <5>3 DEF CallsSound, vars
      <4> QED BY <4>1, <4>2
    <3> QED BY <3>1, <3>3 DEF ImageInv
  <2> QED BY <2>3, <2>4
<1> QED BY <1>1, <1>2, PTL DEF Spec

\* Between calls the registers of every created voice hold what its accepted
\* calls asked for, and no voice is left locked, where the callback queues only
\* while no setter is under way.
THEOREM RegistersAsAsked == Spec => [](QuietWhenQueueing => RegistersSound)
<1>1. (QuietWhenQueueing => ImageInv) => (QuietWhenQueueing => RegistersSound)
  BY ImageImplies
<1> QED BY <1>1, ImageInvariance, PTL

\* No write of the setters, of nxAudioVoiceCreate or of the buffer and transport
\* calls is issued into a FIFO that may be full.
THEOREM NoWriteIntoFullFifo == Spec => [](QuietWhenQueueing => RoomForEveryWrite)
<1>1. (QuietWhenQueueing => ImageInv) => (QuietWhenQueueing => RoomForEveryWrite)
  BY ImageImplies
<1> QED BY <1>1, ImageInvariance, PTL

\* A voice that plays reads its own buffer, in an application of one class of
\* formats that keeps to one of nxAudioBufferQueue and nxAudioBufferSubmit.
THEOREM OwnBuffer == Spec => []PlaysItsOwnBuffer
<1>1. (QuietWhenQueueing => ImageInv) => PlaysItsOwnBuffer
  BY ImageImplies DEF PlaysItsOwnBuffer
<1> QED BY <1>1, ImageInvariance, PTL
=============================================================================
