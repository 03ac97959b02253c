------------------------------ MODULE SslSplit ------------------------------
(***************************************************************************)
(* How a buffer is described to the voice processor (audio_buffer.c).      *)
(* nxAudioBufferQueue gives it as a list of at most MaxSsl physically      *)
(* contiguous pieces, found by probing the page tables, written through a  *)
(* window of SegSize entries into a table all voices share.                *)
(* nxAudioBufferSubmit gives the buffer as one scatter-gather entry per    *)
(* page.  Both descriptions must lead the VP to the bytes of the buffer.   *)
(* Memory is byte-addressed and scaled down; the page mapping, the         *)
(* alignment and the size of a buffer are inputs.                          *)
(***************************************************************************)
EXTENDS Integers, Sequences, FiniteSets, FiniteSetsExt

CONSTANTS
  NumVoices, NumSge,          \* hardware voices, entries of the SGE table
  PageSize,                   \* PAGE_SIZE
  MaxSsl, SegSize,            \* MCPX_HW_MAX_PRD_ENTRIES_PER_SSL, 64
  FieldSize,                  \* 2^16: the length field of an entry
  AdpcmBytes, AdpcmSamples,   \* 36, 64
  Formats, Buffers,           \* the inputs
  MaxCalls                    \* bound: calls made

\* A buffer: the page frames behind its virtual pages, its offset in the first
\* page, its size, and whether it lies in the direct-mapped region.
Format == [adpcm : BOOLEAN, bytes_per_sample : 1 .. 4, channels : Nat \ {0}]
Buffer == [frames : Seq(Nat), at : 0 .. PageSize - 1, size : Nat \ {0}, direct : BOOLEAN]
ASSUME SplitAssumption ==
  /\ {NumVoices, PageSize, MaxSsl, SegSize, AdpcmBytes, AdpcmSamples} \subseteq Nat \ {0}
  /\ FieldSize \in Nat \ {0, 1} /\ {NumSge, MaxCalls} \subseteq Nat
  /\ Formats \subseteq Format /\ Buffers \subseteq Buffer
  /\ \A b \in Buffers :
       /\ b.at + b.size <= PageSize * Len(b.frames)
       /\ b.direct => \A k \in 1 .. Len(b.frames) - 1 :
                        b.frames[k + 1] = b.frames[k] + 1

Voices == 0 .. NumVoices - 1
Slots  == {0, 1}
Nobody == [frames |-> <<>>, at |-> 0, size |-> 0, direct |-> FALSE]

\* MmGetPhysicalAddress of byte n of a buffer.
Phys(b, n) ==
  b.frames[1 + (b.at + n) \div PageSize] * PageSize + ((b.at + n) % PageSize)

\* apu_format_blocks_to_bytes of one block; what an entry counts per block.
Container(f)  == IF f.bytes_per_sample = 3 THEN 4 ELSE f.bytes_per_sample
BlockBytes(f) ==
  IF f.adpcm THEN AdpcmBytes * f.channels ELSE Container(f) * f.channels
BlockSamples(f) == IF f.adpcm THEN AdpcmSamples ELSE 1
MaxBytes(f) == (FieldSize - 1) * BlockBytes(f)
\* apu_format_get_container_size
ContainerSize(f) ==
  IF f.adpcm THEN "ADPCM"
  ELSE CASE f.bytes_per_sample = 1 -> "B8"
         [] f.bytes_per_sample = 2 -> "B16"
         [] f.bytes_per_sample \in {3, 4} -> "B32"

Entry(a, n, f) == [addr |-> a, samples |-> n % FieldSize,
                   container |-> ContainerSize(f), channels |-> f.channels]
NoEntry == [addr |-> -1, samples |-> 0, container |-> "B8", channels |-> 1]
NoCall == [voice |-> 0, slot |-> 0, buf |-> Nobody, va |-> 0, left |-> 0,
           contig |-> 0, entries |-> <<>>, i |-> 0]

VARIABLES
  fmt,            \* the format of each voice
  ssl, segment,   \* the SSL table and the window of SET_CURRENT_SSL
  count,          \* SSL A and B of each voice: entries, from its own base
  sge, range,     \* the SGE table; base and count of each voice's entries
  inbuf,          \* BUF_BASE and EBO of each voice
  loaded,         \* history: the buffer each slot was last given
  submitted,      \* the buffer each voice was submitted
  calls,          \* calls made
  pc, call        \* the call under way and its locals

table == <<ssl, segment, count, sge, range, inbuf>>
vars == <<fmt, table, loaded, submitted, calls, pc, call>>

\* ssl_base_index
SslBase(v, s) == v * 2 * MaxSsl + s * MaxSsl

Init ==
  /\ fmt \in [Voices -> Formats]
  /\ ssl = [k \in 0 .. NumVoices * 2 * MaxSsl - 1 |-> NoEntry]
  /\ segment = 0
  /\ count = [v \in Voices |-> [s \in Slots |-> 0]]
  /\ sge = [k \in 0 .. NumSge - 1 |-> -1]
  /\ range = [v \in Voices |-> [base |-> 0, count |-> 0]]
  /\ inbuf = [v \in Voices |-> [base |-> 0, ebo |-> 0]]
  /\ loaded = [v \in Voices |-> [s \in Slots |-> Nobody]]
  /\ submitted = [v \in Voices |-> Nobody]
  /\ calls = 0
  /\ pc = "idle" /\ call = NoCall

(***************************************************************************)
(* nxAudioBufferQueue: insert_buffer_to_ssl for slot s.                    *)
(***************************************************************************)
Queue(v, s, b) ==
  /\ pc = "idle" /\ calls < MaxCalls
  /\ calls' = calls + 1
  /\ pc' = "split"
  /\ call' = [NoCall EXCEPT !.voice = v, !.slot = s, !.buf = b, !.left = b.size]
  /\ UNCHANGED <<fmt, table, loaded, submitted>>

ListFull(n) == n >= MaxSsl
Refuse ==
  /\ pc = "split" /\ call.left > 0 /\ ListFull(Len(call.entries))
  /\ pc' = "refused"
  /\ UNCHANGED <<fmt, table, loaded, submitted, calls, call>>

\* get_memory_properties: up to the end of the first page, or everything.
Shorter(a, b) == IF a < b THEN a ELSE b
RestOfPage(b, n) == PageSize - (Phys(b, n) % PageSize)
Probe ==
  /\ pc = "split" /\ call.left > 0 /\ ~ListFull(Len(call.entries))
  /\ pc' = "probe"
  /\ call' = [call EXCEPT !.contig =
       IF call.buf.direct THEN call.left
       ELSE Shorter(RestOfPage(call.buf, call.va), call.left)]
  /\ UNCHANGED <<fmt, table, loaded, submitted, calls>>

\* The loop over the following pages.
ContinuesNot == FALSE
ContinuesAlways == call.contig < call.left
Continues ==
  /\ call.contig < call.left
  /\ Phys(call.buf, call.va + call.contig) = Phys(call.buf, call.va) + call.contig
ProbeNext ==
  /\ pc = "probe" /\ Continues
  /\ call' = [call EXCEPT !.contig =
       @ + Shorter(RestOfPage(call.buf, call.va + @), call.left - @)]
  /\ UNCHANGED <<fmt, table, loaded, submitted, calls, pc>>

\* The piece is cut to what an entry can count and to whole blocks; a piece
\* with no whole block ends the loop.
Piece(f) ==
  LET n == Shorter(call.contig, MaxBytes(f)) IN n - (n % BlockBytes(f))
SamplesPerChannel(f) ==
  ((Piece(f) \div BlockBytes(f)) * BlockSamples(f)) \div f.channels
Samples(f) == (Piece(f) \div BlockBytes(f)) * BlockSamples(f)
Emit ==
  LET f == fmt[call.voice]
  IN /\ pc = "probe" /\ ~Continues
     /\ IF Piece(f) = 0
        THEN pc' = "write" /\ call' = [call EXCEPT !.contig = 0]
        ELSE /\ pc' = "split"
             /\ call' = [call EXCEPT
                  !.va = @ + Piece(f), !.left = @ - Piece(f), !.contig = 0,
                  !.entries = Append(@, Entry(Phys(call.buf, call.va), Samples(f), f))]
     /\ UNCHANGED <<fmt, table, loaded, submitted, calls>>

SplitDone ==
  /\ pc = "split" /\ call.left = 0
  /\ pc' = "write"
  /\ UNCHANGED <<fmt, table, loaded, submitted, calls, call>>

\* SET_CURRENT_SSL and the entry, through the window; then the count.
InSegment(k) == k % SegSize
WriteSsl ==
  /\ pc = "write" /\ call.i < Len(call.entries)
  /\ LET k == SslBase(call.voice, call.slot) + call.i
     IN /\ segment' = k \div SegSize
        /\ ssl' = [ssl EXCEPT ![segment' * SegSize + InSegment(k)] =
                     call.entries[call.i + 1]]
  /\ call' = [call EXCEPT !.i = @ + 1]
  /\ UNCHANGED <<fmt, count, sge, range, inbuf, loaded, submitted, calls, pc>>

SetVoiceSsl ==
  /\ pc = "write" /\ call.i = Len(call.entries)
  /\ count' = [count EXCEPT ![call.voice][call.slot] = Len(call.entries)]
  /\ loaded' = [loaded EXCEPT ![call.voice][call.slot] = call.buf]
  /\ pc' = "queued"
  /\ UNCHANGED <<fmt, ssl, segment, sge, range, inbuf, submitted, calls, call>>

Return ==
  /\ pc \in {"refused", "queued"}
  /\ pc' = "idle" /\ call' = NoCall
  /\ UNCHANGED <<fmt, table, loaded, submitted, calls>>

(***************************************************************************)
(* nxAudioBufferSubmit: insert_buffer_to_sge.  The range it is given is    *)
(* free (SgeAllocator); a voice is submitted one buffer here.              *)
(***************************************************************************)
Pages(b) == (b.at + b.size + PageSize - 1) \div PageSize
Entries(v) == range[v].base .. range[v].base + range[v].count - 1
Submit(v, b) ==
  /\ pc = "idle" /\ calls < MaxCalls /\ submitted[v] = Nobody
  /\ b.size >= BlockBytes(fmt[v])
  /\ calls' = calls + 1
  /\ \E k \in 0 .. NumSge - Pages(b) :
       /\ \A w \in Voices : Entries(w) \cap (k .. k + Pages(b) - 1) = {}
       /\ range' = [range EXCEPT ![v] = [base |-> k, count |-> Pages(b)]]
  /\ pc' = "pages" /\ call' = [NoCall EXCEPT !.voice = v, !.buf = b]
  /\ UNCHANGED <<fmt, ssl, segment, count, sge, inbuf, loaded, submitted>>

WriteSge ==
  /\ pc = "pages" /\ call.i < range[call.voice].count
  /\ sge' = [sge EXCEPT ![range[call.voice].base + call.i] =
               Phys(call.buf, call.va) - (Phys(call.buf, call.va) % PageSize)]
  \* virtual_address goes on by a page; past the buffer only when the loop ends
  /\ call' = [call EXCEPT !.i = @ + 1,
                          !.va = @ + (IF call.i + 1 < range[call.voice].count
                                      THEN PageSize ELSE 0)]
  /\ UNCHANGED <<fmt, ssl, segment, count, range, inbuf, loaded, submitted, calls, pc>>

\* BUF_BASE counts bytes from the first entry of the table, EBO whole blocks.
InBuf(v, b) ==
  [base |-> range[v].base * PageSize + (Phys(b, 0) % PageSize),
   ebo  |-> (b.size \div BlockBytes(fmt[v])) - 1]
SetBufBase ==
  /\ pc = "pages" /\ call.i = range[call.voice].count
  /\ inbuf' = [inbuf EXCEPT ![call.voice] = InBuf(call.voice, call.buf)]
  /\ submitted' = [submitted EXCEPT ![call.voice] = call.buf]
  /\ pc' = "queued"
  /\ UNCHANGED <<fmt, ssl, segment, count, sge, range, loaded, calls, call>>

Next ==
  \/ \E v \in Voices, s \in Slots, b \in Buffers : Queue(v, s, b)
  \/ Refuse \/ Probe \/ ProbeNext \/ Emit \/ SplitDone \/ WriteSsl
  \/ SetVoiceSsl \/ Return
  \/ \E v \in Voices, b \in Buffers : Submit(v, b)
  \/ WriteSge \/ SetBufBase
Spec == Init /\ [][Next]_vars

-----------------------------------------------------------------------------
TypeOK ==
  /\ fmt \in [Voices -> Formats]
  /\ count \in [Voices -> [Slots -> 0 .. MaxSsl]]
  /\ loaded \in [Voices -> [Slots -> Buffers \cup {Nobody}]]
  /\ submitted \in [Voices -> Buffers \cup {Nobody}]
  /\ DOMAIN ssl = 0 .. NumVoices * 2 * MaxSsl - 1
  /\ DOMAIN sge = 0 .. NumSge - 1
  /\ pc \in {"idle", "split", "probe", "write", "refused", "queued", "pages"}
  /\ calls \in 0 .. MaxCalls /\ call.left \in Nat /\ call.contig \in 0 .. call.left

\* What the VP plays of a list of entries: the bytes of each, one after another.
BytesOf(e, f) == (e.samples \div BlockSamples(f)) * BlockBytes(f)
Ends(es, f) ==       \* where each entry ends, from where the first begins
  LET end[k \in 0 .. Len(es)] ==
        IF k = 0 THEN 0 ELSE end[k - 1] + BytesOf(es[k], f)
  IN end
DescribesAt(es, b, f, end) ==
  \A k \in 1 .. Len(es) :
    /\ es[k].container = ContainerSize(f) /\ es[k].channels = f.channels
    /\ end[k] <= b.size
    /\ \A n \in end[k - 1] .. end[k] - 1 : es[k].addr + (n - end[k - 1]) = Phys(b, n)
Describes(es, b, f) == DescribesAt(es, b, f, Ends(es, f))
Played(v, s) == [k \in 1 .. count[v][s] |-> ssl[SslBase(v, s) + k - 1]]
BeingWritten(v, s) == pc = "write" /\ call.voice = v /\ call.slot = s

Contiguous(b, m, n) == \A j \in m .. n - 1 : Phys(b, j) = Phys(b, m) + j - m

\* The assertion of line 120: an entry can count the blocks of a contiguous piece.
PiecesCanBeCounted ==
  \A b \in Buffers, f \in Formats : f.adpcm =>
    \A m \in 0 .. b.size, n \in 0 .. b.size :
      m <= n /\ Contiguous(b, m, n)
        => ((n - m) \div BlockBytes(f)) * AdpcmSamples < FieldSize

\* Whatever is queued to the other slots and voices, and even when a call is
\* refused, the VP finds in a slot the bytes of the buffer it was last given,
\* from the first one on and in order (audio_buffer.c:88-155).
SslsDescribeBuffers ==
  \A v \in Voices, s \in Slots :
    loaded[v][s] # Nobody /\ ~BeingWritten(v, s)
      => Describes(Played(v, s), loaded[v][s], fmt[v])

\* A buffer of whole blocks is refused only if no split of it into MaxSsl entries
\* exists: the probing finds the longest pieces (audio_buffer.c:89-92).  A rest
\* of less than a block counts as one more piece when MaxSsl are used.
SplitsAt(cuts, b, f) ==
  LET ends == cuts \cup {0, b.size}
  IN \A m \in ends :
       \/ \A n \in ends : n <= m
       \/ \E n \in ends : /\ m < n /\ n - m <= MaxBytes(f)
                          /\ ends \cap (m + 1 .. n - 1) = {}
                          /\ Contiguous(b, m, n)
RefusedOnlyWhenNeeded ==
  pc = "refused" /\ call.buf.size % BlockBytes(fmt[call.voice]) = 0 =>
    LET f == fmt[call.voice]
        inner == {n \in 1 .. call.buf.size - 1 : n % BlockBytes(f) = 0}
    IN \A cuts \in UNION {kSubset(n, inner) : n \in 0 .. MaxSsl - 1} :
         ~SplitsAt(cuts, call.buf, f)

\* Every byte of a submitted buffer is where the VP looks for it: byte n of the
\* buffer at BUF_BASE + n, through an entry of the voice; and EBO is the last
\* whole block of it (lines 173-211).
SgesDescribeBuffers ==
  \A v \in Voices : submitted[v] # Nobody =>
    LET b == submitted[v]
        rest == b.size - (inbuf[v].ebo + 1) * BlockBytes(fmt[v])
    IN /\ rest \in 0 .. BlockBytes(fmt[v]) - 1
       /\ \A n \in 0 .. b.size - 1 :
            LET a == inbuf[v].base + n
            IN /\ a \div PageSize \in Entries(v)
               /\ sge[a \div PageSize] + (a % PageSize) = Phys(b, n)

\* A buffer whose blocks divide the pages, and that starts at a block, is played
\* to its last whole block: a call that returned true has dropped nothing
\* (include/nxaudio.h:213).
BlocksFitPages(b, f) ==
  PageSize % BlockBytes(f) = 0 /\ b.at % BlockBytes(f) = 0
NothingDropped ==
  \A v \in Voices, s \in Slots :
    LET f == fmt[v]  b == loaded[v][s]
    IN b # Nobody /\ ~BeingWritten(v, s) /\ BlocksFitPages(b, f)
         => Ends(Played(v, s), f)[count[v][s]] = b.size - (b.size % BlockBytes(f))

\* The shared tables describe each queued and each submitted buffer, whatever
\* other voices and later calls have written to them.
TablesSound == TypeOK /\ SslsDescribeBuffers /\ SgesDescribeBuffers
=============================================================================
