----------------------------- MODULE MCSslSplit -----------------------------
(***************************************************************************)
(* Inputs of SslSplit for TLC.                                             *)
(***************************************************************************)
EXTENDS SslSplit

Pcm(b, c) == [adpcm |-> FALSE, bytes_per_sample |-> b, channels |-> c]
Adpcm(c)  == [adpcm |-> TRUE, bytes_per_sample |-> 1, channels |-> c]
Buf(fr, at, n, d) == [frames |-> fr, at |-> at, size |-> n, direct |-> d]

\* Pages that follow one another, that do not, and both; every offset in the
\* first page; buffers of less than a block, of whole blocks and of some rest.
PagedBuffers ==
  {Buf(<<1>>, 1, 3, FALSE), Buf(<<1, 2>>, 3, 5, FALSE),
   Buf(<<2, 1>>, 0, 8, FALSE), Buf(<<2, 1>>, 1, 7, FALSE),
   Buf(<<1, 2, 4>>, 0, 12, FALSE), Buf(<<1, 2, 4>>, 1, 11, FALSE),
   Buf(<<1, 3, 4>>, 2, 7, FALSE),
   Buf(<<3, 2, 1>>, 0, 11, FALSE), Buf(<<3, 2, 1>>, 3, 6, FALSE)}
DirectBuffers == {Buf(<<1, 2>>, 2, 6, TRUE), Buf(<<1, 2, 3>>, 1, 11, TRUE),
                  Buf(<<1>>, 3, 1, TRUE)}
SomeBuffers == PagedBuffers \cup DirectBuffers
SomeFormats == {Pcm(1, 1), Pcm(2, 1), Pcm(3, 1), Pcm(2, 2), Adpcm(1)}

\* Of these buffers the assertion holds.
ASSUME PiecesCanBeCounted
=============================================================================
