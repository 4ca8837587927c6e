---------------------------- MODULE MCByteStream -----------------------------
(* The stream over rings of three and four bytes, with elements of one and  *)
(* two bytes: in the ring of three a wide vector may lie across the seam in *)
(* the middle of an element, in the ring of four between two elements too.  *)
EXTENDS ByteStream

MCByte        == {0, 1}
MCZero        == 0
MCBufferSizes == {3, 4}
=============================================================================
