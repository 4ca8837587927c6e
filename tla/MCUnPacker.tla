------------------------------ MODULE MCUnPacker -----------------------------
(* One- and two-byte keys in each of the modes, over storage that a packet   *)
(* or two fill.  Bytes are numbers: a packet's length byte is one of them.   *)
EXTENDS UnPacker

Keys(h, t, cb) == [head |-> h, tail |-> t, callbacks |-> cb]

MCFormats ==
  { Keys(<<2>>, <<>>, FALSE), Keys(<<2>>, <<0>>, FALSE), Keys(<<2>>, <<0>>, TRUE),
    Keys(<<2, 0>>, <<>>, FALSE), Keys(<<2, 0>>, <<0, 2>>, FALSE),
    Keys(<<2, 0>>, <<0, 2>>, TRUE), Keys(<<>>, <<0>>, TRUE) }

MCByte == 0..2
=============================================================================
