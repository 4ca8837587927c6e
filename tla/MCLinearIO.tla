------------------------------ MODULE MCLinearIO -----------------------------
(* Four slots, so that a span, the stored bytes and a second span fit side by *)
(* side and wrap; two byte values tell whose bytes are where.                 *)
EXTENDS LinearIO

CONSTANTS p1, c1

MCByte        == {0, 1}
MCZero        == 0
MCBufferSizes == {4}
OneProducer   == {p1}
OneConsumer   == {c1}
=============================================================================
