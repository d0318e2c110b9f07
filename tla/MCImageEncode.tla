---------------------------- MODULE MCImageEncode ----------------------------
(* TLC instance of ImageEncode: pictures of up to three by three pixels,   *)
(* rows padded by up to two bytes, cut short anywhere, with room for every *)
(* picture or for three pixels of colour.                                  *)
EXTENDS ImageEncode

Sides    == 0 .. 4
RowSteps == 0 .. 11
Bytes    == 0 .. 33
Room     == {12, 64}
=============================================================================
