--------------------------- MODULE MCCameraFrames ---------------------------
(* Streams of four frames, of pictures short and long, with one fill byte *)
(* before the end marker or none; and of five with headers longer than the *)
(* pictures, where a search can stop at the first byte of a frame that is  *)
(* as long as the reader looks ahead.                                      *)
EXTENDS CameraFrames

Picture(n, fill) ==
  SOI \o [i \in 1..n |-> "x"] \o (IF fill THEN <<"FF">> ELSE <<>>) \o EOI

Pictures == {Picture(1, FALSE), Picture(3, FALSE), Picture(9, FALSE),
             Picture(2, TRUE)}

Headers == {1, 3}

LongHeaded == [head : {6}, given : {FALSE}, jpeg : {Picture(n, FALSE) : n \in {0, 4, 6}}]

MCStreams ==
  UNION {[1..4 -> [head : Headers, given : {given}, jpeg : Pictures]] :
           given \in BOOLEAN}
    \cup [1..5 -> LongHeaded]
=============================================================================
