------------------------------- MODULE MCText -------------------------------
(* Words of one byte, exhaustively, and all formats of up to four           *)
(* characters out of %, s, d, x and another one.                            *)
EXTENDS Text

AllFormats == UNION {[1 .. n -> {PERCENT, CHAR_S, CHAR_D, CHAR_X, 97}] : n \in 0 .. 4}
TwoInts    == {0, -12}
TwoStrings == {<<>>, <<98, 99>>}
=============================================================================
