------------------------------ MODULE MCSerial ------------------------------
(* Texts for Serial.                                                        *)
EXTENDS Serial

CONSTANTS a, b, c, d

Chars == {a, b, c, d, NEWLINE, RETURN}
Line  == <<a, NEWLINE, RETURN, b>>
Async == <<c, d>>
=============================================================================
