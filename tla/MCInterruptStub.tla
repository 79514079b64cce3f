-------------------------- MODULE MCInterruptStub ---------------------------
(* Link addresses for InterruptStub, some of them on either side of a 64 KB *)
(* boundary.                                                                *)
EXTENDS InterruptStub

MCStubAddress ==
  [v \in Vectors |->
     CASE v = 0  -> 1048576
       [] v = 3  -> 1114111
       [] v = 13 -> 1114112
       [] v = 14 -> 16777216
       [] v = 64 -> 16777217
       [] OTHER  -> 2147418112 + v]
=============================================================================
