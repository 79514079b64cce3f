------------------------------ MODULE MCLogger ------------------------------
(* A ring of three slots, two levels and two modules.                       *)
EXTENDS Logger
=============================================================================
