---------------------------- MODULE MCInterrupts ----------------------------
(* A firmware state for Interrupts.                                         *)
EXTENDS Interrupts

\* vector bases 0x08 and 0x70, where a PC's firmware puts them
FirmwareBase == [master |-> {3}, slave |-> {4, 5, 6}]

\* lines 0, 5 and 7, the cascade and line 12 are open, the others masked
FirmwareMask == [master |-> Bits \ {0, 2, 5, 7}, slave |-> Bits \ {4}]
=============================================================================
