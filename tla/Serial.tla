------------------------------- MODULE Serial -------------------------------
(***************************************************************************)
(* The serial port (io.c): the bytes that set up the UART, the busy wait   *)
(* and write of a character by the main thread, the polling write of the   *)
(* asynchronous future (async_executor.c), and the dot the RTC's handler   *)
(* prints through the same registers.                                      *)
(*                                                                         *)
(* The UART, a 16550, is external.  A byte that configures it is the set   *)
(* of its bits; a character is a model value.  Every port access is a      *)
(* step, of the main thread or of the handler on top of it.                *)
(***************************************************************************)
EXTENDS Integers, Sequences

CONSTANTS
  Char,       \* the characters a text may have
  NEWLINE, RETURN, DOT,
  str,        \* what write_serial_string is given
  data,       \* what the asynchronous future writes
  FirmwareIER,\* the interrupts the firmware may have left enabled
  FifoSize,   \* 16 in a 16550
  MaxDots     \* bound: dots printed by the handler

(* The byte of the loopback test, 0xAE.                                     *)
TestByte == {1, 2, 3, 5, 7}

(* The texts have no dots, so that those of the handler can be told apart,  *)
(* and a dot (0x2E) is not the byte of the loopback test.                   *)
ASSUME SerialAssumption ==
  /\ {NEWLINE, RETURN} \subseteq Char /\ DOT \notin Char /\ DOT # TestByte
  /\ FifoSize \in Nat /\ FifoSize >= 2 /\ MaxDots \in Nat
  /\ FirmwareIER \subseteq SUBSET (0 .. 3)
  /\ str \in Seq(Char) /\ data \in Seq(Char)

VARIABLES
  thread, index,    \* main thread: what it does next, at which byte or character
  cr,               \* the carriage return of the current newline is out
  handler, dots,    \* what the handler does next, and the dots it has printed
  pending,          \* the future has been told that the port is not ready
  ier, lcr, fcr, mcr, divisor,  \* UART: its registers
  fifo, shift,      \* UART: characters waiting, the one being sent
  wire,             \* UART: what has been sent
  lost              \* UART: characters that found no room

main  == <<thread, index, cr, pending>>
hand  == <<handler, dots>>
setup == <<ier, lcr, fcr, mcr, divisor>>
line  == <<fifo, shift, wire, lost>>
serialVars == <<main, hand, setup, line>>

-----------------------------------------------------------------------------
Out(offset, byte) == [offset |-> offset, byte |-> byte]

(* Mutant: the FIFO is cleared but not enabled.                             *)
init_serial_NoFifo ==
  <<Out(1, {}), Out(3, {7}), Out(0, {0, 1}), Out(1, {}), Out(3, {0, 1}),
    Out(2, {1, 2, 6, 7}), Out(4, {0, 1, 3}), Out(4, {1, 2, 3, 4}),
    Out(0, TestByte), Out(4, {0, 1, 2, 3})>>

(* Mutant: the port stays in loopback mode.                                 *)
init_serial_Loopback ==
  <<Out(1, {}), Out(3, {7}), Out(0, {0, 1}), Out(1, {}), Out(3, {0, 1}),
    Out(2, {0, 1, 2, 6, 7}), Out(4, {0, 1, 3}), Out(4, {1, 2, 3, 4}),
    Out(0, TestByte)>>

(* Interrupts off; divisor 3; 8N1; FIFO on; a byte sent to itself; normal   *)
(* operation.  (COM1 is the first port requested, so it is granted.)        *)
init_serial ==
  <<Out(1, {}), Out(3, {7}), Out(0, {0, 1}), Out(1, {}), Out(3, {0, 1}),
    Out(2, {0, 1, 2, 6, 7}), Out(4, {0, 1, 3}), Out(4, {1, 2, 3, 4}),
    Out(0, TestByte), Out(4, {0, 1, 2, 3})>>

SerialInit ==
  /\ thread = "init" /\ index = 1 /\ cr = FALSE /\ pending = FALSE
  /\ handler = "none" /\ dots = 0
  /\ ier \in FirmwareIER /\ lcr = {} /\ fcr = {} /\ mcr = {} /\ divisor = {2, 3}
  /\ fifo = <<>> /\ shift = <<>> /\ wire = <<>> /\ lost = {}

-----------------------------------------------------------------------------
(* The UART.                                                                *)

Capacity == IF 0 \in fcr THEN FifoSize ELSE 1

(* A byte written to the data port: to the divisor or into the transmitter. *)
Transmit(byte) ==
  /\ divisor' = IF 7 \in lcr THEN byte ELSE divisor
  /\ IF 7 \in lcr
     THEN UNCHANGED <<fifo, lost>>
     ELSE IF Len(fifo) < Capacity
     THEN fifo' = Append(fifo, byte) /\ UNCHANGED lost
     ELSE lost' = lost \cup {byte} /\ UNCHANGED fifo
  /\ UNCHANGED <<ier, lcr, fcr, mcr, shift, wire>>

serial_is_transmit_empty == fifo = <<>> /\ shift = <<>>

uart_loads ==
  /\ shift = <<>> /\ fifo # <<>>
  /\ shift' = <<Head(fifo)>> /\ fifo' = Tail(fifo)
  /\ UNCHANGED <<main, hand, setup, wire, lost>>

(* In loopback mode what leaves the transmitter goes to the receiver.  A    *)
(* character on its way when that mode ends comes out, if only in part.     *)
uart_sends ==
  /\ shift # <<>>
  /\ wire' = (IF 4 \in mcr THEN wire ELSE wire \o shift) /\ shift' = <<>>
  /\ UNCHANGED <<main, hand, setup, fifo, lost>>

(* The UART asks for service when its transmitter has room, if it may (IER) *)
(* and its output is connected (OUT2).                                      *)
Interrupts == 1 \in ier /\ 3 \in mcr /\ fifo = <<>>

-----------------------------------------------------------------------------
(* The main thread runs while no handler does.                              *)
Main(where) == handler = "none" /\ thread = where

out_b ==
  /\ Main("init")
  /\ LET out == init_serial[index]
         dlab == 7 \in lcr
     IN  \/ /\ out.offset = 0 /\ Transmit(out.byte)
         \/ /\ out.offset # 0
            /\ ier' = IF out.offset = 1 /\ ~ dlab THEN out.byte ELSE ier
            /\ fcr' = IF out.offset = 2 THEN out.byte ELSE fcr
            /\ lcr' = IF out.offset = 3 THEN out.byte ELSE lcr
            /\ mcr' = IF out.offset = 4 THEN out.byte ELSE mcr
            /\ UNCHANGED <<divisor, line>>
  /\ IF index < Len(init_serial) THEN index' = index + 1 /\ thread' = thread ELSE index' = 1 /\ thread' = "test"
  /\ UNCHANGED <<cr, pending, hand>>

(* write_serial_string: a newline is preceded by a carriage return.         *)
ReturnFirst == str[index] = NEWLINE /\ ~ cr
NextChar    == IF ReturnFirst THEN RETURN ELSE str[index]

(* write_serial: wait until the transmitter is empty ...                    *)
write_serial_test ==
  /\ Main("test") /\ index <= Len(str) /\ serial_is_transmit_empty
  /\ thread' = "send"
  /\ UNCHANGED <<index, cr, pending, hand, setup, line>>

(* ... then write, whatever a handler has written in between.               *)
write_serial_send ==
  /\ Main("send")
  /\ Transmit(NextChar)
  /\ IF ReturnFirst THEN cr' = TRUE /\ index' = index ELSE cr' = FALSE /\ index' = index + 1
  /\ thread' = "test"
  /\ UNCHANGED <<pending, hand>>

(* The string is out of the CPU; the asynchronous future is polled next.    *)
write_serial_string_return ==
  /\ Main("test") /\ index > Len(str)
  /\ thread' = "poll" /\ index' = 1
  /\ UNCHANGED <<cr, pending, hand, setup, line>>

(* async_serial_write_poll: not ready; the executor will poll again.        *)
async_serial_write_pending ==
  /\ Main("poll") /\ index <= Len(data) /\ ~ serial_is_transmit_empty /\ ~ pending
  /\ pending' = TRUE
  /\ UNCHANGED <<thread, index, cr, hand, setup, line>>

async_serial_write_poll ==
  /\ Main("poll") /\ index <= Len(data) /\ serial_is_transmit_empty
  /\ thread' = "async_test" /\ pending' = FALSE
  /\ UNCHANGED <<index, cr, hand, setup, line>>

(* It calls write_serial, which waits again.                                *)
async_write_test ==
  /\ Main("async_test") /\ serial_is_transmit_empty
  /\ thread' = "async_send"
  /\ UNCHANGED <<index, cr, pending, hand, setup, line>>

async_write_send ==
  /\ Main("async_send")
  /\ Transmit(data[index])
  /\ index' = index + 1 /\ thread' = "poll"
  /\ UNCHANGED <<cr, pending, hand>>

-----------------------------------------------------------------------------
(* The handler's output_string(DOT): with interrupts off it waits for the   *)
(* transmitter and writes.                                                  *)
rtc_interrupt ==
  /\ handler = "none" /\ thread # "init" /\ dots < MaxDots
  /\ handler' = "test" /\ dots' = dots + 1
  /\ UNCHANGED <<main, setup, line>>

handler_test ==
  /\ handler = "test" /\ serial_is_transmit_empty
  /\ handler' = "send"
  /\ UNCHANGED <<main, dots, setup, line>>

handler_send ==
  /\ handler = "send" /\ handler' = "none"
  /\ Transmit(DOT)
  /\ UNCHANGED <<main, dots>>

Cpu ==
  \/ out_b \/ write_serial_test \/ write_serial_send \/ write_serial_string_return
  \/ async_serial_write_pending \/ async_serial_write_poll
  \/ async_write_test \/ async_write_send
  \/ handler_test \/ handler_send

SerialNext == Cpu \/ rtc_interrupt \/ uart_loads \/ uart_sends

SerialSpec == SerialInit /\ [][SerialNext]_serialVars

(* The CPU executes and the UART transmits.                                 *)
SerialFairSpec == SerialSpec /\ WF_serialVars(Cpu) /\ WF_serialVars(uart_loads) /\ WF_serialVars(uart_sends)

-----------------------------------------------------------------------------
(* The sequence s without its dots.                                         *)
NoDots(s) ==
  LET kept[n \in 0 .. Len(s)] ==
        IF n = 0 THEN <<>>
        ELSE IF s[n] = DOT THEN kept[n - 1] ELSE Append(kept[n - 1], s[n])
  IN  kept[Len(s)]

(* What the first n characters of s look like on the line, and what has     *)
(* been handed to the UART so far.                                          *)
OnLine(s, n) ==
  LET sent[k \in 0 .. Len(s)] ==
        IF k = 0 THEN <<>>
        ELSE sent[k - 1] \o IF s[k] = NEWLINE THEN <<RETURN, NEWLINE>> ELSE <<s[k]>>
  IN  sent[n]

Done ==
  CASE thread = "init"             -> <<>>
    [] thread \in {"test", "send"} -> OnLine(str, index - 1) \o (IF cr THEN <<RETURN>> ELSE <<>>)
    [] OTHER                       -> OnLine(str, Len(str)) \o SubSeq(data, 1, index - 1)

(* Apart from the handler's dots, the line carries exactly the text: in     *)
(* order, and nothing lost although a dot may be written between the test   *)
(* of the transmitter and the write of a character.  Of the set-up at most  *)
(* the test byte comes out, before the text, since init_serial leaves       *)
(* loopback mode without waiting for it; none is taken for a line speed.    *)
LineCarriesText ==
  /\ NoDots(wire \o shift \o fifo) \in {Done, <<TestByte>> \o Done}
  /\ thread # "init" => divisor = {0, 1}

(* The port asks for no interrupt once it is set up, whatever the firmware  *)
(* had enabled: the interrupt register is cleared while it can be reached,  *)
(* before the divisor latch takes its place, and nothing sets it again.  So *)
(* output is polled, although kernel_main registers and unmasks IRQ 4       *)
(* (kernel.c:171-178) and README.md:32 calls it interrupt-driven.           *)
PortStaysSilent == thread # "init" => ~ Interrupts

(* Everything is sent in the end, dots included.                            *)
AllSent ==
  LET all == OnLine(str, Len(str)) \o data
  IN  <>[](/\ NoDots(wire) \in {all, <<TestByte>> \o all}
          /\ Len(wire) = Len(NoDots(wire)) + dots)
=============================================================================
