-------------------------- MODULE InterruptsProofs --------------------------
(***************************************************************************)
(* Interrupts from the line to the end-of-interrupt, for any set of lines  *)
(* and any masks and vector bases of the firmware: an induction over the   *)
(* steps of kernel_main and of the handlers, with devices raising and      *)
(* withdrawing requests in between.                                        *)
(***************************************************************************)
EXTENDS Interrupts, TLAPS

Names == {"NULL", "rtc_interrupt_handler", "custom_interrupt_handler",
          "async_serial_interrupt_handler"}
Todo  == {Call(h) : h \in Names} \cup {Eoi(c) : c \in Chips} \cup {Halt}
Frame == [vector : Vectors, line : Int, owns : SUBSET (Chips \X Bits), iflag : BOOLEAN,
          todo : Seq(Todo)]

(* The next ICW a chip expects; the slave is one step behind the master.    *)
Expected(n) == IF n <= 9 THEN 0 ELSE IF n <= 11 THEN 2
               ELSE IF n <= 13 THEN 3 ELSE IF n <= 15 THEN 4 ELSE 0

(* The inputs of a chip that devices raise.                                 *)
Inputs(c) == {b \in Bits : \E line \in Lines : ChipOf(line) = c /\ line % 8 = b}

(* The step of kernel_main from which on a programmed chip can ask.         *)
LIVE == 16

(* A device can ask on a line of the master that the firmware left open.    *)
MasterOpen == \E line \in Lines : line < 8 /\ line \notin BootMask["master"]

(* LeftOpen, for what an interrupt owns and the step it came at.            *)
Strays(owns, p) ==
  IF owns # {} THEN p <= 5 /\ \A o \in owns : o[2] \notin BootMask[o[1]]
               ELSE p <= 9 /\ MasterOpen

TypeInv ==
  /\ pc \in 1 .. 41 /\ iflag \in BOOLEAN
  /\ value \in [Chips -> SUBSET Bits]
  /\ interrupt_handlers \in [Vectors -> Names] /\ stack \in Seq(Frame)
  /\ base \in [Chips -> SUBSET Bits] /\ imr \in [Chips -> SUBSET Bits]
  /\ irr \in [Chips -> SUBSET Bits] /\ isr \in [Chips -> SUBSET Bits]
  /\ icw \in [Chips -> {0, 2, 3, 4}] /\ spurious \in SUBSET Chips

(* How far the set-up is: the masks are the firmware's until pic_init and   *)
(* then set until the reset; from there to the last ICW the chips ask for   *)
(* nothing.                                                                 *)
SetupInv ==
  /\ (ports <=> pc > 3) /\ (idt_loaded <=> pc > 4)
  /\ icw["master"] = Expected(pc) /\ icw["slave"] = Expected(pc - 1)
  /\ pc <= 5 => imr["master"] = BootMask["master"]
  /\ pc <= 6 => imr["slave"] = BootMask["slave"]
  /\ pc \in 6 .. 9 => imr["master"] = Bits
  /\ pc \in 7 .. 10 => imr["slave"] = Bits
  /\ \A c \in Chips : irr[c] \subseteq Inputs(c)
  /\ pc >= 12 => base["master"] = {6}
  /\ pc >= 13 => base["slave"] = {3, 6}
  /\ "master" \in spurious => (pc <= 9 /\ MasterOpen) \/ pc >= LIVE
  /\ "slave" \in spurious => pc <= 10 \/ pc >= LIVE
  /\ pc \in 11 .. 15 => stack = <<>>

(* Before the chips are reset: an interrupt being handled is one that the   *)
(* firmware left open, and so is what such an interrupt left in service.    *)
EarlyInv ==
  pc <= 10 =>
    /\ stack # <<>> => ~ iflag /\ Len(stack) = 1 /\ Strays(stack[1].owns, pc)
    /\ \A b \in isr["slave"] : b \notin BootMask["slave"]
    /\ \A b \in isr["master"] : pc <= 9 /\ b \notin BootMask["master"]

(* Afterwards: what is in service belongs to the one interrupt being        *)
(* handled, whose handler is still going to end it.                         *)
FrameInv ==
  pc > 10 =>
    /\ stack = <<>> => \A c \in Chips : isr[c] = {}
    /\ stack # <<>> =>
         /\ ~ iflag /\ Len(stack) = 1
         /\ stack[1].line >= 0 =>
              stack[1].vector = irq_id_to_vector(IrqOf(stack[1].line))
         /\ \A c \in Chips : \A a, b \in isr[c] : a = b /\ <<c, a>> \in stack[1].owns
         /\ \A c \in Chips : isr[c] # {} => \E k \in DOMAIN stack[1].todo : stack[1].todo[k] = Eoi(c)

IntInv == TypeInv /\ SetupInv /\ EarlyInv /\ FrameInv

-----------------------------------------------------------------------------
(* The steps of kernel_main, written out as far as the set-up goes.         *)
LEMMA MainSteps ==
  /\ Len(kernel_main) = 40
  /\ kernel_main[1].do = "cli" /\ kernel_main[2].do = "sti"
  /\ kernel_main[3].do = "pic_init_ports" /\ kernel_main[4].do = "lidt"
  /\ kernel_main[5] = Data("master", Bits) /\ kernel_main[6] = Data("slave", Bits)
  /\ kernel_main[7] = ReadMask("master") /\ kernel_main[8] = ReadMask("slave")
  /\ kernel_main[9] = Cmd("master", {0, 4}) /\ kernel_main[10] = Cmd("slave", {0, 4})
  /\ kernel_main[11] = Data("master", {6}) /\ kernel_main[12] = Data("slave", {3, 6})
  /\ kernel_main[13] = Data("master", {2}) /\ kernel_main[14] = Data("slave", {1})
  /\ kernel_main[15] = Data("master", {0}) /\ kernel_main[16] = Data("slave", {0})
  /\ kernel_main[17] = WriteMask("master", {}) /\ kernel_main[18] = WriteMask("slave", {})
BY DEF kernel_main, log_call, idt_init, pic_init, pic_remap, enable_rtc_interrupts,
       disable_rtc_interrupts, custom_interrupt, serial_interrupt, pic_unmask_irq, Do

LEMMA LaterSteps ==
  /\ kernel_main[19] = Trap(128) /\ kernel_main[20] = Do("cli") /\ kernel_main[21] = Do("sti")
  /\ \A k \in {22, 28} :
       kernel_main[k] = Register(irq_id_to_vector(RtcIrq), "rtc_interrupt_handler")
  /\ \A k \in {23, 29, 38} : kernel_main[k] = ReadMask("master")
  /\ \A k \in {24, 30} : kernel_main[k] = WriteMask("master", {2})
  /\ \A k \in {25, 31} : kernel_main[k] = ReadMask("slave")
  /\ \A k \in {26, 32} : kernel_main[k] = WriteMask("slave", {8 - 8})
  /\ kernel_main[27] = Unregister(irq_id_to_vector(RtcIrq))
  /\ kernel_main[33] = Register(129, "custom_interrupt_handler")
  /\ \A k \in {34, 35} : kernel_main[k] = Trap(129)
  /\ kernel_main[36] = Unregister(129)
  /\ kernel_main[37] = Register(irq_id_to_vector(SerialIrq), "async_serial_interrupt_handler")
  /\ kernel_main[39] = WriteMask("master", {4}) /\ kernel_main[40] = Do("sti")
BY DEF kernel_main, log_call, idt_init, pic_init, pic_remap, enable_rtc_interrupts,
       disable_rtc_interrupts, custom_interrupt, serial_interrupt, pic_unmask_irq

LEMMA ResetSteps == MaskAt = 5 /\ ResetAt("master") = 9 /\ ResetAt("slave") = 10
BY DEF MaskAt, ResetAt, log_call, idt_init, Do

LEMMA StraysOpen ==
  ASSUME NEW f
  PROVE  LeftOpen(f) <=> Strays(f.owns, pc)
BY ResetSteps DEF LeftOpen, Strays, MasterOpen

LEMMA IrqVectors == irq_id_to_vector(RtcIrq) = 72 /\ irq_id_to_vector(SerialIrq) = 68
BY DEF irq_id_to_vector, RtcIrq, SerialIrq

(* Afterwards the main thread traps, registers handlers and changes masks.  *)
LEMMA LaterKinds ==
  ASSUME NEW k \in 19 .. 40
  PROVE  /\ kernel_main[k].do \in {"int", "cli", "sti", "register", "read_mask", "write_mask"}
         /\ kernel_main[k].do = "int" => kernel_main[k].vector \in {128, 129}
         /\ kernel_main[k].do = "register" =>
              kernel_main[k].vector \in Vectors /\ kernel_main[k].handler \in Names
         /\ kernel_main[k].do \in {"read_mask", "write_mask"} => kernel_main[k].chip \in Chips
<1> DEFINE P(r) == /\ r.do \in {"int", "cli", "sti", "register", "read_mask", "write_mask"}
                   /\ r.do = "int" => r.vector \in {128, 129}
                   /\ r.do = "register" => r.vector \in Vectors /\ r.handler \in Names
                   /\ r.do \in {"read_mask", "write_mask"} => r.chip \in Chips
<1>1. P(Trap(128)) /\ P(Trap(129)) /\ P(Do("cli")) /\ P(Do("sti"))
  BY DEF Trap, Do
<1>2. \A v \in Vectors : \A h \in Names : P(Register(v, h)) /\ P(Unregister(v))
  BY DEF Register, Unregister, Names
<1>3. \A c \in Chips : \A b : P(ReadMask(c)) /\ P(WriteMask(c, b))
  BY DEF ReadMask, WriteMask
<1>4. 72 \in Vectors /\ 68 \in Vectors /\ 129 \in Vectors
  BY DEF Vectors
<1>5. "rtc_interrupt_handler" \in Names /\ "custom_interrupt_handler" \in Names
      /\ "async_serial_interrupt_handler" \in Names
  BY DEF Names
<1>6. "master" \in Chips /\ "slave" \in Chips
  BY DEF Chips
<1> HIDE DEF P
<1>7. \/ k \in {19, 34, 35} \/ k \in {20, 21, 40} \/ k \in {22, 27, 28, 33, 36, 37}
      \/ k \in {23, 24, 29, 30, 38, 39} \/ k \in {25, 26, 31, 32}
  OBVIOUS
<1>8. ASSUME k \in {19, 34, 35} PROVE P(kernel_main[k])
  BY <1>1, <1>8, LaterSteps
<1>9. ASSUME k \in {20, 21, 40} PROVE P(kernel_main[k])
  BY <1>1, <1>9, LaterSteps
<1>10. ASSUME k \in {22, 27, 28, 33, 36, 37} PROVE P(kernel_main[k])
  BY <1>2, <1>4, <1>5, <1>10, LaterSteps, IrqVectors
<1>11. ASSUME k \in {23, 24, 29, 30, 38, 39} PROVE P(kernel_main[k])
  BY <1>3, <1>6, <1>11, LaterSteps
<1>12. ASSUME k \in {25, 26, 31, 32} PROVE P(kernel_main[k])
  BY <1>3, <1>6, <1>12, LaterSteps
<1>13. P(kernel_main[k])
  BY <1>7, <1>8, <1>9, <1>10, <1>11, <1>12
<1> QED
  BY <1>13 DEF P

-----------------------------------------------------------------------------
(* The line of the highest priority is one of the lines.                    *)
LEMMA FirstIn ==
  ASSUME NEW S \in SUBSET Bits, S # {}
  PROVE  First(S) \in S
<1>1. \E b \in S : \A s \in S : b <= s
  <2>1. \A s \in S : s = 0 \/ s = 1 \/ s = 2 \/ s = 3 \/ s = 4 \/ s = 5 \/ s = 6 \/ s = 7
    BY DEF Bits
  <2>2. \A s \in S : s \in Int
    BY DEF Bits
  <2> QED
    BY <2>1, <2>2
<1> QED
  BY <1>1 DEF First

(* After pic_remap a chip answers with the vector of the line's irq_id_t.   *)
LEMMA RemappedVectors ==
  /\ \A m \in Bits : base["master"] = {6} =>
       PicVector("master", m) = 64 + m /\ irq_id_to_vector(IrqOf(m)) = 64 + m
  /\ \A s \in Bits : base["slave"] = {3, 6} =>
       PicVector("slave", s) = 72 + s /\ irq_id_to_vector(IrqOf(s + 8)) = 72 + s
<1>1. /\ Weight({6}, 3) = 0 /\ Weight({6}, 4) = 0 /\ Weight({6}, 5) = 0 /\ Weight({6}, 7) = 0
      /\ Weight({6}, 6) = 64
  BY DEF Weight
<1>2. /\ Weight({3, 6}, 3) = 8 /\ Weight({3, 6}, 4) = 0 /\ Weight({3, 6}, 5) = 0
      /\ Weight({3, 6}, 7) = 0 /\ Weight({3, 6}, 6) = 64
  BY DEF Weight
<1>3. ASSUME NEW m \in Bits, base["master"] = {6}
      PROVE  PicVector("master", m) = 64 + m /\ irq_id_to_vector(IrqOf(m)) = 64 + m
  <2>1. m \in Int /\ m < 8
    BY DEF Bits
  <2>2. PicVector("master", m) = 64 + m
    BY <1>1, <1>3, <2>1 DEF PicVector
  <2>3. IrqOf(m).type = "IRQ_PIC1" /\ IrqOf(m).index = m
    BY <2>1 DEF IrqOf
  <2> QED
    BY <2>2, <2>3 DEF irq_id_to_vector
<1>4. ASSUME NEW s \in Bits, base["slave"] = {3, 6}
      PROVE  PicVector("slave", s) = 72 + s /\ irq_id_to_vector(IrqOf(s + 8)) = 72 + s
  <2>1. s \in Int /\ 0 <= s /\ ~ (s + 8 < 8) /\ s + 8 - 8 = s
    BY DEF Bits
  <2>2. PicVector("slave", s) = 72 + s
    BY <1>2, <1>4, <2>1 DEF PicVector
  <2>3. IrqOf(s + 8).type = "IRQ_PIC2" /\ IrqOf(s + 8).index = s
    BY <2>1 DEF IrqOf
  <2> QED
    BY <2>2, <2>3 DEF irq_id_to_vector
<1> QED
  BY <1>3, <1>4

(* What the dispatcher is going to do includes the end-of-interrupt of the  *)
(* chips the vector comes through.                                          *)
LEMMA DispatcherEnds ==
  ASSUME TypeInv, NEW v \in Vectors
  PROVE  /\ generic_interrupt_handler(v) \in Seq(Todo)
         /\ v \in 64 .. 79 =>
              \E k \in DOMAIN generic_interrupt_handler(v) :
                generic_interrupt_handler(v)[k] = Eoi("master")
         /\ v \in 72 .. 79 =>
              \E k \in DOMAIN generic_interrupt_handler(v) :
                generic_interrupt_handler(v)[k] = Eoi("slave")
<1> DEFINE e == pic_send_eoi(v)
           h == interrupt_handlers[v]
           b == Body(h)
           g == generic_interrupt_handler(v)
<1>1. Eoi("master") \in Todo /\ Eoi("slave") \in Todo /\ Halt \in Todo
      /\ \A n \in Names : Call(n) \in Todo
  BY DEF Todo, Chips
<1>2. h \in Names
  BY DEF TypeInv
<1>3. \A n : pic_send_eoi(n) \in Seq(Todo)
  BY <1>1 DEF pic_send_eoi
<1>4. b \in Seq(Todo)
  <2>1. <<Call("rtc_interrupt_handler")>> \in Seq(Todo) /\ <<Call(h)>> \in Seq(Todo)
        /\ <<>> \in Seq(Todo)
    BY <1>1, <1>2 DEF Names
  <2>2. rtc_interrupt_handler \in Seq(Todo)
    BY <1>3, <2>1 DEF rtc_interrupt_handler
  <2> QED
    BY <2>1, <2>2 DEF Body
<1>5. v \notin Halting => g = b \o e
  BY DEF generic_interrupt_handler
<1>0. v \in Halting => g \in Seq(Todo) /\ v \notin 64 .. 79 /\ v \notin 72 .. 79
  BY <1>1 DEF generic_interrupt_handler, Halting
<1>6. v \in 64 .. 79 => \E k \in 1 .. Len(e) : e[k] = Eoi("master")
  <2>1. v \in 64 .. 71 => e = <<Eoi("master")>>
    BY DEF pic_send_eoi
  <2>2. v \in 72 .. 79 => e = <<Eoi("slave"), Eoi("master")>>
    BY DEF pic_send_eoi
  <2>3. v \in 64 .. 79 => v \in 64 .. 71 \/ v \in 72 .. 79
    OBVIOUS
  <2> QED
    BY <2>1, <2>2, <2>3
<1>7. v \in 72 .. 79 => \E k \in 1 .. Len(e) : e[k] = Eoi("slave")
  <2>1. v \in 72 .. 79 => e = <<Eoi("slave"), Eoi("master")>>
    BY DEF pic_send_eoi
  <2> QED
    BY <2>1
<1>8. e \in Seq(Todo)
  BY <1>3
<1> HIDE DEF e, b, g
<1>9. ASSUME NEW x, \E k \in 1 .. Len(e) : e[k] = x, v \notin Halting
      PROVE  \E k \in DOMAIN g : g[k] = x
  <2>1. PICK k \in 1 .. Len(e) : e[k] = x
    BY <1>9
  <2>2. Len(b) + k \in DOMAIN g /\ g[Len(b) + k] = x
    BY <1>4, <1>5, <1>8, <1>9, <2>1
  <2> QED
    BY <2>2
<1>10. g \in Seq(Todo)
  <2>1. CASE v \in Halting
    BY <1>0, <2>1
  <2>2. CASE v \notin Halting
    <3>1. b \o e \in Seq(Todo)
      BY <1>4, <1>8
    <3> QED
      BY <1>5, <2>2, <3>1
  <2> QED
    BY <2>1, <2>2
<1> QED
  BY <1>0, <1>6, <1>7, <1>9, <1>10 DEF g

-----------------------------------------------------------------------------
(* Which step of kernel_main does what.                                     *)
LEMMA Places ==
  ASSUME NEW k \in 1 .. 40
  PROVE  LET do == kernel_main[k].do
         IN  /\ do = "pic_init_ports" <=> k = 3
             /\ do = "lidt" <=> k = 4
             /\ do = "cmd" <=> k \in {9, 10}
             /\ do = "data" <=> k \in {5, 6, 11, 12, 13, 14, 15, 16}
             /\ do = "write_mask" => k >= 17 /\ kernel_main[k].chip \in Chips
             /\ do = "read_mask" => k \in {7, 8} \/ k >= 17
             /\ do = "read_mask" => kernel_main[k].chip \in Chips
             /\ do \in {"int", "register"} => k >= 19
             /\ do \in {"cli", "sti"} => k \in {1, 2} \/ k >= 17
<1> DEFINE do == kernel_main[k].do
<1>1. CASE k \in 1 .. 18
  <2>1. k \in {1, 2} => do \in {"cli", "sti"}
    BY MainSteps
  <2>2. (k = 3 => do = "pic_init_ports") /\ (k = 4 => do = "lidt")
    BY MainSteps
  <2>3. k \in {5, 6, 11, 12, 13, 14, 15, 16} => do = "data"
    BY MainSteps DEF Data
  <2>4. k \in {7, 8} => do = "read_mask" /\ kernel_main[k].chip \in Chips
    BY MainSteps DEF ReadMask, Chips
  <2>5. k \in {9, 10} => do = "cmd"
    BY MainSteps DEF Cmd
  <2>6. k \in {17, 18} => do = "write_mask" /\ kernel_main[k].chip \in Chips
    BY MainSteps DEF WriteMask, Chips
  <2>7. k \in {1, 2} \/ k = 3 \/ k = 4 \/ k \in {5, 6, 11, 12, 13, 14, 15, 16}
        \/ k \in {7, 8} \/ k \in {9, 10} \/ k \in {17, 18}
    BY <1>1
  <2> QED
    BY <2>1, <2>2, <2>3, <2>4, <2>5, <2>6, <2>7
<1>2. CASE k \in 19 .. 40
  <2>1. do \in {"int", "cli", "sti", "register", "read_mask", "write_mask"}
    BY <1>2, LaterKinds
  <2>2. do \in {"read_mask", "write_mask"} => kernel_main[k].chip \in Chips
    BY <1>2, LaterKinds
  <2> QED
    BY <1>2, <2>1, <2>2
<1> QED
  BY <1>1, <1>2

(* Between pic_init and the last ICW the chips ask for nothing.             *)
LEMMA Silent ==
  ASSUME IntInv, pc \in 6 .. 15
  PROVE  /\ Wants("master", irr["master"]) = {} /\ MasterWants = {}
         /\ pc >= 7 => Wants("slave", irr["slave"]) = {}
<1>1. \A raised \in SUBSET Bits : Wants("master", raised) = {}
  <2>1. imr["master"] = Bits \/ icw["master"] # 0
    BY DEF IntInv, SetupInv, Expected
  <2> QED
    BY <2>1 DEF Wants
<1>2. pc >= 7 => \A raised \in SUBSET Bits : Wants("slave", raised) = {}
  <2>1. pc >= 7 => imr["slave"] = Bits \/ icw["slave"] # 0
    BY DEF IntInv, SetupInv, Expected
  <2> QED
    BY <2>1 DEF Wants
<1>3. irr["master"] \in SUBSET Bits /\ irr["slave"] \in SUBSET Bits /\ Cascade \in SUBSET Bits
  BY DEF IntInv, TypeInv, Chips, Cascade, Bits
<1> QED
  BY <1>1, <1>2, <1>3 DEF MasterWants

-----------------------------------------------------------------------------
(* Devices.                                                                 *)

LEMMA LineBits ==
  ASSUME NEW line \in Lines
  PROVE  /\ line % 8 \in Bits /\ ChipOf(line) \in Chips
         /\ line % 8 \in Inputs(ChipOf(line))
<1>1. line % 8 \in Bits
  BY LinesAssumption DEF Bits
<1> QED
  BY <1>1 DEF ChipOf, Chips, Inputs

LEMMA Raised ==
  ASSUME IntInv, NEW line \in Lines, device_raises(line)
  PROVE  IntInv'
<1>1. UNCHANGED <<kernel, base, icw, imr, isr, spurious>>
  BY DEF device_raises
<1>2. irr' \in [Chips -> SUBSET Bits] /\ \A c \in Chips : irr'[c] \subseteq Inputs(c)
  BY LineBits DEF device_raises, IntInv, TypeInv, SetupInv
<1>3. TypeInv'
  BY <1>1, <1>2 DEF IntInv, TypeInv, kernel
<1>4. SetupInv' /\ FrameInv' /\ EarlyInv'
  BY <1>1, <1>2 DEF IntInv, SetupInv, FrameInv, EarlyInv, kernel
<1> QED
  BY <1>3, <1>4 DEF IntInv

LEMMA Withdrawn ==
  ASSUME IntInv, NEW line \in Lines, device_withdraws(line)
  PROVE  IntInv'
<1> DEFINE c == ChipOf(line)
<1>1. UNCHANGED <<kernel, base, icw, imr, isr>> /\ c \in Chips
      /\ irr' = [irr EXCEPT ![c] = @ \ {line % 8}]
      /\ \/ spurious' = spurious
         \/ (line % 8 \in Wants(c, irr[c]) /\ spurious' = spurious \cup {c})
  BY LineBits DEF device_withdraws
<1> HIDE DEF c
<1>2. irr' \in [Chips -> SUBSET Bits] /\ spurious' \in SUBSET Chips
      /\ \A d \in Chips : irr'[d] \subseteq Inputs(d)
  BY <1>1 DEF IntInv, TypeInv, SetupInv
<1>3. TypeInv'
  BY <1>1, <1>2 DEF IntInv, TypeInv, kernel
<1>4. /\ "master" \in spurious' => (pc <= 9 /\ MasterOpen) \/ pc >= LIVE
      /\ "slave" \in spurious' => pc <= 10 \/ pc >= LIVE
  <2>1. CASE spurious' = spurious
    BY <2>1 DEF IntInv, SetupInv
  <2>2. CASE line % 8 \in Wants(c, irr[c]) /\ spurious' = spurious \cup {c}
    <3>1. pc \in 1 .. 41
      BY DEF IntInv, TypeInv
    <3>2. c = "master" => pc <= 5 \/ pc >= LIVE
      BY <2>2, <3>1, Silent DEF LIVE
    <3>3. c = "slave" => pc <= 6 \/ pc >= LIVE
      BY <2>2, <3>1, Silent DEF LIVE
    <3>4. ASSUME c = "master", pc <= 5 PROVE MasterOpen
      <4>1. line < 8 /\ line \in 0 .. 15
        BY <3>4, LinesAssumption DEF c, ChipOf
      <4>2. line % 8 = line
        BY <4>1
      <4>3. line \notin imr["master"] /\ imr["master"] = BootMask["master"]
        BY <2>2, <3>4, <4>2 DEF Wants, IntInv, SetupInv
      <4> QED
        BY <4>1, <4>3 DEF MasterOpen
    <3>5. "master" \in spurious' => (pc <= 9 /\ MasterOpen) \/ pc >= LIVE
      <4>1. CASE c = "master"
        BY <3>1, <3>2, <3>4, <4>1
      <4>2. CASE c # "master"
        BY <2>2, <4>2 DEF IntInv, SetupInv
      <4> QED
        BY <4>1, <4>2
    <3>6. "slave" \in spurious' => pc <= 10 \/ pc >= LIVE
      <4>1. CASE c = "slave"
        BY <3>1, <3>3, <4>1
      <4>2. CASE c # "slave"
        BY <2>2, <4>2 DEF IntInv, SetupInv
      <4> QED
        BY <4>1, <4>2
    <3> QED
      BY <3>5, <3>6
  <2> QED
    BY <1>1, <2>1, <2>2
<1>5. SetupInv' /\ FrameInv' /\ EarlyInv'
  BY <1>1, <1>2, <1>4 DEF IntInv, SetupInv, FrameInv, EarlyInv, kernel
<1> QED
  BY <1>3, <1>5 DEF IntInv

-----------------------------------------------------------------------------
(* The main thread.                                                         *)

(* A step of the main thread leaves the handlers and what is in service     *)
(* alone.                                                                   *)
LEMMA AtStep ==
  ASSUME IntInv, NEW what, At(what)
  PROVE  /\ stack = <<>> /\ pc \in 1 .. 40 /\ pc' = pc + 1 /\ pc' \in 1 .. 41
         /\ kernel_main[pc].do = what /\ Now = kernel_main[pc]
         /\ pc > 10 => \A c \in Chips : isr[c] = {}
<1>1. pc \in 1 .. 41 /\ ~ (pc > 40)
  BY MainSteps DEF At, Booted, IntInv, TypeInv
<1>2. stack = <<>> /\ pc' = pc + 1 /\ kernel_main[pc].do = what
  BY DEF At, Now
<1>3. pc > 10 => \A c \in Chips : isr[c] = {}
  BY <1>2 DEF IntInv, FrameInv
<1> QED
  BY <1>1, <1>2, <1>3 DEF Now

(* Once the chips are programmed the set-up is complete.                    *)
LEMMA SetupKept ==
  ASSUME IntInv, pc >= LIVE, pc' = pc \/ (pc' = pc + 1 /\ pc > LIVE),
         UNCHANGED <<ports, idt_loaded, icw, base>>,
         \A c \in Chips : irr'[c] \subseteq Inputs(c)
  PROVE  SetupInv'
<1>0. pc \in 1 .. 41
  BY DEF IntInv, TypeInv
<1>1. pc \in 16 .. 41 /\ (pc' = pc \/ (pc' = pc + 1 /\ pc \in 17 .. 41))
  BY <1>0 DEF LIVE
<1>2. pc' \in 16 .. 42 /\ Expected(pc') = Expected(pc) /\ Expected(pc' - 1) = Expected(pc - 1)
  <2>1. CASE pc' = pc
    BY <1>1, <2>1
  <2>2. CASE pc' = pc + 1 /\ pc \in 17 .. 41
    <3>1. \A n \in 16 .. 42 : Expected(n) = 0
      BY DEF Expected
    <3>2. pc \in 16 .. 42 /\ pc + 1 \in 16 .. 42 /\ pc - 1 \in 16 .. 42 /\ (pc + 1) - 1 = pc
      BY <2>2
    <3> QED
      BY <2>2, <3>1, <3>2
  <2> QED
    BY <1>1, <2>1, <2>2
<1>3. ports' /\ idt_loaded' /\ base'["master"] = {6} /\ base'["slave"] = {3, 6}
      /\ icw'["master"] = Expected(pc') /\ icw'["slave"] = Expected(pc' - 1)
  BY <1>1, <1>2 DEF IntInv, SetupInv
<1>4. /\ pc' > 3 /\ pc' > 4 /\ ~ (pc' <= 5) /\ ~ (pc' <= 6) /\ pc' >= LIVE
      /\ pc' \notin 6 .. 9 /\ pc' \notin 7 .. 10 /\ pc' \notin 11 .. 15
  BY <1>2 DEF LIVE
<1> QED
  BY <1>3, <1>4 DEF SetupInv

LEMMA SetIflag ==
  ASSUME IntInv, set_iflag
  PROVE  IntInv'
<1>1. PICK what \in {"cli", "sti"} : At(what)
  BY DEF set_iflag
<1>2. /\ UNCHANGED <<idt_loaded, ports, value, interrupt_handlers, stack, pic>>
      /\ iflag' \in BOOLEAN
  BY DEF set_iflag
<1>3. /\ stack = <<>> /\ pc \in 1 .. 40 /\ pc' = pc + 1 /\ pc' \in 1 .. 41
      /\ pc \in {1, 2} \/ pc >= 17
  <2>1. stack = <<>> /\ pc \in 1 .. 40 /\ pc' = pc + 1 /\ kernel_main[pc].do = what
    BY <1>1, AtStep
  <2>2. pc \in {1, 2} \/ pc >= 17
    BY <1>1, <2>1, Places
  <2>3. pc + 1 \in 1 .. 41
    BY <2>1
  <2> QED
    BY <2>1, <2>2, <2>3, Zenon
<1>4. TypeInv'
  BY <1>2, <1>3 DEF IntInv, TypeInv, pic
<1>5. SetupInv'
  BY <1>2, <1>3 DEF IntInv, SetupInv, Expected, LIVE, pic
<1>6. FrameInv' /\ EarlyInv'
  BY <1>2, <1>3 DEF IntInv, TypeInv, FrameInv, EarlyInv, pic
<1> QED
  BY <1>4, <1>5, <1>6 DEF IntInv

LEMMA InitPorts ==
  ASSUME IntInv, pic_init_ports
  PROVE  IntInv'
<1>1. At("pic_init_ports") /\ ports' = TRUE
      /\ UNCHANGED <<iflag, idt_loaded, value, interrupt_handlers, stack, pic>>
  BY DEF pic_init_ports
<1>2. stack = <<>> /\ pc = 3 /\ pc' = 4
  <2>1. stack = <<>> /\ pc \in 1 .. 40 /\ pc' = pc + 1 /\ kernel_main[pc].do = "pic_init_ports"
    BY <1>1, AtStep
  <2>2. pc = 3
    BY <2>1, Places
  <2> QED
    BY <2>1, <2>2
<1>3. TypeInv'
  BY <1>1, <1>2 DEF IntInv, TypeInv, pic
<1>4. SetupInv'
  BY <1>1, <1>2 DEF IntInv, SetupInv, Expected, LIVE, pic
<1>5. FrameInv' /\ EarlyInv'
  BY <1>1, <1>2 DEF IntInv, TypeInv, FrameInv, EarlyInv, pic
<1> QED
  BY <1>3, <1>4, <1>5 DEF IntInv

LEMMA LoadIdt ==
  ASSUME IntInv, load_idt
  PROVE  IntInv'
<1>1. At("lidt") /\ idt_loaded' = TRUE
      /\ UNCHANGED <<iflag, ports, value, interrupt_handlers, stack, pic>>
  BY DEF load_idt
<1>2. stack = <<>> /\ pc = 4 /\ pc' = 5
  <2>1. stack = <<>> /\ pc \in 1 .. 40 /\ pc' = pc + 1 /\ kernel_main[pc].do = "lidt"
    BY <1>1, AtStep
  <2>2. pc = 4
    BY <2>1, Places
  <2> QED
    BY <2>1, <2>2
<1>3. TypeInv'
  BY <1>1, <1>2 DEF IntInv, TypeInv, pic
<1>4. SetupInv'
  BY <1>1, <1>2 DEF IntInv, SetupInv, Expected, LIVE, pic
<1>5. FrameInv' /\ EarlyInv'
  BY <1>1, <1>2 DEF IntInv, TypeInv, FrameInv, EarlyInv, pic
<1> QED
  BY <1>3, <1>4, <1>5 DEF IntInv

LEMMA MaskRead ==
  ASSUME IntInv, read_mask
  PROVE  IntInv'
<1>1. At("read_mask")
      /\ value' = (IF ports THEN [value EXCEPT ![Now.chip] = imr[Now.chip]] ELSE value)
      /\ UNCHANGED <<iflag, idt_loaded, ports, interrupt_handlers, stack, pic>>
  BY DEF read_mask
<1>2. /\ stack = <<>> /\ pc \in 1 .. 40 /\ pc' = pc + 1 /\ pc' \in 1 .. 41
      /\ pc \in {7, 8} \/ pc >= 17
      /\ Now.chip \in Chips
  BY <1>1, AtStep, Places
<1>3. value' \in [Chips -> SUBSET Bits]
  BY <1>1, <1>2 DEF IntInv, TypeInv
<1>4. TypeInv'
  BY <1>1, <1>2, <1>3 DEF IntInv, TypeInv, pic
<1>5. SetupInv'
  BY <1>1, <1>2 DEF IntInv, SetupInv, Expected, LIVE, pic
<1>6. FrameInv' /\ EarlyInv'
  BY <1>1, <1>2 DEF IntInv, TypeInv, FrameInv, EarlyInv, pic
<1> QED
  BY <1>4, <1>5, <1>6 DEF IntInv

LEMMA HandlerRegistered ==
  ASSUME IntInv, register_interrupt_handler
  PROVE  IntInv'
<1>1. At("register")
      /\ interrupt_handlers' = [interrupt_handlers EXCEPT ![Now.vector] = Now.handler]
      /\ UNCHANGED <<iflag, idt_loaded, ports, value, stack, pic>>
  BY DEF register_interrupt_handler
<1>2. /\ stack = <<>> /\ pc \in 1 .. 40 /\ pc' = pc + 1 /\ pc' \in 1 .. 41
      /\ pc >= 19 /\ kernel_main[pc].do = "register" /\ Now = kernel_main[pc]
  BY <1>1, AtStep, Places
<1>3. pc \in 19 .. 40
  <2>1. pc \in 1 .. 40 /\ pc >= 19
    BY <1>2, Zenon
  <2> QED
    BY <2>1
<1>4. Now.vector \in Vectors /\ Now.handler \in Names
  BY <1>2, <1>3, LaterKinds
<1>5. interrupt_handlers' \in [Vectors -> Names]
  BY <1>1, <1>4 DEF IntInv, TypeInv
<1>6. TypeInv'
  BY <1>1, <1>2, <1>5 DEF IntInv, TypeInv, pic
<1>7. SetupInv'
  BY <1>1, <1>2 DEF IntInv, SetupInv, Expected, LIVE, pic
<1>8. FrameInv' /\ EarlyInv'
  BY <1>1, <1>2 DEF IntInv, TypeInv, FrameInv, EarlyInv, pic
<1> QED
  BY <1>6, <1>7, <1>8 DEF IntInv

(* ICW1, sent to both chips.                                                *)
LEMMA CommandWritten ==
  ASSUME IntInv, write_port, At("cmd")
  PROVE  IntInv'
<1>1. UNCHANGED <<iflag, idt_loaded, ports, value, interrupt_handlers, stack>>
  BY DEF write_port
<1>2. stack = <<>> /\ pc \in {9, 10} /\ pc' = pc + 1 /\ Now = kernel_main[pc]
      /\ kernel_main[pc].do = "cmd"
  BY AtStep, Places
<1>3. Now.chip = (IF pc = 9 THEN "master" ELSE "slave") /\ Now.byte = {0, 4}
  <2>1. pc = 9 => Now.chip = "master" /\ Now.byte = {0, 4}
    BY <1>2, MainSteps DEF Cmd
  <2>2. pc = 10 => Now.chip = "slave" /\ Now.byte = {0, 4}
    BY <1>2, MainSteps DEF Cmd
  <2> QED
    BY <1>2, <2>1, <2>2
<1>4. ports
  BY <1>2 DEF IntInv, SetupInv
<1>5. WriteCommand(Now.chip, {0, 4})
  BY <1>2, <1>3, <1>4 DEF write_port, At
<1> DEFINE c == IF pc = 9 THEN "master" ELSE "slave"
<1>6. /\ icw' = [icw EXCEPT ![c] = 2] /\ imr' = [imr EXCEPT ![c] = {}]
      /\ irr' = [irr EXCEPT ![c] = {}] /\ isr' = [isr EXCEPT ![c] = {}]
      /\ spurious' = spurious \ {c} /\ base' = base /\ c \in Chips
  BY <1>3, <1>5 DEF WriteCommand, Chips
<1>7. TypeInv'
  BY <1>1, <1>2, <1>6 DEF IntInv, TypeInv
<1>8. SetupInv'
  <2>1. CASE pc = 9
    BY <1>1, <1>2, <1>6, <2>1 DEF IntInv, SetupInv, TypeInv, Expected, LIVE, Chips
  <2>2. CASE pc = 10
    BY <1>1, <1>2, <1>6, <2>2 DEF IntInv, SetupInv, TypeInv, Expected, LIVE, Chips
  <2> QED
    BY <1>2, <2>1, <2>2
<1>9. FrameInv' /\ EarlyInv'
  <2>1. CASE pc = 9
    <3>1. isr'["master"] = {} /\ isr'["slave"] = isr["slave"] /\ pc' = 10
      BY <1>2, <1>6, <2>1 DEF IntInv, TypeInv, Chips
    <3> QED
      BY <1>1, <1>2, <2>1, <3>1 DEF IntInv, EarlyInv, FrameInv
  <2>2. CASE pc = 10
    <3>1. isr["master"] = {}
      BY <2>2 DEF IntInv, EarlyInv
    <3>2. \A d \in Chips : isr'[d] = {}
      BY <1>6, <2>2, <3>1 DEF IntInv, TypeInv, Chips
    <3>3. pc' = 11 /\ ~ (pc' <= 10) /\ stack' = <<>>
      BY <1>1, <1>2, <2>2
    <3> QED
      BY <3>2, <3>3 DEF EarlyInv, FrameInv
  <2> QED
    BY <1>2, <2>1, <2>2
<1> QED
  BY <1>7, <1>8, <1>9 DEF IntInv

(* Masks, and ICW2 to ICW4.                                                 *)
LEMMA DataWritten ==
  ASSUME IntInv, write_port, At("data") \/ At("write_mask")
  PROVE  IntInv'
<1>1. UNCHANGED <<iflag, idt_loaded, ports, value, interrupt_handlers, stack>>
  BY DEF write_port
<1>2. /\ stack = <<>> /\ pc \in 1 .. 40 /\ pc' = pc + 1 /\ pc' \in 1 .. 41 /\ Now = kernel_main[pc]
      /\ \/ pc \in {5, 6, 11, 12, 13, 14, 15, 16} /\ kernel_main[pc].do = "data"
         \/ pc >= 17 /\ kernel_main[pc].do = "write_mask" /\ Now.chip \in Chips
  BY AtStep, Places
<1>3. ports
  <2>1. pc \in {5, 6, 11, 12, 13, 14, 15, 16} => pc > 3
    OBVIOUS
  <2>2. pc \in 1 .. 40 /\ pc >= 17 => pc > 3
    OBVIOUS
  <2> QED
    BY <1>2, <2>1, <2>2 DEF IntInv, SetupInv
<1> DEFINE Byte0 == IF pc >= 17 THEN value[Now.chip] \ Now.clear ELSE Now.byte
           c == Now.chip
<1>4. WriteData(c, Byte0)
  BY <1>2, <1>3 DEF write_port, At
<1>5. /\ pc \in {5, 11, 13, 15} => c = "master"
      /\ pc \in {6, 12, 14, 16} => c = "slave"
      /\ pc \in {5, 6} => Byte0 = Bits
      /\ pc = 11 => Byte0 = {6}
      /\ pc = 12 => Byte0 = {3, 6}
  <2>1. pc \in {5, 11, 13, 15} => c = "master"
    BY <1>2, MainSteps DEF Data
  <2>2. pc \in {6, 12, 14, 16} => c = "slave"
    BY <1>2, MainSteps DEF Data
  <2>3. pc \in {5, 6} => Byte0 = Bits
    BY <1>2, MainSteps DEF Data
  <2>4. pc = 11 => Byte0 = {6}
    BY <1>2, MainSteps DEF Data
  <2>5. pc = 12 => Byte0 = {3, 6}
    BY <1>2, MainSteps DEF Data
  <2> QED
    BY <2>1, <2>2, <2>3, <2>4, <2>5
<1>6. c \in Chips /\ Byte0 \in SUBSET Bits
  <2>1. c \in Chips
    BY <1>2, <1>5 DEF Chips
  <2>2. pc \in {13, 14, 15, 16} => Byte0 \in SUBSET Bits
    BY <1>2, MainSteps DEF Data, Bits
  <2>3. pc \in {5, 6, 11, 12} => Byte0 \in SUBSET Bits
    BY <1>5 DEF Bits
  <2>4. pc >= 17 => Byte0 \in SUBSET Bits
    BY <2>1 DEF IntInv, TypeInv
  <2> QED
    BY <1>2, <2>1, <2>2, <2>3, <2>4
<1> HIDE DEF Byte0, c
<1>7. /\ base' = (IF icw[c] = 2 THEN [base EXCEPT ![c] = Byte0] ELSE base)
      /\ icw' = [icw EXCEPT ![c] = IF icw[c] \in {0, 4} THEN 0 ELSE icw[c] + 1]
      /\ imr' = (IF icw[c] = 0 THEN [imr EXCEPT ![c] = Byte0] ELSE imr)
      /\ UNCHANGED <<irr, isr, spurious>>
  BY <1>4 DEF WriteData
<1>8. icw' \in [Chips -> {0, 2, 3, 4}]
  BY <1>6, <1>7 DEF IntInv, TypeInv
<1>9. TypeInv'
  BY <1>1, <1>2, <1>6, <1>7, <1>8 DEF IntInv, TypeInv
<1>10. SetupInv'
  <2>1. CASE pc = 5 \/ pc = 6
    <3>1. icw' = icw /\ base' = base /\ imr' = [imr EXCEPT ![c] = Bits] /\ icw[c] = 0
      <4>1. icw[c] = 0
        BY <1>5, <2>1 DEF IntInv, SetupInv, Expected
      <4>2. Byte0 = Bits
        BY <1>5, <2>1
      <4>3. icw' = [icw EXCEPT ![c] = 0]
        BY <1>7, <4>1
      <4>4. icw' = icw
        BY <1>6, <4>1, <4>3 DEF IntInv, TypeInv
      <4> QED
        BY <1>7, <4>1, <4>2, <4>4
    <3>2. pc = 5 => imr'["master"] = Bits /\ imr'["slave"] = BootMask["slave"]
      BY <1>5, <3>1 DEF IntInv, TypeInv, SetupInv, Chips
    <3>3. pc = 6 => imr'["master"] = Bits /\ imr'["slave"] = Bits
      BY <1>5, <3>1 DEF IntInv, TypeInv, SetupInv, Chips
    <3> QED
      BY <1>1, <1>2, <1>7, <2>1, <3>1, <3>2, <3>3 DEF IntInv, SetupInv, Expected, LIVE
  <2>2. CASE pc = 11
    <3>1. icw[c] = 2 /\ c = "master" /\ Byte0 = {6}
      <4>1. c = "master" /\ Byte0 = {6}
        BY <1>5, <2>2
      <4>2. icw["master"] = 2
        BY <2>2 DEF IntInv, SetupInv, Expected
      <4> QED
        BY <4>1, <4>2
    <3>2. /\ icw'["master"] = 3 /\ icw'["slave"] = icw["slave"] /\ imr' = imr
          /\ base'["master"] = {6} /\ base'["slave"] = base["slave"]
      BY <1>7, <3>1 DEF IntInv, TypeInv, Chips
    <3>3. pc' = 12 /\ icw["slave"] = 2 /\ Expected(12) = 3 /\ Expected(12 - 1) = 2
      BY <1>2, <2>2 DEF IntInv, SetupInv, Expected
    <3>4. stack' = stack /\ ports' = ports /\ idt_loaded' = idt_loaded /\ spurious' = spurious /\ irr' = irr
      BY <1>1, <1>7
    <3> QED
      BY <3>2, <3>3, <3>4, <2>2 DEF IntInv, SetupInv, LIVE
  <2>3. CASE pc = 12
    <3>1. icw[c] = 2 /\ c = "slave" /\ Byte0 = {3, 6}
      <4>1. c = "slave" /\ Byte0 = {3, 6}
        BY <1>5, <2>3
      <4>2. icw["slave"] = 2
        BY <2>3 DEF IntInv, SetupInv, Expected
      <4> QED
        BY <4>1, <4>2
    <3>2. /\ icw'["slave"] = 3 /\ icw'["master"] = icw["master"] /\ imr' = imr
          /\ base'["slave"] = {3, 6} /\ base'["master"] = base["master"]
      BY <1>7, <3>1 DEF IntInv, TypeInv, Chips
    <3>3. pc' = 13 /\ icw["master"] = 3 /\ Expected(13) = 3 /\ Expected(13 - 1) = 3
      BY <1>2, <2>3 DEF IntInv, SetupInv, Expected
    <3>4. stack' = stack /\ ports' = ports /\ idt_loaded' = idt_loaded /\ spurious' = spurious /\ irr' = irr
      BY <1>1, <1>7
    <3> QED
      BY <3>2, <3>3, <3>4, <2>3 DEF IntInv, SetupInv, LIVE
  <2>4. CASE pc \in {13, 15}
    <3>1. icw[c] = (IF pc = 13 THEN 3 ELSE 4) /\ c = "master"
      BY <1>5, <2>4 DEF IntInv, SetupInv, Expected
    <3>2. icw'["master"] = Expected(pc + 1) /\ icw'["slave"] = icw["slave"] /\ base' = base /\ imr' = imr
      BY <1>7, <2>4, <3>1 DEF IntInv, TypeInv, Expected, Chips
    <3>3. pc' = pc + 1 /\ Expected(pc) = Expected(pc - 1) /\ (pc + 1) - 1 = pc
      BY <1>2, <2>4 DEF Expected
    <3>4. stack' = stack /\ ports' = ports /\ idt_loaded' = idt_loaded /\ spurious' = spurious /\ irr' = irr
      BY <1>1, <1>7
    <3> QED
      BY <3>2, <3>3, <3>4, <2>4 DEF IntInv, SetupInv, LIVE
  <2>5. CASE pc \in {14, 16}
    <3>1. icw[c] = (IF pc = 14 THEN 3 ELSE 4) /\ c = "slave"
      BY <1>5, <2>5 DEF IntInv, SetupInv, Expected
    <3>2. icw'["slave"] = Expected(pc) /\ icw'["master"] = icw["master"] /\ base' = base /\ imr' = imr
      BY <1>7, <2>5, <3>1 DEF IntInv, TypeInv, Expected, Chips
    <3>3. pc' = pc + 1 /\ Expected(pc + 1) = Expected(pc) /\ (pc + 1) - 1 = pc
      BY <1>2, <2>5 DEF Expected
    <3>4. stack' = stack /\ ports' = ports /\ idt_loaded' = idt_loaded /\ spurious' = spurious /\ irr' = irr
      BY <1>1, <1>7
    <3> QED
      BY <3>2, <3>3, <3>4, <2>5 DEF IntInv, SetupInv, LIVE
  <2>6. CASE pc >= 17
    <3>1. pc \in 17 .. 40
      BY <1>2, <2>6
    <3>2. icw["master"] = 0 /\ icw["slave"] = 0 /\ icw[c] = 0
      BY <1>6, <3>1 DEF IntInv, SetupInv, Expected, Chips
    <3>3. icw' = icw /\ base' = base
      BY <1>6, <1>7, <3>2 DEF IntInv, TypeInv
    <3>4. pc >= LIVE /\ pc > LIVE
      BY <3>1 DEF LIVE
    <3>5. \A d \in Chips : irr'[d] \subseteq Inputs(d)
      BY <1>7 DEF IntInv, SetupInv
    <3> QED
      BY <1>1, <1>2, <3>3, <3>4, <3>5, SetupKept
  <2> QED
    BY <1>2, <2>1, <2>2, <2>3, <2>4, <2>5, <2>6
<1>11. FrameInv' /\ EarlyInv'
  BY <1>1, <1>2, <1>7 DEF IntInv, FrameInv, EarlyInv
<1> QED
  BY <1>9, <1>10, <1>11 DEF IntInv

-----------------------------------------------------------------------------
(* Entering a handler.                                                      *)

LEMMA Entered ==
  ASSUME IntInv, stack = <<>>, NEW v \in Vectors, NEW line \in Int,
         NEW owns \in SUBSET (Chips \X Bits), Enter(v, line, owns)
  PROVE  /\ iflag' = FALSE /\ stack' \in Seq(Frame) /\ Len(stack') = 1 /\ stack' # <<>>
         /\ stack'[1].vector = v /\ stack'[1].line = line /\ stack'[1].owns = owns
         /\ stack'[1].todo = generic_interrupt_handler(v)
<1> DEFINE f == [vector |-> v, line |-> line, owns |-> owns,
                 iflag |-> iflag, todo |-> generic_interrupt_handler(v)]
<1>1. stack' = <<f>> /\ iflag' = FALSE
  BY DEF Enter, GateFlag
<1>2. f \in Frame
  BY DispatcherEnds DEF Frame, IntInv, TypeInv
<1> QED
  BY <1>1, <1>2

LEMMA Trapped ==
  ASSUME IntInv, software_interrupt
  PROVE  IntInv'
<1>1. /\ At("int") /\ Enter(Now.vector, -1, {})
      /\ UNCHANGED <<idt_loaded, ports, value, interrupt_handlers, pic>>
  BY DEF software_interrupt
<1>2. /\ stack = <<>> /\ pc \in 1 .. 40 /\ pc' = pc + 1 /\ pc' \in 1 .. 41
      /\ pc >= 19 /\ kernel_main[pc].do = "int" /\ Now = kernel_main[pc]
      /\ pc > 10 => \A c \in Chips : isr[c] = {}
  BY <1>1, AtStep, Places
<1>3. pc \in 19 .. 40
  <2>1. pc \in 1 .. 40 /\ pc >= 19
    BY <1>2, Zenon
  <2> QED
    BY <2>1
<1>4. Now.vector \in Vectors /\ -1 \in Int /\ {} \in SUBSET (Chips \X Bits)
  <2>1. Now.vector \in {128, 129}
    BY <1>2, <1>3, LaterKinds
  <2> QED
    BY <2>1 DEF Vectors
<1>5. /\ iflag' = FALSE /\ stack' \in Seq(Frame) /\ Len(stack') = 1 /\ stack' # <<>>
      /\ stack'[1].line = -1
  BY <1>1, <1>2, <1>4, Entered
<1>6. TypeInv'
  BY <1>1, <1>2, <1>5 DEF IntInv, TypeInv, pic
<1>7. SetupInv'
  <2>1. pc >= LIVE /\ pc > LIVE
    BY <1>3 DEF LIVE
  <2>2. UNCHANGED <<ports, idt_loaded, icw, base, irr>>
    BY <1>1 DEF pic
  <2>3. \A c \in Chips : irr'[c] \subseteq Inputs(c)
    BY <2>2 DEF IntInv, SetupInv
  <2> QED
    BY <1>2, <2>1, <2>2, <2>3, SetupKept
<1>8. FrameInv' /\ EarlyInv'
  BY <1>1, <1>2, <1>3, <1>5 DEF FrameInv, EarlyInv, pic
<1> QED
  BY <1>6, <1>7, <1>8 DEF IntInv

(* An interrupt is taken in the main thread only.                           *)
LEMMA EmptyStack ==
  ASSUME IntInv, hardware_interrupt
  PROVE  stack = <<>>
<1>1. pc <= 10 \/ pc > 10
  BY DEF IntInv, TypeInv
<1>2. iflag
  BY DEF hardware_interrupt
<1> QED
  BY <1>1, <1>2 DEF IntInv, EarlyInv, FrameInv

(* What an acknowledged interrupt is: its vector, what it put into service, *)
(* and the requests that remain.                                            *)
Acknowledged(v, line, owns) ==
  /\ Enter(v, line, owns)
  /\ v \in 64 .. 79 /\ line \in 0 .. 15 /\ v = irq_id_to_vector(IrqOf(line))
  /\ owns \in SUBSET (Chips \X Bits)
  /\ isr' \in [Chips -> SUBSET Bits]
  /\ \A c \in Chips : \A a, b \in isr'[c] : a = b /\ <<c, a>> \in owns
  /\ isr'["slave"] # {} => v \in 72 .. 79
  /\ irr' \in [Chips -> SUBSET Bits] /\ \A c \in Chips : irr'[c] \subseteq Inputs(c)
  /\ spurious' \in SUBSET Chips

LEMMA HardwareEntry ==
  ASSUME IntInv, hardware_interrupt, pc >= LIVE
  PROVE  \E v, line, owns : Acknowledged(v, line, owns)
<1>1. stack = <<>> /\ \A c \in Chips : isr[c] = {}
  BY EmptyStack DEF IntInv, FrameInv, TypeInv, LIVE
<1>2. pc \in 1 .. 41
  BY DEF IntInv, TypeInv
<1>3. base["master"] = {6} /\ base["slave"] = {3, 6}
  <2>1. pc >= 12 /\ pc >= 13
    BY <1>2 DEF LIVE
  <2> QED
    BY <2>1 DEF IntInv, SetupInv
<1>4. MasterWants \in SUBSET Bits /\ SlaveWants \in SUBSET Bits
  <2>1. irr["master"] \in SUBSET Bits /\ irr["slave"] \in SUBSET Bits /\ Cascade \in SUBSET Bits
    BY DEF IntInv, TypeInv, Chips, Cascade, Bits
  <2> QED
    BY <2>1 DEF MasterWants, SlaveWants, Wants
<1>5. "master" \in Chips /\ "slave" \in Chips /\ 2 \in Bits /\ 7 \in Bits
      /\ \A b \in Bits : b \in 0 .. 7
  BY DEF Chips, Bits
<1>6. /\ irr \in [Chips -> SUBSET Bits] /\ isr \in [Chips -> SUBSET Bits]
      /\ spurious \in SUBSET Chips /\ \A c \in Chips : irr[c] \subseteq Inputs(c)
  BY DEF IntInv, TypeInv, SetupInv
<1> DEFINE m == First(MasterWants)
           s == First(SlaveWants)
<1>7. ASSUME MasterWants # {}, Enter(PicVector("master", m), m, {<<"master", m>>}),
             irr' = [irr EXCEPT !["master"] = @ \ {m}],
             isr' = [isr EXCEPT !["master"] = @ \cup {m}], UNCHANGED spurious
      PROVE  Acknowledged(64 + m, m, {<<"master", m>>})
  <2>1. m \in Bits
    BY <1>4, <1>7, FirstIn
  <2>2. PicVector("master", m) = 64 + m /\ irq_id_to_vector(IrqOf(m)) = 64 + m
    BY <1>3, <2>1, RemappedVectors
  <2> HIDE DEF m
  <2>3. /\ isr' \in [Chips -> SUBSET Bits] /\ isr'["master"] = {m} /\ isr'["slave"] = {}
    BY <1>1, <1>5, <1>6, <1>7, <2>1
  <2>4. irr' \in [Chips -> SUBSET Bits] /\ \A c \in Chips : irr'[c] \subseteq Inputs(c)
    BY <1>6, <1>7
  <2>5. \A c \in Chips : \A a, b \in isr'[c] : a = b /\ <<c, a>> \in {<<"master", m>>}
    BY <2>3 DEF Chips
  <2>6. 64 + m \in 64 .. 79 /\ m \in 0 .. 15
    BY <1>5, <2>1
  <2>7. {<<"master", m>>} \in SUBSET (Chips \X Bits)
    BY <1>5, <2>1
  <2> QED
    BY <1>6, <1>7, <2>2, <2>3, <2>4, <2>5, <2>6, <2>7 DEF Acknowledged
<1>8. ASSUME SlaveWants # {},
             Enter(PicVector("slave", s), s + 8, {<<"master", 2>>, <<"slave", s>>}),
             irr' = [irr EXCEPT !["slave"] = @ \ {s}],
             isr' = [master |-> isr["master"] \cup {2}, slave |-> isr["slave"] \cup {s}],
             spurious' = spurious \ {"slave"}
      PROVE  Acknowledged(72 + s, s + 8, {<<"master", 2>>, <<"slave", s>>})
  <2>1. s \in Bits
    BY <1>4, <1>8, FirstIn
  <2>2. PicVector("slave", s) = 72 + s /\ irq_id_to_vector(IrqOf(s + 8)) = 72 + s
    BY <1>3, <2>1, RemappedVectors
  <2> HIDE DEF s
  <2>3. /\ isr' \in [Chips -> SUBSET Bits] /\ isr'["master"] = {2} /\ isr'["slave"] = {s}
    <3>1. isr' = [master |-> {2}, slave |-> {s}]
      BY <1>1, <1>5, <1>8
    <3> QED
      BY <3>1, <1>5, <2>1 DEF Chips
  <2>4. irr' \in [Chips -> SUBSET Bits] /\ \A c \in Chips : irr'[c] \subseteq Inputs(c)
    BY <1>6, <1>8
  <2>5. \A c \in Chips : \A a, b \in isr'[c] :
          a = b /\ <<c, a>> \in {<<"master", 2>>, <<"slave", s>>}
    BY <2>3 DEF Chips
  <2>6. 72 + s \in 72 .. 79 /\ 72 + s \in 64 .. 79 /\ s + 8 \in 0 .. 15
    BY <1>5, <2>1
  <2>7. {<<"master", 2>>, <<"slave", s>>} \in SUBSET (Chips \X Bits)
    BY <1>5, <2>1
  <2>8. spurious' \in SUBSET Chips
    BY <1>6, <1>8
  <2> QED
    BY <1>8, <2>2, <2>3, <2>4, <2>5, <2>6, <2>7, <2>8 DEF Acknowledged
<1>9. ASSUME Enter(PicVector("slave", 7), 15, {<<"master", 2>>}),
             isr' = [isr EXCEPT !["master"] = @ \cup {2}],
             spurious' = spurious \ {"slave"}, UNCHANGED irr
      PROVE  Acknowledged(79, 15, {<<"master", 2>>})
  <2>1. PicVector("slave", 7) = 79 /\ irq_id_to_vector(IrqOf(15)) = 79
    <3>1. PicVector("slave", 7) = 72 + 7 /\ irq_id_to_vector(IrqOf(7 + 8)) = 72 + 7
      BY <1>3, <1>5, RemappedVectors
    <3> QED
      BY <3>1
  <2>2. /\ isr' \in [Chips -> SUBSET Bits] /\ isr'["master"] = {2} /\ isr'["slave"] = {}
    BY <1>1, <1>5, <1>6, <1>9
  <2>3. \A c \in Chips : \A a, b \in isr'[c] : a = b /\ <<c, a>> \in {<<"master", 2>>}
    BY <2>2 DEF Chips
  <2>4. {<<"master", 2>>} \in SUBSET (Chips \X Bits)
    BY <1>5
  <2>5. 79 \in 64 .. 79 /\ 15 \in 0 .. 15 /\ spurious' \in SUBSET Chips
    BY <1>6, <1>9
  <2> QED
    BY <1>6, <1>9, <2>1, <2>2, <2>3, <2>4, <2>5 DEF Acknowledged
<1>10. ASSUME Enter(PicVector("master", 7), 7, {}),
              spurious' = spurious \ {"master"}, UNCHANGED <<irr, isr>>
       PROVE  Acknowledged(71, 7, {})
  <2>1. PicVector("master", 7) = 71 /\ irq_id_to_vector(IrqOf(7)) = 71
    <3>1. PicVector("master", 7) = 64 + 7 /\ irq_id_to_vector(IrqOf(7)) = 64 + 7
      BY <1>3, <1>5, RemappedVectors
    <3> QED
      BY <3>1
  <2>2. \A c \in Chips : isr'[c] = {}
    BY <1>1, <1>10
  <2>3. 71 \in 64 .. 79 /\ 7 \in 0 .. 15 /\ spurious' \in SUBSET Chips
        /\ {} \in SUBSET (Chips \X Bits)
    BY <1>6, <1>10
  <2> QED
    BY <1>5, <1>6, <1>10, <2>1, <2>2, <2>3 DEF Acknowledged
<1>11. \E v, line, owns : Acknowledged(v, line, owns)
  <2>1. \/ Acknowledged(64 + m, m, {<<"master", m>>})
        \/ Acknowledged(72 + s, s + 8, {<<"master", 2>>, <<"slave", s>>})
        \/ Acknowledged(79, 15, {<<"master", 2>>})
        \/ Acknowledged(71, 7, {})
    BY <1>7, <1>8, <1>9, <1>10 DEF hardware_interrupt
  <2> QED
    BY <2>1
<1> QED
  BY <1>11

LEMMA LateTaken ==
  ASSUME IntInv, hardware_interrupt, pc >= LIVE
  PROVE  IntInv'
<1>1. PICK v, line, owns : Acknowledged(v, line, owns)
  BY HardwareEntry
<1>2. stack = <<>> /\ pc \in 1 .. 41 /\ pc >= LIVE
      /\ UNCHANGED <<pc, idt_loaded, ports, value, interrupt_handlers, base, icw, imr>>
  BY EmptyStack DEF hardware_interrupt, IntInv, TypeInv
<1>3. v \in Vectors /\ line \in Int /\ owns \in SUBSET (Chips \X Bits) /\ Enter(v, line, owns)
  <2>1. v \in 64 .. 79 /\ line \in 0 .. 15 /\ owns \in SUBSET (Chips \X Bits) /\ Enter(v, line, owns)
    BY <1>1 DEF Acknowledged
  <2>2. v \in Vectors /\ line \in Int
    BY <2>1 DEF Vectors
  <2> QED
    BY <2>1, <2>2
<1>4. /\ iflag' = FALSE /\ stack' \in Seq(Frame) /\ Len(stack') = 1 /\ stack' # <<>>
      /\ stack'[1].vector = v /\ stack'[1].line = line /\ stack'[1].owns = owns
      /\ stack'[1].todo = generic_interrupt_handler(v)
  BY <1>2, <1>3, Entered
<1>5. TypeInv'
  BY <1>1, <1>2, <1>4 DEF Acknowledged, IntInv, TypeInv
<1>6. SetupInv'
  <2>1. \A c \in Chips : irr'[c] \subseteq Inputs(c)
    BY <1>1 DEF Acknowledged
  <2> QED
    BY <1>2, <2>1, SetupKept
<1>7. \A c \in Chips : isr'[c] # {} =>
        \E k \in DOMAIN generic_interrupt_handler(v) :
          generic_interrupt_handler(v)[k] = Eoi(c)
  BY <1>1, <1>3, DispatcherEnds DEF Acknowledged, IntInv, Chips
<1>8. FrameInv'
  BY <1>1, <1>4, <1>7 DEF Acknowledged, FrameInv
<1>9. EarlyInv'
  <2>1. ~ (pc' <= 10)
    BY <1>2 DEF LIVE
  <2> QED
    BY <2>1 DEF EarlyInv
<1> QED
  BY <1>5, <1>6, <1>8, <1>9 DEF IntInv

(* An interrupt acknowledged before the chips are programmed is one that    *)
(* the firmware left open.                                                  *)
EarlyEntry(v, line, owns) ==
  /\ Enter(v, line, owns)
  /\ v \in Vectors /\ line \in Int /\ owns \in SUBSET (Chips \X Bits) /\ Strays(owns, pc)
  /\ isr' \in [Chips -> SUBSET Bits]
  /\ \A c \in Chips : \A b \in isr'[c] : b \in isr[c] \/ (<<c, b>> \in owns)
  /\ irr' \in [Chips -> SUBSET Bits] /\ \A c \in Chips : irr'[c] \subseteq Inputs(c)
  /\ spurious' \in SUBSET spurious

LEMMA AnyVector ==
  ASSUME TypeInv, NEW c \in Chips, NEW b \in Bits
  PROVE  PicVector(c, b) \in Vectors
<1>1. \A byte : /\ Weight(byte, 7) \in {0, 128} /\ Weight(byte, 6) \in {0, 64}
                /\ Weight(byte, 5) \in {0, 32} /\ Weight(byte, 4) \in {0, 16}
                /\ Weight(byte, 3) \in {0, 8}
  BY DEF Weight
<1>2. b \in 0 .. 7
  BY DEF Bits
<1> DEFINE w7 == Weight(base[c], 7)
           w6 == Weight(base[c], 6)
           w5 == Weight(base[c], 5)
           w4 == Weight(base[c], 4)
           w3 == Weight(base[c], 3)
<1>3. /\ w7 \in 0 .. 128 /\ w6 \in 0 .. 64 /\ w5 \in 0 .. 32 /\ w4 \in 0 .. 16 /\ w3 \in 0 .. 8
  BY <1>1
<1>4. PicVector(c, b) = w7 + w6 + w5 + w4 + w3 + b
  BY DEF PicVector
<1> HIDE DEF w7, w6, w5, w4, w3
<1> QED
  BY <1>2, <1>3, <1>4 DEF Vectors

LEMMA EarlyAcknowledged ==
  ASSUME IntInv, hardware_interrupt, pc < LIVE
  PROVE  pc <= 9 /\ \E v, line, owns : EarlyEntry(v, line, owns)
<1>1. pc \in 1 .. 15
  BY DEF IntInv, TypeInv, LIVE
<1>2. MasterWants # {} => pc <= 5
  BY <1>1, Silent
<1>3. MasterWants # {} \/ "master" \in spurious
  BY DEF hardware_interrupt
<1>4. pc <= 9
  BY <1>1, <1>2, <1>3 DEF IntInv, SetupInv, LIVE
<1>5. "master" \in spurious => MasterOpen
  BY <1>1 DEF IntInv, SetupInv, LIVE
<1>6. pc <= 5 => imr["master"] = BootMask["master"] /\ imr["slave"] = BootMask["slave"]
  BY <1>1 DEF IntInv, SetupInv
<1>7. MasterWants \in SUBSET Bits /\ SlaveWants \in SUBSET Bits
  <2>1. irr["master"] \in SUBSET Bits /\ irr["slave"] \in SUBSET Bits /\ Cascade \in SUBSET Bits
    BY DEF IntInv, TypeInv, Chips, Cascade, Bits
  <2> QED
    BY <2>1 DEF MasterWants, SlaveWants, Wants
<1>8. /\ \A b \in MasterWants : b \notin imr["master"]
      /\ \A b \in SlaveWants : b \notin imr["slave"]
  BY DEF MasterWants, SlaveWants, Wants
<1>9. "master" \in Chips /\ "slave" \in Chips /\ 2 \in Bits /\ 7 \in Bits
      /\ \A b \in Bits : b \in Int /\ b + 8 \in Int
  BY DEF Chips, Bits
<1>10. /\ irr \in [Chips -> SUBSET Bits] /\ isr \in [Chips -> SUBSET Bits]
       /\ \A c \in Chips : irr[c] \subseteq Inputs(c)
  BY DEF IntInv, TypeInv, SetupInv
<1> DEFINE m == First(MasterWants)
           s == First(SlaveWants)
<1>11. \A c \in Chips : \A b \in Bits : PicVector(c, b) \in Vectors
  BY AnyVector DEF IntInv
<1>12. ASSUME MasterWants # {}, Enter(PicVector("master", m), m, {<<"master", m>>}),
              irr' = [irr EXCEPT !["master"] = @ \ {m}],
              isr' = [isr EXCEPT !["master"] = @ \cup {m}], UNCHANGED spurious
       PROVE  EarlyEntry(PicVector("master", m), m, {<<"master", m>>})
  <2>1. m \in MasterWants /\ m \in Bits
    BY <1>7, <1>12, FirstIn
  <2>2. pc <= 5 /\ m \notin BootMask["master"]
    BY <1>2, <1>6, <1>8, <1>12, <2>1
  <2> HIDE DEF m
  <2>3. Strays({<<"master", m>>}, pc)
    BY <2>2 DEF Strays
  <2>4. /\ isr' \in [Chips -> SUBSET Bits]
        /\ \A c \in Chips : \A b \in isr'[c] : b \in isr[c] \/ (<<c, b>> \in {<<"master", m>>})
    BY <1>9, <1>10, <1>12, <2>1
  <2>5. irr' \in [Chips -> SUBSET Bits] /\ \A c \in Chips : irr'[c] \subseteq Inputs(c)
    BY <1>10, <1>12
  <2>6. {<<"master", m>>} \in SUBSET (Chips \X Bits) /\ m \in Int
        /\ PicVector("master", m) \in Vectors
    BY <1>9, <1>11, <2>1
  <2> QED
    BY <1>12, <2>3, <2>4, <2>5, <2>6 DEF EarlyEntry
<1>13. ASSUME MasterWants # {}, m = 2, SlaveWants # {},
              Enter(PicVector("slave", s), s + 8, {<<"master", 2>>, <<"slave", s>>}),
              irr' = [irr EXCEPT !["slave"] = @ \ {s}],
              isr' = [master |-> isr["master"] \cup {2}, slave |-> isr["slave"] \cup {s}],
              spurious' = spurious \ {"slave"}
       PROVE  EarlyEntry(PicVector("slave", s), s + 8, {<<"master", 2>>, <<"slave", s>>})
  <2>1. m \in MasterWants /\ s \in SlaveWants /\ s \in Bits
    BY <1>7, <1>13, FirstIn
  <2>2. pc <= 5 /\ 2 \notin BootMask["master"] /\ s \notin BootMask["slave"]
    BY <1>2, <1>6, <1>8, <1>13, <2>1
  <2> HIDE DEF m, s
  <2>3. Strays({<<"master", 2>>, <<"slave", s>>}, pc)
    BY <2>2 DEF Strays
  <2>4. /\ isr' \in [Chips -> SUBSET Bits]
        /\ isr'["master"] = isr["master"] \cup {2} /\ isr'["slave"] = isr["slave"] \cup {s}
    BY <1>9, <1>10, <1>13, <2>1 DEF Chips
  <2>5. \A c \in Chips : \A b \in isr'[c] :
          b \in isr[c] \/ (<<c, b>> \in {<<"master", 2>>, <<"slave", s>>})
    BY <2>4 DEF Chips
  <2>6. irr' \in [Chips -> SUBSET Bits] /\ \A c \in Chips : irr'[c] \subseteq Inputs(c)
    BY <1>10, <1>13
  <2>7. {<<"master", 2>>, <<"slave", s>>} \in SUBSET (Chips \X Bits) /\ s + 8 \in Int
        /\ PicVector("slave", s) \in Vectors /\ spurious' \in SUBSET spurious
    BY <1>9, <1>11, <1>13, <2>1
  <2> QED
    BY <1>13, <2>3, <2>4, <2>5, <2>6, <2>7 DEF EarlyEntry
<1>14. ASSUME MasterWants # {}, m = 2, Enter(PicVector("slave", 7), 15, {<<"master", 2>>}),
              isr' = [isr EXCEPT !["master"] = @ \cup {2}],
              spurious' = spurious \ {"slave"}, UNCHANGED irr
       PROVE  EarlyEntry(PicVector("slave", 7), 15, {<<"master", 2>>})
  <2>1. m \in MasterWants
    BY <1>7, <1>14, FirstIn
  <2>2. pc <= 5 /\ 2 \notin BootMask["master"]
    BY <1>2, <1>6, <1>8, <1>14, <2>1
  <2>3. Strays({<<"master", 2>>}, pc)
    BY <2>2 DEF Strays
  <2>4. /\ isr' \in [Chips -> SUBSET Bits]
        /\ \A c \in Chips : \A b \in isr'[c] : b \in isr[c] \/ (<<c, b>> \in {<<"master", 2>>})
    BY <1>9, <1>10, <1>14
  <2>5. {<<"master", 2>>} \in SUBSET (Chips \X Bits) /\ 15 \in Int
        /\ PicVector("slave", 7) \in Vectors /\ spurious' \in SUBSET spurious
    BY <1>9, <1>11, <1>14
  <2> QED
    BY <1>10, <1>14, <2>3, <2>4, <2>5 DEF EarlyEntry
<1>15. ASSUME "master" \in spurious, Enter(PicVector("master", 7), 7, {}),
              spurious' = spurious \ {"master"}, UNCHANGED <<irr, isr>>
       PROVE  EarlyEntry(PicVector("master", 7), 7, {})
  <2>1. Strays({}, pc)
    BY <1>4, <1>5, <1>15 DEF Strays
  <2>2. {} \in SUBSET (Chips \X Bits) /\ 7 \in Int
        /\ PicVector("master", 7) \in Vectors /\ spurious' \in SUBSET spurious
    BY <1>9, <1>11, <1>15
  <2> QED
    BY <1>10, <1>15, <2>1, <2>2 DEF EarlyEntry
<1>16. \/ EarlyEntry(PicVector("master", m), m, {<<"master", m>>})
       \/ EarlyEntry(PicVector("slave", s), s + 8, {<<"master", 2>>, <<"slave", s>>})
       \/ EarlyEntry(PicVector("slave", 7), 15, {<<"master", 2>>})
       \/ EarlyEntry(PicVector("master", 7), 7, {})
  BY <1>12, <1>13, <1>14, <1>15 DEF hardware_interrupt
<1> QED
  BY <1>4, <1>16

LEMMA EarlyTaken ==
  ASSUME IntInv, hardware_interrupt, pc < LIVE
  PROVE  IntInv'
<1>1. PICK v, line, owns : EarlyEntry(v, line, owns)
  BY EarlyAcknowledged
<1>2. /\ stack = <<>> /\ pc \in 1 .. 41 /\ pc <= 9
      /\ UNCHANGED <<pc, idt_loaded, ports, value, interrupt_handlers, base, icw, imr>>
  BY EmptyStack, EarlyAcknowledged DEF hardware_interrupt, IntInv, TypeInv
<1>3. /\ v \in Vectors /\ line \in Int /\ owns \in SUBSET (Chips \X Bits)
      /\ Enter(v, line, owns) /\ Strays(owns, pc)
  BY <1>1 DEF EarlyEntry
<1>4. /\ iflag' = FALSE /\ stack' \in Seq(Frame) /\ Len(stack') = 1 /\ stack' # <<>>
      /\ stack'[1].owns = owns
  BY <1>2, <1>3, Entered
<1>5. TypeInv'
  <2>1. spurious' \in SUBSET Chips
    BY <1>1 DEF EarlyEntry, IntInv, TypeInv
  <2> QED
    BY <1>1, <1>2, <1>4, <2>1 DEF EarlyEntry, IntInv, TypeInv
<1>6. SetupInv'
  <2>1. /\ \A c \in Chips : irr'[c] \subseteq Inputs(c)
        /\ "master" \in spurious' => "master" \in spurious
        /\ "slave" \in spurious' => "slave" \in spurious
    BY <1>1 DEF EarlyEntry
  <2> QED
    BY <1>2, <2>1 DEF IntInv, SetupInv
<1>7. EarlyInv'
  <2>1. ASSUME NEW c \in Chips, NEW b \in isr'[c]
        PROVE  b \notin BootMask[c]
    <3>1. CASE b \in isr[c]
      BY <1>2, <3>1 DEF IntInv, EarlyInv, Chips
    <3>2. CASE <<c, b>> \in owns
      BY <1>3, <3>2 DEF Strays
    <3> QED
      BY <1>1, <3>1, <3>2 DEF EarlyEntry
  <2>2. "master" \in Chips /\ "slave" \in Chips
    BY DEF Chips
  <2> QED
    BY <1>2, <1>3, <1>4, <2>1, <2>2 DEF EarlyInv
<1>8. FrameInv'
  <2>1. ~ (pc' > 10)
    BY <1>2
  <2> QED
    BY <2>1 DEF FrameInv
<1> QED
  BY <1>5, <1>6, <1>7, <1>8 DEF IntInv

LEMMA InterruptTaken ==
  ASSUME IntInv, hardware_interrupt
  PROVE  IntInv'
<1>1. pc < LIVE \/ pc >= LIVE
  BY DEF IntInv, TypeInv, LIVE
<1> QED
  BY <1>1, LateTaken, EarlyTaken

-----------------------------------------------------------------------------
(* In the handler.                                                          *)

(* Handlers do not nest, and none runs while the chips are programmed.      *)
LEMMA OneFrame ==
  ASSUME IntInv, stack # <<>>
  PROVE  Len(stack) = 1 /\ ~ iflag /\ (pc <= 9 \/ pc >= LIVE)
<1>1. pc \in 1 .. 41
  BY DEF IntInv, TypeInv
<1>2. pc <= 10 => Strays(stack[1].owns, pc) /\ Len(stack) = 1 /\ ~ iflag
  BY DEF IntInv, EarlyInv
<1>3. pc <= 10 => pc <= 5 \/ pc <= 9
  BY <1>2, Zenon DEF Strays
<1>4. pc > 10 => Len(stack) = 1 /\ ~ iflag /\ pc \notin 11 .. 15
  BY DEF IntInv, FrameInv, SetupInv
<1>5. pc <= 10 => pc <= 9
  BY <1>1, <1>3
<1> QED
  BY <1>1, <1>2, <1>4, <1>5 DEF LIVE

(* A step of the dispatcher takes one item off its list.                    *)
LEMMA ItemDone ==
  ASSUME IntInv, NEW what, Handling(what), stack' = Done
  PROVE  /\ stack # <<>> /\ Len(stack) = 1 /\ Top = stack[1] /\ (pc <= 9 \/ pc >= LIVE)
         /\ Head(Top.todo) \in Todo /\ Head(Top.todo).do = what
         /\ stack' \in Seq(Frame) /\ Len(stack') = 1 /\ stack' # <<>>
         /\ stack'[1].vector = Top.vector /\ stack'[1].line = Top.line
         /\ stack'[1].owns = Top.owns
         /\ \A e : (\E k \in DOMAIN Top.todo : Top.todo[k] = e) /\ Head(Top.todo) # e =>
              \E k \in DOMAIN stack'[1].todo : stack'[1].todo[k] = e
<1>1. /\ stack # <<>> /\ Len(stack) = 1 /\ Top = stack[1] /\ stack \in Seq(Frame)
      /\ Top.todo # <<>> /\ Head(Top.todo).do = what
  <2>1. stack # <<>> /\ stack \in Seq(Frame) /\ Top.todo # <<>> /\ Head(Top.todo).do = what
    BY DEF Handling, IntInv, TypeInv
  <2>2. Len(stack) = 1
    BY <2>1, OneFrame
  <2> QED
    BY <2>1, <2>2 DEF Top
<1>2. pc <= 9 \/ pc >= LIVE
  BY <1>1, OneFrame
<1>3. Top \in Frame
  BY <1>1
<1> DEFINE t == Top.todo
<1>4. t \in Seq(Todo) /\ t # <<>> /\ Tail(t) \in Seq(Todo) /\ Head(t) \in Todo
  BY <1>1, <1>3 DEF Frame
<1> DEFINE f == [Top EXCEPT !.todo = Tail(@)]
<1>5. f \in Frame
  BY <1>3, <1>4 DEF Frame
<1>6. stack' = <<f>>
  <2>1. stack' = [stack EXCEPT ![1].todo = Tail(@)]
    BY <1>1 DEF Done
  <2>2. stack' = [stack EXCEPT ![1] = f]
    BY <1>1, <2>1
  <2>3. stack = <<Top>>
    BY <1>1
  <2>4. \A x, y : [<<x>> EXCEPT ![1] = y] = <<y>>
    OBVIOUS
  <2> HIDE DEF f
  <2> QED
    BY <2>2, <2>3, <2>4
<1>7. f.vector = Top.vector /\ f.line = Top.line /\ f.owns = Top.owns /\ f.todo = Tail(t)
  BY <1>3 DEF Frame
<1>8. ASSUME NEW e, NEW k \in DOMAIN t, t[k] = e, Head(t) # e
      PROVE  \E j \in DOMAIN Tail(t) : Tail(t)[j] = e
  <2>1. k \in 1 .. Len(t) /\ k # 1
    BY <1>4, <1>8
  <2>2. k - 1 \in DOMAIN Tail(t) /\ Tail(t)[k - 1] = e
    BY <1>4, <1>8, <2>1
  <2> QED
    BY <2>2
<1> HIDE DEF f
<1>9. /\ stack' \in Seq(Frame) /\ Len(stack') = 1 /\ stack' # <<>> /\ stack'[1] = f
  BY <1>5, <1>6
<1>10. \A e : (\E k \in DOMAIN Top.todo : Top.todo[k] = e) /\ Head(Top.todo) # e =>
         \E k \in DOMAIN stack'[1].todo : stack'[1].todo[k] = e
  BY <1>7, <1>8, <1>9
<1> QED
  BY <1>1, <1>2, <1>4, <1>7, <1>9, <1>10

LEMMA HandlerCalled ==
  ASSUME IntInv, call_handler
  PROVE  IntInv'
<1>1. /\ Handling("call") /\ stack' = Done
      /\ UNCHANGED <<pc, iflag, idt_loaded, ports, value, interrupt_handlers, pic>>
  BY DEF call_handler
<1>2. /\ stack # <<>> /\ Len(stack) = 1 /\ Top = stack[1] /\ (pc <= 9 \/ pc >= LIVE)
      /\ Head(Top.todo).do = "call"
      /\ stack' \in Seq(Frame) /\ Len(stack') = 1 /\ stack' # <<>>
      /\ stack'[1].vector = Top.vector /\ stack'[1].line = Top.line
      /\ stack'[1].owns = Top.owns
      /\ \A e : (\E k \in DOMAIN Top.todo : Top.todo[k] = e) /\ Head(Top.todo) # e =>
           \E k \in DOMAIN stack'[1].todo : stack'[1].todo[k] = e
  BY <1>1, ItemDone
<1>3. \A c \in Chips : Head(Top.todo) # Eoi(c)
  BY <1>2 DEF Eoi
<1>4. TypeInv'
  BY <1>1, <1>2 DEF IntInv, TypeInv, pic
<1>5. SetupInv'
  BY <1>1, <1>2 DEF IntInv, SetupInv, TypeInv, LIVE, pic
<1>6. EarlyInv'
  BY <1>1, <1>2 DEF IntInv, EarlyInv, pic
<1>7. FrameInv'
  <2> SUFFICES ASSUME pc > 10 PROVE FrameInv'
    BY <1>1 DEF FrameInv
  <2>1. ~ iflag /\ (stack[1].line >= 0 => stack[1].vector = irq_id_to_vector(IrqOf(stack[1].line)))
    BY <1>2 DEF IntInv, FrameInv
  <2>2. \A c \in Chips : \A a, b \in isr[c] : a = b /\ <<c, a>> \in stack[1].owns
    BY <1>2 DEF IntInv, FrameInv
  <2>3. \A c \in Chips : isr[c] # {} =>
          \E k \in DOMAIN stack[1].todo : stack[1].todo[k] = Eoi(c)
    BY <1>2 DEF IntInv, FrameInv
  <2>4. \A c \in Chips : isr[c] # {} =>
          \E k \in DOMAIN stack'[1].todo : stack'[1].todo[k] = Eoi(c)
    BY <1>2, <1>3, <2>3
  <2>5. isr' = isr /\ iflag' = iflag
    BY <1>1 DEF pic
  <2> QED
    BY <1>2, <2>1, <2>2, <2>4, <2>5 DEF FrameInv
<1> QED
  BY <1>4, <1>5, <1>6, <1>7 DEF IntInv

(* An end-of-interrupt ends what the interrupt owns on that chip.           *)
LEMMA EndSent ==
  ASSUME IntInv, send_eoi
  PROVE  /\ IntInv'
         /\ ~ LeftOpen(Top) => \A c \in Chips : \A b \in isr[c] \ isr'[c] : <<c, b>> \in Top.owns
<1>1. /\ Handling("eoi") /\ stack' = Done
      /\ UNCHANGED <<pc, iflag, idt_loaded, ports, value, interrupt_handlers>>
  BY DEF send_eoi
<1>2. /\ stack # <<>> /\ Len(stack) = 1 /\ Top = stack[1] /\ (pc <= 9 \/ pc >= LIVE)
      /\ Head(Top.todo) \in Todo /\ Head(Top.todo).do = "eoi"
      /\ stack' \in Seq(Frame) /\ Len(stack') = 1 /\ stack' # <<>>
      /\ stack'[1].vector = Top.vector /\ stack'[1].line = Top.line
      /\ stack'[1].owns = Top.owns
      /\ \A e : (\E k \in DOMAIN Top.todo : Top.todo[k] = e) /\ Head(Top.todo) # e =>
           \E k \in DOMAIN stack'[1].todo : stack'[1].todo[k] = e
  BY <1>1, ItemDone
<1>3. PICK d \in Chips : Head(Top.todo) = Eoi(d)
  <2>1. \A h \in Names : Call(h).do # "eoi"
    BY DEF Call
  <2>2. Halt.do # "eoi"
    BY DEF Halt
  <2> QED
    BY <1>2, <2>1, <2>2 DEF Todo
<1>4. ports
  <2>1. idt_loaded /\ pc \in 1 .. 41
    BY <1>1 DEF Handling, IntInv, TypeInv
  <2>2. pc > 3
    BY <2>1 DEF IntInv, SetupInv
  <2> QED
    BY <2>2 DEF IntInv, SetupInv
<1>5. WriteCommand(d, {5})
  BY <1>3, <1>4 DEF send_eoi, Eoi
<1>6. /\ isr' = [isr EXCEPT ![d] = IF @ = {} THEN {} ELSE @ \ {First(@)}]
      /\ UNCHANGED <<base, icw, imr, irr, spurious>>
  BY <1>5 DEF WriteCommand
<1>7. isr' \in [Chips -> SUBSET Bits] /\ \A c \in Chips : isr'[c] \subseteq isr[c]
  BY <1>6 DEF IntInv, TypeInv
<1>8. ASSUME pc > 10
      PROVE  isr'[d] = {} /\ \A c \in Chips \ {d} : isr'[c] = isr[c]
  <2>1. isr \in [Chips -> SUBSET Bits] /\ isr[d] \in SUBSET Bits
    BY DEF IntInv, TypeInv
  <2>2. \A a, b \in isr[d] : a = b
    BY <1>2, <1>8 DEF IntInv, FrameInv
  <2>3. isr[d] # {} => First(isr[d]) \in isr[d]
    BY <2>1, FirstIn
  <2>4. (IF isr[d] = {} THEN {} ELSE isr[d] \ {First(isr[d])}) = {}
    BY <2>2, <2>3
  <2> QED
    BY <1>6, <2>1, <2>4
<1>9. \A c \in Chips : c # d => Eoi(c) # Eoi(d)
  BY DEF Eoi
<1>10. TypeInv'
  BY <1>1, <1>2, <1>6, <1>7 DEF IntInv, TypeInv
<1>11. SetupInv'
  BY <1>1, <1>2, <1>6 DEF IntInv, SetupInv, TypeInv, LIVE
<1>12. EarlyInv'
  BY <1>1, <1>2, <1>7 DEF IntInv, EarlyInv, Chips
<1>13. FrameInv'
  <2> SUFFICES ASSUME pc > 10 PROVE FrameInv'
    BY <1>1 DEF FrameInv
  <2>1. ASSUME NEW c \in Chips, NEW a \in isr'[c], NEW b \in isr'[c]
        PROVE  a = b /\ <<c, a>> \in stack'[1].owns
    <3>1. a \in isr[c] /\ b \in isr[c]
      BY <1>7, <2>1
    <3>2. a = b /\ <<c, a>> \in stack[1].owns
      BY <1>2, <3>1 DEF IntInv, FrameInv
    <3> QED
      BY <1>2, <3>2
  <2>2. \A c \in Chips : isr'[c] # {} =>
          \E k \in DOMAIN stack'[1].todo : stack'[1].todo[k] = Eoi(c)
    BY <1>2, <1>3, <1>8, <1>9 DEF IntInv, FrameInv
  <2> QED
    BY <1>1, <1>2, <2>1, <2>2 DEF IntInv, FrameInv
<1>14. ASSUME ~ LeftOpen(Top)
       PROVE  \A c \in Chips : \A b \in isr[c] \ isr'[c] : <<c, b>> \in Top.owns
  <2>1. pc > 10
    <3>1. pc \in 1 .. 41
      BY DEF IntInv, TypeInv
    <3>2. ~ Strays(Top.owns, pc)
      BY <1>14, StraysOpen
    <3> QED
      BY <1>2, <3>1, <3>2 DEF IntInv, EarlyInv
  <2> QED
    BY <1>2, <2>1 DEF IntInv, FrameInv
<1> QED
  BY <1>10, <1>11, <1>12, <1>13, <1>14 DEF IntInv

LEMMA Returned ==
  ASSUME IntInv, iret
  PROVE  IntInv'
<1>1. /\ stack # <<>> /\ Top.todo = <<>> /\ iflag' = Top.iflag
      /\ stack' = SubSeq(stack, 1, Len(stack) - 1)
      /\ UNCHANGED <<pc, idt_loaded, ports, value, interrupt_handlers, pic>>
  BY DEF iret
<1>2. Len(stack) = 1 /\ stack \in Seq(Frame)
  BY <1>1, OneFrame DEF IntInv, TypeInv
<1>3. stack' = <<>> /\ Top = stack[1] /\ Top \in Frame
  BY <1>1, <1>2 DEF Top
<1>4. iflag' \in BOOLEAN /\ <<>> \in Seq(Frame)
  BY <1>1, <1>3 DEF Frame
<1>5. TypeInv'
  BY <1>1, <1>3, <1>4 DEF IntInv, TypeInv, pic
<1>6. SetupInv'
  BY <1>1, <1>3 DEF IntInv, SetupInv, pic
<1>7. EarlyInv'
  BY <1>1, <1>3 DEF IntInv, EarlyInv, pic
<1>8. FrameInv'
  <2>1. DOMAIN Top.todo = {}
    BY <1>1
  <2>2. pc > 10 => \A c \in Chips : isr[c] = {}
    BY <1>1, <1>3, <2>1 DEF IntInv, FrameInv
  <2> QED
    BY <1>1, <1>3, <2>2 DEF FrameInv, pic
<1> QED
  BY <1>5, <1>6, <1>7, <1>8 DEF IntInv

-----------------------------------------------------------------------------
(* The theorems.                                                            *)

LEMMA InitInv ==
  ASSUME Init
  PROVE  IntInv
<1>1. /\ pc = 1 /\ iflag = FALSE /\ idt_loaded = FALSE /\ ports = FALSE /\ stack = <<>>
      /\ value = [c \in Chips |-> {}] /\ interrupt_handlers = [v \in Vectors |-> "NULL"]
      /\ base = BootBase /\ icw = [c \in Chips |-> 0] /\ imr = BootMask
      /\ irr = [c \in Chips |-> {}] /\ isr = [c \in Chips |-> {}] /\ spurious = {}
  BY DEF Init
<1>2. TypeInv
  <2>1. pc \in 1 .. 41 /\ iflag \in BOOLEAN /\ stack \in Seq(Frame) /\ spurious \in SUBSET Chips
    <3>1. pc \in 1 .. 41 /\ spurious \in SUBSET Chips
      BY <1>1
    <3>2. iflag \in BOOLEAN
      BY <1>1, Zenon
    <3>3. <<>> \in Seq(Frame)
      OBVIOUS
    <3> QED
      BY <1>1, <3>1, <3>2, <3>3, Zenon
  <2>2. /\ value \in [Chips -> SUBSET Bits] /\ irr \in [Chips -> SUBSET Bits]
        /\ isr \in [Chips -> SUBSET Bits] /\ icw \in [Chips -> {0, 2, 3, 4}]
    BY <1>1
  <2>3. interrupt_handlers \in [Vectors -> Names]
    BY <1>1 DEF Names
  <2>4. base \in [Chips -> SUBSET Bits] /\ imr \in [Chips -> SUBSET Bits]
    BY <1>1, FirmwareAssumption DEF Byte
  <2> QED
    BY <2>1, <2>2, <2>3, <2>4 DEF TypeInv
<1>4. SetupInv
  BY <1>1 DEF SetupInv, Expected, LIVE, Chips
<1>5. FrameInv /\ EarlyInv
  BY <1>1 DEF FrameInv, EarlyInv, Chips
<1> QED
  BY <1>2, <1>4, <1>5 DEF IntInv

LEMMA NextInv ==
  ASSUME IntInv, [Next]_vars
  PROVE  IntInv'
<1>1. CASE UNCHANGED vars
  <2>1. UNCHANGED <<pc, iflag, idt_loaded, ports, value, interrupt_handlers, stack>>
        /\ UNCHANGED <<base, icw, imr, irr, isr, spurious>>
    BY <1>1 DEF vars, kernel, pic
  <2>2. TypeInv'
    BY <2>1 DEF IntInv, TypeInv
  <2>3. SetupInv'
    BY <2>1 DEF IntInv, SetupInv
  <2>4. FrameInv' /\ EarlyInv'
    BY <2>1 DEF IntInv, FrameInv, EarlyInv
  <2> QED
    BY <2>2, <2>3, <2>4 DEF IntInv
<1>2. write_port => At("cmd") \/ At("data") \/ At("write_mask")
  BY DEF write_port
<1>3. Cpu => IntInv'
  BY <1>2, SetIflag, InitPorts, LoadIdt, CommandWritten, DataWritten, MaskRead,
     HandlerRegistered, Trapped, HandlerCalled, EndSent, Returned DEF Cpu
<1> QED
  BY <1>1, <1>3, InterruptTaken, Raised, Withdrawn DEF Next

LEMMA AlwaysIntInv == Spec => []IntInv
BY InitInv, NextInv, PTL DEF Spec

(* ArrivesAtItsGate holds of any lines and any masks and vector bases of    *)
(* the firmware.  What it left open can go astray until pic_init; from then *)
(* on the chips are masked or wait for ICWs until the bases of pic_remap    *)
(* are in place, and these agree with irq_id_to_vector.                     *)
THEOREM GateSafe == Spec => []ArrivesAtItsGate
<1>1. IntInv => ArrivesAtItsGate
  <2> SUFFICES ASSUME IntInv, NEW i \in DOMAIN stack, stack[i].line >= 0
               PROVE  \/ LeftOpen(stack[i])
                      \/ idt_loaded /\ stack[i].vector = irq_id_to_vector(IrqOf(stack[i].line))
    BY DEF ArrivesAtItsGate
  <2>1. stack # <<>> /\ stack \in Seq(Frame) /\ pc \in 1 .. 41
    BY DEF IntInv, TypeInv
  <2>2. i = 1 /\ (pc <= 9 \/ pc >= LIVE)
    BY <2>1, OneFrame
  <2>3. CASE pc <= 9
    <3>1. Strays(stack[1].owns, pc)
      BY <2>1, <2>3 DEF IntInv, EarlyInv
    <3> QED
      BY <2>2, <3>1, StraysOpen
  <2>4. CASE pc >= LIVE
    <3>1. idt_loaded /\ pc > 10
      BY <2>1, <2>4 DEF IntInv, SetupInv, LIVE
    <3> QED
      BY <2>1, <2>2, <3>1 DEF IntInv, FrameInv
  <2> QED
    BY <2>2, <2>3, <2>4
<1> QED
  BY <1>1, AlwaysIntInv, PTL

(* NothingLeftInService: every interrupt that is in service still has its   *)
(* end-of-interrupt ahead on the list of the one handler that is running;   *)
(* what came under the firmware's vectors and got none is cleared when      *)
(* pic_remap resets the chips.                                              *)
THEOREM ServiceSafe == Spec => []NothingLeftInService
<1>1. IntInv => NothingLeftInService
  <2> SUFFICES ASSUME IntInv, NEW c \in Chips, NEW b \in isr[c]
               PROVE  \/ \E i \in DOMAIN stack : <<c, b>> \in stack[i].owns
                      \/ pc <= ResetAt(c) /\ b \notin BootMask[c]
    BY DEF NothingLeftInService
  <2>1. pc \in 1 .. 41 /\ stack \in Seq(Frame)
    BY DEF IntInv, TypeInv
  <2>2. CASE pc <= 10
    BY <2>2, ResetSteps DEF IntInv, EarlyInv, Chips
  <2>3. CASE pc > 10
    <3>1. stack # <<>> /\ Len(stack) = 1
      BY <2>3 DEF IntInv, FrameInv
    <3>2. 1 \in DOMAIN stack
      BY <2>1, <3>1
    <3> QED
      BY <2>3, <3>1, <3>2 DEF IntInv, FrameInv
  <2> QED
    BY <2>1, <2>2, <2>3
<1> QED
  BY <1>1, AlwaysIntInv, PTL

(* EndsOnlyItsOwn: interrupts do not nest, so what an end-of-interrupt      *)
(* finds in service belongs to its sender; the RTC's second one finds       *)
(* nothing.                                                                 *)
THEOREM EndsOwn == Spec => EndsOnlyItsOwn
<1>1. IntInv =>
        (send_eoi /\ ~ LeftOpen(Top) =>
           \A c \in Chips : \A b \in isr[c] \ isr'[c] : <<c, b>> \in Top.owns)
  BY EndSent
<1> QED
  BY <1>1, AlwaysIntInv, PTL DEF EndsOnlyItsOwn
=============================================================================
