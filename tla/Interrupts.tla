----------------------------- MODULE Interrupts -----------------------------
(***************************************************************************)
(* Interrupts from the device line to the end-of-interrupt (idt.c): the    *)
(* registry and the dispatcher, the programming of the two 8259s, and the  *)
(* order in which kernel_main brings them into use.                        *)
(*                                                                         *)
(* The 8259 pair and the CPU's interrupt entry are external, modelled from *)
(* the bytes idt.c writes.  A byte is the set of its bits that are 1.  The *)
(* main thread and the handlers are cut at every port access, so a device  *)
(* can raise its line between any two of them.                             *)
(***************************************************************************)
EXTENDS Integers, Sequences

CONSTANTS
  Lines,     \* IRQ lines that devices raise
  BootMask,  \* the masks the firmware leaves behind, per chip
  BootBase   \* the vector bases it leaves behind, per chip

Chips == {"master", "slave"}
Bits  == 0 .. 7
Byte  == SUBSET Bits

ASSUME LinesAssumption == Lines \subseteq (0 .. 15) \ {2}
ASSUME FirmwareAssumption == BootMask \in [Chips -> Byte] /\ BootBase \in [Chips -> Byte]

Vectors == 0 .. 255

VARIABLES
  pc,                 \* position of the main thread in kernel_main
  iflag,              \* EFLAGS.IF
  idt_loaded,         \* lidt has been executed
  ports,              \* the four PIC port handles have been acquired
  value,              \* locals: the mask last read from each chip
  interrupt_handlers, \* the registry
  stack,              \* interrupts being handled, the innermost last
  base, icw,          \* 8259: vector base; next ICW expected, 0 if none
  imr, irr, isr,      \* 8259: masked, requested, in service
  spurious            \* 8259: chips whose request went away unacknowledged

kernel == <<pc, iflag, idt_loaded, ports, value, interrupt_handlers, stack>>
pic    == <<base, icw, imr, irr, isr, spurious>>
vars   == <<kernel, pic>>

-----------------------------------------------------------------------------
(* Vectors.                                                                 *)

irq_id_to_vector(irq_id) ==
  CASE irq_id.type = "IRQ_INTERNAL" -> irq_id.index
    [] irq_id.type = "IRQ_PIC1"     -> 64 + irq_id.index
    [] irq_id.type = "IRQ_PIC2"     -> 72 + irq_id.index

IrqOf(line) ==
  IF line < 8 THEN [type |-> "IRQ_PIC1", index |-> line]
              ELSE [type |-> "IRQ_PIC2", index |-> line - 8]

RtcIrq    == [type |-> "IRQ_PIC2", index |-> 0]
SerialIrq == [type |-> "IRQ_PIC1", index |-> 4]

(* The vector an 8259 puts on the bus: five bits of its base and the line.  *)
Weight(byte, b) == IF b \in byte THEN 2 ^ b ELSE 0
PicVector(c, bit) ==
  Weight(base[c], 7) + Weight(base[c], 6) + Weight(base[c], 5) + Weight(base[c], 4)
  + Weight(base[c], 3) + bit

-----------------------------------------------------------------------------
(* The steps of kernel_main that concern interrupts, and of idt.c.          *)

Do(what)      == [do |-> what]
Cmd(c, byte)  == [do |-> "cmd", chip |-> c, byte |-> byte]
Data(c, byte) == [do |-> "data", chip |-> c, byte |-> byte]
ReadMask(c)   == [do |-> "read_mask", chip |-> c]
WriteMask(c, clear) == [do |-> "write_mask", chip |-> c, clear |-> clear]
Trap(v)       == [do |-> "int", vector |-> v]
Register(v, h) == [do |-> "register", vector |-> v, handler |-> h]
Unregister(v) == [do |-> "register", vector |-> v, handler |-> "NULL"]

(* A log call above the level: interrupt_guard_acquire, ..._release.        *)
log_call == <<Do("cli"), Do("sti")>>

idt_init == <<Do("pic_init_ports"), Do("lidt")>>

(* Mutant: the master's lines stay as the firmware left them.               *)
pic_init_SlaveOnly == <<Data("slave", Bits)>>

pic_init == <<Data("master", Bits), Data("slave", Bits)>>

(* ICW1 0x11, ICW2 0x40 and 0x48, ICW3, ICW4 0x01, and the old masks.       *)
pic_remap ==
  <<ReadMask("master"), ReadMask("slave"),
    Cmd("master", {0, 4}), Cmd("slave", {0, 4}),
    Data("master", {6}), Data("slave", {3, 6}),
    Data("master", {2}), Data("slave", {1}),
    Data("master", {0}), Data("slave", {0}),
    WriteMask("master", {}), WriteMask("slave", {})>>

(* Mutant: the slave's line on the master stays masked.                     *)
pic_unmask_irq_NoCascade(irq) ==
  IF irq < 8
  THEN <<ReadMask("master"), WriteMask("master", {irq})>>
  ELSE <<ReadMask("slave"), WriteMask("slave", {irq - 8})>>

pic_unmask_irq(irq) ==
  IF irq < 8
  THEN <<ReadMask("master"), WriteMask("master", {irq})>>
  ELSE <<ReadMask("master"), WriteMask("master", {2}),
         ReadMask("slave"), WriteMask("slave", {irq - 8})>>

(* enable_rtc_interrupts and disable_rtc_interrupts, as far as they reach   *)
(* the registry and the masks.                                              *)
enable_rtc_interrupts ==
  <<Register(irq_id_to_vector(RtcIrq), "rtc_interrupt_handler")>> \o pic_unmask_irq(8)
disable_rtc_interrupts == <<Unregister(irq_id_to_vector(RtcIrq))>>

(* The custom handler is registered, triggered twice, and unregistered.     *)
custom_interrupt == <<Register(129, "custom_interrupt_handler"),
                      Trap(129), Trap(129), Unregister(129)>>

serial_interrupt ==
  <<Register(irq_id_to_vector(SerialIrq), "async_serial_interrupt_handler")>>
  \o pic_unmask_irq(4)

kernel_main ==
  log_call \o idt_init \o pic_init \o pic_remap \o <<Trap(128)>> \o log_call
  \o enable_rtc_interrupts \o disable_rtc_interrupts   \* the RTC test
  \o enable_rtc_interrupts                             \* the system clock
  \o custom_interrupt \o serial_interrupt \o <<Do("sti")>>

Booted == pc > Len(kernel_main)
Now == kernel_main[pc]
At(what) == stack = <<>> /\ ~ Booted /\ Now.do = what /\ pc' = pc + 1

Init ==
  /\ pc = 1 /\ iflag = FALSE /\ idt_loaded = FALSE /\ ports = FALSE
  /\ value = [c \in Chips |-> {}]
  /\ interrupt_handlers = [v \in Vectors |-> "NULL"]
  /\ stack = <<>>
  /\ base = BootBase /\ icw = [c \in Chips |-> 0]
  /\ imr = BootMask
  /\ irr = [c \in Chips |-> {}] /\ isr = [c \in Chips |-> {}] /\ spurious = {}

-----------------------------------------------------------------------------
(* The 8259.                                                                *)

(* The line of the highest priority.                                        *)
First(lines) == CHOOSE b \in lines : \A s \in lines : b <= s

(* A command: ICW1 (bit 4) starts the initialisation and forgets masks and  *)
(* requests; otherwise a non-specific end-of-interrupt, which ends the      *)
(* interrupt of the highest priority in service.                            *)
WriteCommand(c, byte) ==
  IF 4 \in byte
  THEN /\ icw' = [icw EXCEPT ![c] = 2] /\ imr' = [imr EXCEPT ![c] = {}]
       /\ irr' = [irr EXCEPT ![c] = {}] /\ isr' = [isr EXCEPT ![c] = {}]
       /\ spurious' = spurious \ {c}
       /\ UNCHANGED base
  ELSE /\ isr' = [isr EXCEPT ![c] = IF @ = {} THEN {} ELSE @ \ {First(@)}]
       /\ UNCHANGED <<base, icw, imr, irr, spurious>>

(* Data: ICW2 to ICW4 while they are expected, the mask afterwards.         *)
WriteData(c, byte) ==
  /\ base' = IF icw[c] = 2 THEN [base EXCEPT ![c] = byte] ELSE base
  /\ icw' = [icw EXCEPT ![c] = CASE @ = 0 -> 0 [] @ = 4 -> 0 [] OTHER -> @ + 1]
  /\ imr' = IF icw[c] = 0 THEN [imr EXCEPT ![c] = byte] ELSE imr
  /\ UNCHANGED <<irr, isr, spurious>>

(* Requests of a chip that are not masked and beat what is in service.      *)
Wants(c, raised) ==
  {b \in raised \ imr[c] : icw[c] = 0 /\ \A s \in isr[c] : b < s}
SlaveWants  == Wants("slave", irr["slave"])
Cascade     == IF SlaveWants # {} \/ "slave" \in spurious THEN {2} ELSE {}
MasterWants == Wants("master", irr["master"] \cup Cascade)

ChipOf(line) == IF line < 8 THEN "master" ELSE "slave"

device_raises(line) ==
  /\ line % 8 \notin irr[ChipOf(line)]
  /\ irr' = [irr EXCEPT ![ChipOf(line)] = @ \cup {line % 8}]
  /\ UNCHANGED <<kernel, base, icw, imr, isr, spurious>>

(* The line falls before the CPU has acknowledged it.  A chip that had      *)
(* already asked for an interrupt will answer with its lowest line.         *)
device_withdraws(line) ==
  LET c == ChipOf(line)
  IN  /\ line % 8 \in irr[c]
      /\ irr' = [irr EXCEPT ![c] = @ \ {line % 8}]
      /\ spurious' \in {spurious} \cup
           (IF line % 8 \in Wants(c, irr[c]) THEN {spurious \cup {c}} ELSE {})
      /\ UNCHANGED <<kernel, base, icw, imr, isr>>

-----------------------------------------------------------------------------
(* Handling.                                                                *)

Call(h) == [do |-> "call", handler |-> h]
Eoi(c)  == [do |-> "eoi", chip |-> c]
Halt    == [do |-> "halt"]     \* cli; hlt: nothing comes after it

(* Mutant: the master is not told about the slave's interrupts.             *)
pic_send_eoi_SlaveOnly(int_num) ==
  IF int_num \in 72 .. 79 THEN <<Eoi("slave")>>
  ELSE IF int_num \in 64 .. 71 THEN <<Eoi("master")>> ELSE <<>>

pic_send_eoi(int_num) ==
  IF int_num \in 72 .. 79 THEN <<Eoi("slave"), Eoi("master")>>
  ELSE IF int_num \in 64 .. 71 THEN <<Eoi("master")>> ELSE <<>>

(* The RTC's handler ends the interrupt itself, and so does the dispatcher. *)
rtc_interrupt_handler == <<Call("rtc_interrupt_handler")>> \o pic_send_eoi(72)

Body(h) ==
  CASE h = "NULL"                  -> <<>>
    [] h = "rtc_interrupt_handler" -> rtc_interrupt_handler
    [] OTHER                       -> <<Call(h)>>

(* The vectors of handle_divide_by_zero, handle_general_protection_fault    *)
(* and handle_page_fault, on which interrupts can arrive before pic_remap.  *)
Halting == {0, 13, 14}

generic_interrupt_handler(vector) ==
  IF vector \in Halting THEN <<Halt>>
  ELSE Body(interrupt_handlers[vector]) \o pic_send_eoi(vector)

(* Mutant: a trap gate leaves interrupts on.                                *)
GateFlag_Trap(flag) == flag

(* IDT_INTERRUPT: the gate turns interrupts off until iret.                 *)
GateFlag(flag) == FALSE

(* line: the IRQ line as the CPU is told it, -1 for an int instruction;     *)
(* owns: what is in service on its behalf.                                  *)
Enter(vector, line, owns) ==
  /\ stack' = Append(stack, [vector |-> vector, line |-> line, owns |-> owns,
                             iflag |-> iflag, todo |-> generic_interrupt_handler(vector)])
  /\ iflag' = GateFlag(iflag)

(* The CPU acknowledges: the highest-priority request goes into service.  A *)
(* chip whose request is gone answers with line 7 and nothing in service.   *)
(* Before lidt there is no gate to go through, and the machine is lost: no  *)
(* step of the CPU follows.                                                 *)
hardware_interrupt ==
  /\ iflag /\ (stack = <<>> \/ idt_loaded)
  /\ \/ /\ MasterWants # {} /\ First(MasterWants) # 2
        /\ LET m == First(MasterWants)
           IN  /\ Enter(PicVector("master", m), m, {<<"master", m>>})
               /\ irr' = [irr EXCEPT !["master"] = @ \ {m}]
               /\ isr' = [isr EXCEPT !["master"] = @ \cup {m}]
        /\ UNCHANGED spurious
     \/ /\ MasterWants # {} /\ First(MasterWants) = 2 /\ SlaveWants # {}
        /\ LET s == First(SlaveWants)
           IN  /\ Enter(PicVector("slave", s), s + 8, {<<"master", 2>>, <<"slave", s>>})
               /\ irr' = [irr EXCEPT !["slave"] = @ \ {s}]
               /\ isr' = [master |-> isr["master"] \cup {2}, slave |-> isr["slave"] \cup {s}]
        /\ spurious' = spurious \ {"slave"}
     \/ /\ MasterWants # {} /\ First(MasterWants) = 2 /\ SlaveWants = {}
        /\ Enter(PicVector("slave", 7), 15, {<<"master", 2>>})
        /\ isr' = [isr EXCEPT !["master"] = @ \cup {2}]
        /\ spurious' = spurious \ {"slave"} /\ UNCHANGED irr
     \/ /\ MasterWants = {} /\ "master" \in spurious
        /\ Enter(PicVector("master", 7), 7, {})
        /\ spurious' = spurious \ {"master"} /\ UNCHANGED <<irr, isr>>
  /\ UNCHANGED <<pc, idt_loaded, ports, value, interrupt_handlers, base, icw, imr>>

Top == stack[Len(stack)]
Done == [stack EXCEPT ![Len(stack)].todo = Tail(@)]
Handling(what) == stack # <<>> /\ idt_loaded /\ Top.todo # <<>> /\ Head(Top.todo).do = what

call_handler ==
  /\ Handling("call") /\ stack' = Done
  /\ UNCHANGED <<pc, iflag, idt_loaded, ports, value, interrupt_handlers, pic>>

send_eoi ==
  /\ Handling("eoi") /\ stack' = Done
  /\ IF ports THEN WriteCommand(Head(Top.todo).chip, {5}) ELSE UNCHANGED pic
  /\ UNCHANGED <<pc, iflag, idt_loaded, ports, value, interrupt_handlers>>

iret ==
  /\ stack # <<>> /\ idt_loaded /\ Top.todo = <<>>
  /\ iflag' = Top.iflag
  /\ stack' = SubSeq(stack, 1, Len(stack) - 1)
  /\ UNCHANGED <<pc, idt_loaded, ports, value, interrupt_handlers, pic>>

-----------------------------------------------------------------------------
(* The main thread.                                                         *)

set_iflag ==
  /\ \/ At("cli") /\ iflag' = FALSE
     \/ At("sti") /\ iflag' = TRUE
  /\ UNCHANGED <<idt_loaded, ports, value, interrupt_handlers, stack, pic>>

(* request_port succeeds: of 64 slots the serial port holds one.            *)
pic_init_ports ==
  /\ At("pic_init_ports") /\ ports' = TRUE
  /\ UNCHANGED <<iflag, idt_loaded, value, interrupt_handlers, stack, pic>>

load_idt ==
  /\ At("lidt") /\ idt_loaded' = TRUE
  /\ UNCHANGED <<iflag, ports, value, interrupt_handlers, stack, pic>>

(* Accesses to the PIC's ports; without the handles none is made.           *)
write_port ==
  /\ \/ /\ At("cmd")
        /\ IF ports THEN WriteCommand(Now.chip, Now.byte) ELSE UNCHANGED pic
     \/ /\ At("data")
        /\ IF ports THEN WriteData(Now.chip, Now.byte) ELSE UNCHANGED pic
     \/ /\ At("write_mask")
        /\ IF ports THEN WriteData(Now.chip, value[Now.chip] \ Now.clear) ELSE UNCHANGED pic
  /\ UNCHANGED <<iflag, idt_loaded, ports, value, interrupt_handlers, stack>>

read_mask ==
  /\ At("read_mask")
  /\ value' = IF ports THEN [value EXCEPT ![Now.chip] = imr[Now.chip]] ELSE value
  /\ UNCHANGED <<iflag, idt_loaded, ports, interrupt_handlers, stack, pic>>

register_interrupt_handler ==
  /\ At("register")
  /\ interrupt_handlers' = [interrupt_handlers EXCEPT ![Now.vector] = Now.handler]
  /\ UNCHANGED <<iflag, idt_loaded, ports, value, stack, pic>>

software_interrupt ==
  /\ At("int") /\ Enter(Now.vector, -1, {})
  /\ UNCHANGED <<idt_loaded, ports, value, interrupt_handlers, pic>>

Cpu ==
  \/ set_iflag \/ pic_init_ports \/ load_idt \/ write_port \/ read_mask
  \/ register_interrupt_handler \/ software_interrupt
  \/ call_handler \/ send_eoi \/ iret

Next ==
  \/ Cpu \/ hardware_interrupt
  \/ \E line \in Lines : device_raises(line) \/ device_withdraws(line)

Spec == Init /\ [][Next]_vars

(* The CPU executes, and takes an interrupt that stays asserted.            *)
FairSpec == Spec /\ WF_vars(Cpu) /\ WF_vars(hardware_interrupt)

-----------------------------------------------------------------------------
(* The first log call of kernel_main enables interrupts, before idt_init    *)
(* and pic_init.  The steps of pic_init and pic_remap that mask and reset   *)
(* the chips:                                                               *)
MaskAt == Len(log_call \o idt_init) + 1
ResetAt(c) == IF c = "master" THEN MaskAt + 4 ELSE MaskAt + 5

(* The interrupt is one that the firmware left unmasked and pic_init has    *)
(* not yet masked, or the spurious form of one, which the master forgets    *)
(* only when it is reset.                                                   *)
LeftOpen(f) ==
  IF f.owns # {}
  THEN pc <= MaskAt /\ \A o \in f.owns : o[2] \notin BootMask[o[1]]
  ELSE pc <= ResetAt("master") /\ \E line \in Lines : line < 8 /\ line \notin BootMask["master"]

(* Whatever the firmware left unmasked: an interrupt of a line reaches a    *)
(* loaded IDT at the vector under which irq_id_to_vector registers handlers *)
(* of that line, spurious ones included and also while pic_remap has the    *)
(* masks cleared.  The only ones that go astray are those of lines that the *)
(* firmware left open, in the window between the first sti and pic_init.    *)
ArrivesAtItsGate ==
  \A i \in DOMAIN stack :
    stack[i].line >= 0 =>
      \/ LeftOpen(stack[i])
      \/ idt_loaded /\ stack[i].vector = irq_id_to_vector(IrqOf(stack[i].line))

(* An end-of-interrupt ends the interrupt whose handler sends it, never     *)
(* another one, although the RTC's is sent twice (kernel.c and idt.c) and a *)
(* spurious one has nothing to end.                                         *)
EndsOnlyItsOwn ==
  [][send_eoi /\ ~ LeftOpen(Top) =>
       \A c \in Chips : \A b \in isr[c] \ isr'[c] : <<c, b>> \in Top.owns]_vars

(* Whatever is in service belongs to an interrupt being handled: back in    *)
(* the main thread no line is left blocked.  A line that the firmware left  *)
(* open and that came before pic_remap gets no end-of-interrupt under its   *)
(* old vector; the reset of its chip clears it.                             *)
NothingLeftInService ==
  \A c \in Chips : \A b \in isr[c] :
    \/ \E i \in DOMAIN stack : <<c, b>> \in stack[i].owns
    \/ pc <= ResetAt(c) /\ b \notin BootMask[c]

(* Once the kernel is up, a request of the RTC is taken, or withdrawn by    *)
(* the RTC: it is not masked on either chip and nothing stays in its way.   *)
RtcServed == (Booted /\ 0 \in irr["slave"]) ~> (0 \notin irr["slave"])
=============================================================================
