--------------------------- MODULE InterruptStub ----------------------------
(***************************************************************************)
(* The way of an interrupt through the descriptor tables and the assembly  *)
(* stubs that generate_interrupt_handlers.py writes for the 256 vectors:   *)
(* what is on the stack between the CPU's entry into a gate and iret, and  *)
(* what the interrupted code finds when it goes on.                        *)
(*                                                                         *)
(* One step is one instruction; pushal and popal move the general purpose  *)
(* registers as one word.  A C function leaves the stack as it found it    *)
(* (its frame is dropped by leave, whatever it does to esp) and may change *)
(* the general purpose registers.  A stub is written for any interrupted   *)
(* code, so a register may hold any word of Words when the interrupt comes.*)
(***************************************************************************)
EXTENDS Descriptors

CONSTANT Words   \* what a register may hold

KERNEL_DATA == 16     \* 0x10, loaded into the data segments
ERROR_CODE  == 0      \* pushed by the CPU for some exceptions

ASSUME StubAssumption == Words \subseteq Nat /\ KERNEL_DATA \in Words

Segments  == {"ds", "es", "fs", "gs"}
Registers == Segments \cup {"gp", "eip", "cs", "eflags"}

VARIABLES
  regs,    \* the registers of the CPU from the point of view of a stub
  before,  \* history: what they were when the interrupt came
  stack,   \* what was pushed since, the top last
  vector,  \* the interrupt being handled, -1 for none
  stub,    \* the vector whose stub is running, -1 for none
  step     \* its next instruction

stubVars == <<regs, before, stack, vector, stub, step>>
vars == <<tableVars, stubVars>>

-----------------------------------------------------------------------------
(* The exceptions for which the CPU pushes an error code.                   *)
PushesErrorCode == {8, 10, 11, 12, 13, 14, 17}

(* The exceptions whose handlers of idt.c halt the machine.                 *)
Halting == {0, 13, 14}

Push(r)   == [do |-> "push", reg |-> r]
Pop(r)    == [do |-> "pop", reg |-> r]
Load(r)   == [do |-> "load", reg |-> r]
Plain(op) == [do |-> op, reg |-> "none"]

Save    == <<Push("gp"), Push("ds"), Push("es"), Push("fs"), Push("gs")>>
Kernel  == <<Load("ds"), Load("es"), Load("fs"), Load("gs")>>

(* Mutant: two registers are restored in the wrong order.                   *)
Restore_Swapped == <<Pop("gs"), Pop("fs"), Pop("ds"), Pop("es"), Pop("gp")>>

Restore == <<Pop("gs"), Pop("fs"), Pop("es"), Pop("ds"), Pop("gp")>>

(* Mutant: calls the handler on the interrupted code's segments.            *)
generate_asm_handler_NoSegments(num) ==
  Save \o <<Plain("argument"), Plain("call"), Plain("drop")>> \o Restore \o <<Plain("iret")>>

(* Also the stub of the exceptions with an error code, but for the name of  *)
(* the function it calls.                                                   *)
generate_asm_handler(num) ==
  Save \o Kernel \o <<Plain("argument"), Plain("call"), Plain("drop")>>
  \o Restore \o <<Plain("iret")>>

generate_halting_handler(num) ==
  Save \o Kernel \o <<Plain("halt")>> \o Restore \o <<Plain("iret")>>

generate_error_code_handler(num) ==
  IF num \in Halting THEN generate_halting_handler(num) ELSE generate_asm_handler(num)

Now == generate_error_code_handler(stub)[step]
At(what) == stub # -1 /\ Now.do = what

Top   == stack[Len(stack)]
Below == SubSeq(stack, 1, Len(stack) - 1)

Init ==
  /\ TableInit
  /\ regs \in [Registers -> Words] /\ before = regs
  /\ stack = <<>> /\ vector = -1 /\ stub = -1 /\ step = 0

-----------------------------------------------------------------------------
(* The CPU goes through gate v, to the stub at the address it finds there.  *)
interrupt(v) ==
  /\ TablesReady /\ vector = -1 /\ vector' = v
  /\ stub' \in {u \in Vectors : StubAddress[u] = GateOffset(idt[v])}
  /\ step' = 1
  /\ before' = regs
  /\ stack' = <<regs["eflags"], regs["cs"], regs["eip"]>>
              \o (IF v \in PushesErrorCode THEN <<ERROR_CODE>> ELSE <<>>)
  /\ regs' = [regs EXCEPT !["cs"] = idt[v].selector]

push ==
  /\ At("push") /\ stack' = Append(stack, regs[Now.reg]) /\ step' = step + 1
  /\ UNCHANGED <<regs, before, vector, stub>>

pop ==
  /\ At("pop") /\ step' = step + 1
  /\ regs' = [regs EXCEPT ![Now.reg] = Top] /\ stack' = Below
  /\ UNCHANGED <<before, vector, stub>>

(* movl $0x10, %eax and the move to a segment register.                     *)
load ==
  /\ At("load") /\ step' = step + 1
  /\ regs' = [regs EXCEPT ![Now.reg] = KERNEL_DATA, !["gp"] = KERNEL_DATA]
  /\ UNCHANGED <<before, stack, vector, stub>>

argument ==
  /\ At("argument") /\ stack' = Append(stack, stub) /\ step' = step + 1
  /\ UNCHANGED <<regs, before, vector, stub>>

(* generic_interrupt_handler_no_error_code or ..._error_code.               *)
call ==
  /\ At("call") /\ step' = step + 1
  /\ \E x \in Words : regs' = [regs EXCEPT !["gp"] = x]
  /\ UNCHANGED <<before, stack, vector, stub>>

drop ==
  /\ At("drop") /\ stack' = Below /\ step' = step + 1
  /\ UNCHANGED <<regs, before, vector, stub>>

iret ==
  /\ At("iret") /\ vector' = -1 /\ stub' = -1 /\ step' = 0
  /\ LET n == Len(stack)
     IN  /\ regs' = [regs EXCEPT !["eip"] = stack[n], !["cs"] = stack[n - 1],
                                 !["eflags"] = stack[n - 2]]
         /\ stack' = SubSeq(stack, 1, n - 3)
  /\ UNCHANGED before

Stub ==
  \/ \E v \in Vectors : interrupt(v)
  \/ push \/ pop \/ load \/ argument \/ call \/ drop \/ iret

Next ==
  \/ TableNext /\ UNCHANGED stubVars
  \/ Stub /\ UNCHANGED tableVars

Spec == Init /\ [][Next]_vars

-----------------------------------------------------------------------------
(* The C handler is called on the kernel's data segments, with the vector   *)
(* of the interrupt as its argument.                                        *)
HandlerContext ==
  At("call") => (\A r \in Segments : regs[r] = KERNEL_DATA) /\ Top = vector

(* The interrupted code goes on where it was, with all its registers and    *)
(* nothing left on the stack.                                               *)
ReturnsIntact == vector = -1 => regs = before /\ stack = <<>>
=============================================================================
