------------------------ MODULE InterruptStubProofs -------------------------
(***************************************************************************)
(* The descriptor tables and the stubs, for every set of vectors, every    *)
(* 32-bit link address of the stubs and whatever the registers hold.       *)
(***************************************************************************)
EXTENDS InterruptStub, TLAPS

-----------------------------------------------------------------------------
(* The tables.                                                              *)

CodeDescriptor == create_descriptor(0, 1048575, create_access_byte(TRUE, TRUE, 0), 207)
DataDescriptor == create_descriptor(0, 1048575, create_access_byte(FALSE, TRUE, 0), 207)
Gate(v) == create_idt_descriptor(StubAddress[v], CODE, 142)

(* The bytes of the two segment descriptors.                                *)
LEMMA DescriptorBytes ==
  /\ CodeDescriptor = [base_low |-> 0, base_mid |-> 0, base_high |-> 0, limit_low |-> 65535,
                       limit_high_flags |-> 207, access_byte |-> 154]
  /\ DataDescriptor = [base_low |-> 0, base_mid |-> 0, base_high |-> 0, limit_low |-> 65535,
                       limit_high_flags |-> 207, access_byte |-> 146]
<1>1. Bits(0, 0, 16) = 0 /\ Bits(0, 16, 8) = 0 /\ Bits(0, 24, 8) = 0 /\ Bits(0, 0, 2) = 0
  BY SMT DEF Bits
<1>2. Bits(1048575, 0, 16) = 65535 /\ Bits(1048575, 16, 4) = 15 /\ Bits(207, 4, 4) = 12
  BY SMT DEF Bits
<1>3. create_access_byte(TRUE, TRUE, 0) = 154 /\ create_access_byte(FALSE, TRUE, 0) = 146
  BY <1>1, SMT DEF create_access_byte
<1>4. 15 + 16 * 12 = 207
  OBVIOUS
<1> DEFINE flat(b) == create_descriptor(0, 1048575, b, 207)
           bytes(b) == [base_low |-> 0, base_mid |-> 0, base_high |-> 0, limit_low |-> 65535,
                        limit_high_flags |-> 207, access_byte |-> b]
<1>5. \A b : flat(b) = bytes(b)
  BY <1>1, <1>2, <1>4, SMT DEF create_descriptor
<1>6. CodeDescriptor = flat(create_access_byte(TRUE, TRUE, 0))
      /\ DataDescriptor = flat(create_access_byte(FALSE, TRUE, 0))
  BY SMT DEF CodeDescriptor, DataDescriptor
<1> HIDE DEF flat
<1>7. CodeDescriptor = flat(154) /\ DataDescriptor = flat(146)
  BY <1>3, <1>6, Zenon
<1> QED
  BY <1>5, <1>7, SMT

(* A selector of a loaded descriptor is what the CPU expects.               *)
LEMMA FlatSegments ==
  /\ limit = table_limit /\ gdt[2] = CodeDescriptor => Flat(CODE, TRUE)
  /\ limit = table_limit /\ gdt[3] = DataDescriptor => Flat(DATA, FALSE)
<1>1. Bits(154, 7, 1) = 1 /\ Bits(154, 5, 2) = 0 /\ Bits(154, 4, 1) = 1
      /\ Bits(154, 1, 1) = 1 /\ Bits(154, 3, 1) = 1
  BY SMT DEF Bits
<1>2. Bits(146, 7, 1) = 1 /\ Bits(146, 5, 2) = 0 /\ Bits(146, 4, 1) = 1
      /\ Bits(146, 1, 1) = 1 /\ Bits(146, 3, 1) = 0
  BY SMT DEF Bits
<1>3. Bits(207, 0, 4) = 15 /\ Bits(207, 6, 2) = 3 /\ 65535 + 15 * 2^16 = 2^20 - 1
  BY SMT DEF Bits
<1>4. ASSUME limit = table_limit, gdt[2] = CodeDescriptor PROVE Flat(CODE, TRUE)
  <2>1. CODE % 8 = 0 /\ CODE > 0 /\ CODE + 7 <= limit /\ CODE \div 8 + 1 = 2
    BY <1>4, SMT DEF CODE, table_limit
  <2>2. Entry(CODE) = CodeDescriptor
    BY <1>4, <2>1, SMT DEF Entry
  <2> QED
    BY <1>1, <1>3, <2>1, <2>2, DescriptorBytes, SMT DEF Flat
<1>5. ASSUME limit = table_limit, gdt[3] = DataDescriptor PROVE Flat(DATA, FALSE)
  <2>1. DATA % 8 = 0 /\ DATA > 0 /\ DATA + 7 <= limit /\ DATA \div 8 + 1 = 3
    BY <1>5, SMT DEF DATA, table_limit
  <2>2. Entry(DATA) = DataDescriptor
    BY <1>5, <2>1, SMT DEF Entry
  <2> QED
    BY <1>2, <1>3, <2>1, <2>2, DescriptorBytes, SMT DEF Flat
<1> QED
  BY <1>4, <1>5

(* A gate leads to the address it was set for.                              *)
LEMMA GateLeads ==
  ASSUME NEW v \in Vectors
  PROVE  GateOffset(Gate(v)) = StubAddress[v]
<1>1. StubAddress[v] \in Nat /\ StubAddress[v] \div 65536 < 65536
  BY DescriptorsAssumption, SMT
<1>2. \A x \in Nat : x \div 65536 < 65536 =>
        Bits(x, 16, 16) * 65536 + Bits(x, 0, 16) = x
  BY SMT DEF Bits
<1>3. Gate(v).offset_low = Bits(StubAddress[v], 0, 16)
      /\ Gate(v).offset_high = Bits(StubAddress[v], 16, 16)
  BY SMT DEF Gate, create_idt_descriptor
<1> QED
  BY <1>1, <1>2, <1>3, SMT DEF GateOffset

SegmentRegisters == {"cs", "ds", "es", "fs", "gs", "ss"}

(* What the tables hold, by the progress of their set-up.                   *)
TableInv ==
  /\ pc \in {"code", "data", "lgdt", "segments", "idt"}
  /\ gdt \in [1 .. 3 -> {NullDescriptor, CodeDescriptor, DataDescriptor}]
  /\ pc # "code" => gdt[2] = CodeDescriptor
  /\ pc \notin {"code", "data"} => gdt[3] = DataDescriptor
  /\ pc \in {"segments", "idt"} => limit = table_limit
  /\ seg \in [SegmentRegisters -> {-1, CODE, DATA}]
  /\ \A r \in SegmentRegisters : seg[r] # -1 => pc \in {"segments", "idt"}
  /\ \A r \in SegmentRegisters \ {"cs"} : seg[r] # CODE
  /\ seg["cs"] = IF pc = "idt" THEN CODE ELSE -1
  /\ \A v \in DOMAIN idt : pc = "idt" /\ v \in Vectors /\ idt[v] = Gate(v)

(* The tables are faithful when they hold that.                             *)
LEMMA InvFaithful == TableInv => TablesFaithful
<1> SUFFICES ASSUME TableInv PROVE TablesFaithful
  OBVIOUS
<1>1. ASSUME NEW r \in DOMAIN seg, seg[r] # -1 PROVE Flat(seg[r], r = "cs")
  <2>1. r \in SegmentRegisters /\ pc \in {"segments", "idt"}
    BY <1>1 DEF TableInv
  <2>2. gdt[2] = CodeDescriptor /\ gdt[3] = DataDescriptor /\ limit = table_limit
    BY <2>1 DEF TableInv
  <2>3. CASE r = "cs"
    <3>1. seg[r] = CODE
      BY <1>1, <2>1, <2>3 DEF TableInv, CODE, DATA
    <3> QED
      BY <2>2, <2>3, <3>1, FlatSegments
  <2>4. CASE r # "cs"
    <3>1. seg[r] = DATA
      BY <1>1, <2>1, <2>4 DEF TableInv
    <3>2. (r = "cs") = FALSE
      BY <2>4
    <3> QED
      BY <2>2, <3>1, <3>2, FlatSegments
  <2> QED
    BY <2>3, <2>4
<1>2. ASSUME NEW v \in DOMAIN idt
      PROVE  /\ idt[v].type_attr = 142 /\ idt[v].zero = 0
             /\ Flat(idt[v].selector, TRUE) /\ idt[v].selector = seg["cs"]
             /\ GateOffset(idt[v]) = StubAddress[v]
  <2>1. pc = "idt" /\ v \in Vectors /\ idt[v] = Gate(v)
    BY <1>2 DEF TableInv
  <2>2. Gate(v).type_attr = 142 /\ Gate(v).zero = 0 /\ Gate(v).selector = CODE
    BY DEF Gate, create_idt_descriptor
  <2>3. Flat(CODE, TRUE) /\ seg["cs"] = CODE
    BY <2>1, FlatSegments DEF TableInv, SegmentRegisters
  <2>4. GateOffset(idt[v]) = StubAddress[v]
    BY <2>1, GateLeads
  <2>5. idt[v].type_attr = 142 /\ idt[v].zero = 0 /\ idt[v].selector = CODE
    BY <2>1, <2>2
  <2> QED
    BY <2>3, <2>4, <2>5, Zenon
<1> QED
  BY <1>1, <1>2 DEF TablesFaithful

LEMMA TableStart == TableInit => TableInv
<1> SUFFICES ASSUME TableInit PROVE TableInv
  OBVIOUS
<1>1. gdt \in [1 .. 3 -> {NullDescriptor, CodeDescriptor, DataDescriptor}]
  BY DEF TableInit
<1>2. pc = "code" /\ DOMAIN idt = {}
  BY DEF TableInit
<1>3. seg \in [SegmentRegisters -> {-1, CODE, DATA}] /\ \A r \in SegmentRegisters : seg[r] = -1
  BY DEF TableInit, SegmentRegisters
<1>4. seg["cs"] = -1 /\ \A r \in SegmentRegisters \ {"cs"} : seg[r] # CODE
  BY <1>3 DEF SegmentRegisters, CODE
<1> QED
  BY <1>1, <1>2, <1>3, <1>4 DEF TableInv

(* One step per instruction or line of the set-up.                          *)
LEMMA TableStep == TableInv /\ [TableNext]_tableVars => TableInv'
<1> SUFFICES ASSUME TableInv, [TableNext]_tableVars PROVE TableInv'
  OBVIOUS
<1>1. CASE gdt_code
  <2>1. gdt' = [gdt EXCEPT ![2] = CodeDescriptor] /\ pc = "code" /\ pc' = "data"
        /\ limit' = limit /\ seg' = seg /\ idt' = idt
    BY <1>1 DEF gdt_code, CodeDescriptor
  <2>2. gdt' \in [1 .. 3 -> {NullDescriptor, CodeDescriptor, DataDescriptor}] /\ gdt'[2] = CodeDescriptor
    BY <2>1 DEF TableInv
  <2> QED
    BY <2>1, <2>2 DEF TableInv, Gate
<1>2. CASE gdt_data
  <2>1. gdt' = [gdt EXCEPT ![3] = DataDescriptor] /\ pc = "data" /\ pc' = "lgdt"
        /\ limit' = limit /\ seg' = seg /\ idt' = idt
    BY <1>2 DEF gdt_data, DataDescriptor
  <2>2. gdt' \in [1 .. 3 -> {NullDescriptor, CodeDescriptor, DataDescriptor}]
        /\ gdt'[2] = CodeDescriptor /\ gdt'[3] = DataDescriptor
    BY <2>1 DEF TableInv
  <2> QED
    BY <2>1, <2>2 DEF TableInv, Gate
<1>3. CASE load_gdt_asm
  BY <1>3 DEF TableInv, Gate, load_gdt_asm
<1>4. CASE load_segment
  <2>1. PICK i \in 1 .. Len(DataSegments) : seg' = [seg EXCEPT ![DataSegments[i]] = DATA]
    BY <1>4 DEF load_segment
  <2>2. DataSegments[i] \in SegmentRegisters \ {"cs"}
    BY <2>1 DEF DataSegments, SegmentRegisters
  <2>3. pc = "segments" /\ gdt' = gdt /\ limit' = limit /\ idt' = idt /\ pc' = pc
    BY <1>4 DEF load_segment
  <2>4. seg' \in [SegmentRegisters -> {-1, CODE, DATA}]
        /\ (\A r \in SegmentRegisters \ {"cs"} : seg'[r] # CODE) /\ seg'["cs"] = seg["cs"]
    BY <2>1, <2>2, <2>3 DEF TableInv, CODE, DATA
  <2> QED
    BY <2>3, <2>4 DEF TableInv, Gate
<1>5. CASE reload_cs
  <2>1. seg' = [seg EXCEPT !["cs"] = CODE] /\ pc = "segments" /\ pc' = "idt"
        /\ gdt' = gdt /\ limit' = limit /\ idt' = idt
    BY <1>5 DEF reload_cs
  <2>2. seg' \in [SegmentRegisters -> {-1, CODE, DATA}]
        /\ (\A r \in SegmentRegisters \ {"cs"} : seg'[r] # CODE) /\ seg'["cs"] = CODE
    BY <2>1 DEF TableInv, SegmentRegisters
  <2> QED
    BY <2>1, <2>2 DEF TableInv, Gate
<1>6. CASE idt_init
  <2>1. pc = "idt" /\ pc' = pc /\ gdt' = gdt /\ limit' = limit /\ seg' = seg
    BY <1>6 DEF idt_init
  <2>2. PICK v \in Vectors \ DOMAIN idt :
          idt' = [u \in DOMAIN idt \cup {v} |->
                    IF u = v THEN create_idt_descriptor(StubAddress[v], CODE, 128 + 14)
                             ELSE idt[u]]
    BY <1>6 DEF idt_init
  <2>3. \A u \in DOMAIN idt' : u \in Vectors /\ idt'[u] = Gate(u)
    BY <2>2 DEF TableInv, Gate
  <2> QED
    BY <2>1, <2>3 DEF TableInv, Gate
<1>7. CASE UNCHANGED tableVars
  BY <1>7 DEF TableInv, Gate, tableVars
<1> QED
  BY <1>1, <1>2, <1>3, <1>4, <1>5, <1>6, <1>7 DEF TableNext

(* The tables are what the CPU expects: every selector loaded names a flat  *)
(* segment of its kind, and every gate leads to the stub it was set for     *)
(* (gdt.c, gdt.s, create_idt_descriptor and idt_init.inc).                  *)
THEOREM TablesSafe == Spec => []TablesFaithful
<1>1. Init => TableInv
  BY TableStart DEF Init
<1>2. TableInv /\ [Next]_vars => TableInv'
  BY TableStep DEF Next, vars
<1> QED
  BY <1>1, <1>2, InvFaithful, PTL DEF Spec

-----------------------------------------------------------------------------
(* The stubs.                                                               *)

(* What a stub saves, in the order of the pushes.                           *)
Saved == <<"gp", "ds", "es", "fs", "gs">>

(* The instructions of a stub: five pushes, four loads, the call with its   *)
(* argument, and the pops in the opposite order.                            *)
LEMMA Instructions ==
  ASSUME NEW num
  PROVE  /\ \A s \in 1 .. 5 : generate_error_code_handler(num)[s] = Push(Saved[s])
         /\ \A s \in 6 .. 9 : generate_error_code_handler(num)[s] = Load(Saved[s - 4])
         /\ num \in Halting => generate_error_code_handler(num)[10] = Plain("halt")
         /\ num \notin Halting =>
              /\ generate_error_code_handler(num)[10] = Plain("argument")
              /\ generate_error_code_handler(num)[11] = Plain("call")
              /\ generate_error_code_handler(num)[12] = Plain("drop")
              /\ \A s \in 13 .. 17 : generate_error_code_handler(num)[s] = Pop(Saved[18 - s])
              /\ generate_error_code_handler(num)[18] = Plain("iret")
<1> DEFINE g == generate_error_code_handler(num)
<1>1. ASSUME num \in Halting
      PROVE  /\ g[1] = Push("gp") /\ g[2] = Push("ds") /\ g[3] = Push("es") /\ g[4] = Push("fs")
             /\ g[5] = Push("gs") /\ g[6] = Load("ds") /\ g[7] = Load("es") /\ g[8] = Load("fs")
             /\ g[9] = Load("gs") /\ g[10] = Plain("halt")
  <2>1. g = generate_halting_handler(num)
    BY <1>1 DEF generate_error_code_handler
  <2> QED
    BY <2>1 DEF generate_halting_handler, Save, Kernel, Restore
<1>2. ASSUME num \notin Halting
      PROVE  /\ g[1] = Push("gp") /\ g[2] = Push("ds") /\ g[3] = Push("es") /\ g[4] = Push("fs")
             /\ g[5] = Push("gs") /\ g[6] = Load("ds") /\ g[7] = Load("es") /\ g[8] = Load("fs")
             /\ g[9] = Load("gs") /\ g[10] = Plain("argument") /\ g[11] = Plain("call")
             /\ g[12] = Plain("drop") /\ g[13] = Pop("gs") /\ g[14] = Pop("fs")
             /\ g[15] = Pop("es") /\ g[16] = Pop("ds") /\ g[17] = Pop("gp") /\ g[18] = Plain("iret")
  <2>1. g = generate_asm_handler(num)
    BY <1>2 DEF generate_error_code_handler
  <2> QED
    BY <2>1 DEF generate_asm_handler, Save, Kernel, Restore
<1> HIDE DEF g
<1>3. /\ Saved[1] = "gp" /\ Saved[2] = "ds" /\ Saved[3] = "es" /\ Saved[4] = "fs"
      /\ Saved[5] = "gs"
  BY DEF Saved
<1>4. \A s \in 1 .. 5 : g[s] = Push(Saved[s])
  BY <1>1, <1>2, <1>3
<1>5. \A s \in 6 .. 9 : g[s] = Load(Saved[s - 4])
  BY <1>1, <1>2, <1>3
<1>6. ASSUME num \notin Halting, NEW s \in 13 .. 17 PROVE g[s] = Pop(Saved[18 - s])
  BY <1>2, <1>3, <1>6
<1> QED
  BY <1>1, <1>2, <1>4, <1>5, <1>6 DEF g

-----------------------------------------------------------------------------
(* The words on the stack before instruction s, above those the CPU pushed. *)
Depth(s) ==
  IF s <= 6 THEN s - 1 ELSE IF s <= 10 THEN 5 ELSE IF s <= 12 THEN 6 ELSE 18 - s

(* The words the CPU pushed.                                                *)
Pushed(v) == IF v \in PushesErrorCode THEN 4 ELSE 3

(* The top of a stack and what is below it.                                 *)
Last(s) == s[Len(s)]
Front(s) == SubSeq(s, 1, Len(s) - 1)

(* A stack of the n words the CPU pushed for the registers b, and d more of *)
(* which the first five are saved registers.                                *)
Holds(stk, n, d, b) ==
  /\ stk \in Seq(Nat) /\ Len(stk) = n + d
  /\ stk[1] = b["eflags"] /\ stk[2] = b["cs"] /\ stk[3] = b["eip"]
  /\ \A k \in 1 .. 5 : k <= d => stk[n + k] = b[Saved[k]]

(* The stack of a running stub: the registers saved so far, and the         *)
(* argument while it is there.                                              *)
StackInv ==
  /\ Holds(stack, Pushed(vector), Depth(step), before)
  /\ step \in {11, 12} => Last(stack) = vector

(* Its registers: untouched, then the kernel's, then restored one by one.   *)
RegsInv ==
  /\ \A r \in {"eip", "eflags"} : regs[r] = before[r]
  /\ step <= 6 => \A k \in 1 .. 5 : regs[Saved[k]] = before[Saved[k]]
  /\ step \in 7 .. 13 => \A k \in 2 .. 5 : k <= step - 5 => regs[Saved[k]] = KERNEL_DATA
  /\ step >= 14 => \A k \in 1 .. 5 : k > 18 - step => regs[Saved[k]] = before[Saved[k]]

StubInv ==
  /\ TableInv
  /\ regs \in [Registers -> Nat] /\ before \in [Registers -> Nat]
  /\ vector \in Vectors \cup {-1} /\ stub = vector
  /\ vector # -1 =>
       /\ step \in 1 .. 18 /\ (vector \in Halting => step <= 10)
       /\ StackInv /\ RegsInv

(* Which instruction a stub is at says how far it is.                       *)
LEMMA Places ==
  ASSUME StubInv
  PROVE  /\ At("push") => step \in 1 .. 5 /\ Now.reg = Saved[step]
         /\ At("load") => step \in 6 .. 9 /\ Now.reg = Saved[step - 4]
         /\ At("argument") => step = 10
         /\ At("call") => step = 11
         /\ At("drop") => step = 12
         /\ At("pop") => step \in 13 .. 17 /\ Now.reg = Saved[18 - step]
         /\ At("iret") => step = 18 /\ vector \notin Halting
<1> SUFFICES ASSUME stub # -1
             PROVE  /\ At("push") => step \in 1 .. 5 /\ Now.reg = Saved[step]
                    /\ At("load") => step \in 6 .. 9 /\ Now.reg = Saved[step - 4]
                    /\ At("argument") => step = 10
                    /\ At("call") => step = 11
                    /\ At("drop") => step = 12
                    /\ At("pop") => step \in 13 .. 17 /\ Now.reg = Saved[18 - step]
                    /\ At("iret") => step = 18 /\ vector \notin Halting
  BY DEF At
<1>1. stub = vector /\ step \in 1 .. 18 /\ (stub \in Halting => step <= 10)
  BY DEF StubInv
<1>2. /\ step \in 1 .. 5 => Now = Push(Saved[step])
      /\ step \in 6 .. 9 => Now = Load(Saved[step - 4])
      /\ stub \in Halting => (step = 10 => Now = Plain("halt"))
  BY Instructions DEF Now
<1>3. stub \notin Halting =>
        /\ step = 10 => Now = Plain("argument")
        /\ step = 11 => Now = Plain("call")
        /\ step = 12 => Now = Plain("drop")
        /\ step \in 13 .. 17 => Now = Pop(Saved[18 - step])
        /\ step = 18 => Now = Plain("iret")
  BY Instructions DEF Now
<1>4. /\ step \in 1 .. 5 => Now.do = "push" /\ Now.reg = Saved[step]
      /\ step \in 6 .. 9 => Now.do = "load" /\ Now.reg = Saved[step - 4]
      /\ step = 10 => Now.do \in {"argument", "halt"}
      /\ step = 11 => Now.do = "call"
      /\ step = 12 => Now.do = "drop"
      /\ step \in 13 .. 17 => Now.do = "pop" /\ Now.reg = Saved[18 - step]
      /\ step = 18 => Now.do = "iret" /\ stub \notin Halting
  BY <1>1, <1>2, <1>3 DEF Push, Load, Pop, Plain
<1>5. step \in 1 .. 5 \/ step \in 6 .. 9 \/ step = 10 \/ step = 11 \/ step = 12
      \/ step \in 13 .. 17 \/ step = 18
  BY <1>1
<1> QED
  BY <1>1, <1>4, <1>5 DEF At

LEMMA SavedAre ==
  /\ \A k \in 1 .. 5 : Saved[k] \in Registers
  /\ \A k \in 1 .. 5 : Saved[k] \notin {"eip", "cs", "eflags"}
  /\ \A j, k \in 1 .. 5 : Saved[j] = Saved[k] => j = k
  /\ Saved[1] = "gp" /\ \A r \in Segments : \E k \in 2 .. 5 : r = Saved[k]
  /\ \A r \in Registers : r \in {"eip", "cs", "eflags"} \/ \E k \in 1 .. 5 : r = Saved[k]
<1>1. /\ Saved[1] = "gp" /\ Saved[2] = "ds" /\ Saved[3] = "es" /\ Saved[4] = "fs"
      /\ Saved[5] = "gs"
  BY DEF Saved
<1>2. \A k \in 1 .. 5 : k = 1 \/ k = 2 \/ k = 3 \/ k = 4 \/ k = 5
  OBVIOUS
<1>3. \A k \in 1 .. 5 : Saved[k] \in Registers /\ Saved[k] \notin {"eip", "cs", "eflags"}
  BY <1>1, <1>2 DEF Registers, Segments
<1>4. \A j, k \in 1 .. 5 : Saved[j] = Saved[k] => j = k
  BY <1>1, <1>2
<1>5. \A r \in Segments : \E k \in 2 .. 5 : r = Saved[k]
  BY <1>1 DEF Segments
<1>6. \A r \in Registers : r \in {"eip", "cs", "eflags"} \/ \E k \in 1 .. 5 : r = Saved[k]
  BY <1>1 DEF Registers, Segments
<1> QED
  BY <1>1, <1>3, <1>4, <1>5, <1>6

(* What the step of a running stub has to show.                             *)
LEMMA Running ==
  ASSUME StubInv, stub # -1, UNCHANGED <<tableVars, before, vector, stub>>,
         regs' \in [Registers -> Nat], step' \in 1 .. 18, vector \in Halting => step' <= 10,
         StackInv', RegsInv'
  PROVE  StubInv'
<1>1. TableInv'
  BY DEF StubInv, TableInv, tableVars, Gate
<1> QED
  BY <1>1 DEF StubInv

(* Pushing and popping on such a stack.                                     *)
LEMMA HoldsPush ==
  ASSUME NEW stk, NEW n \in {3, 4}, NEW d \in 0 .. 5, NEW b, NEW x \in Nat,
         Holds(stk, n, d, b), d < 5 => x = b[Saved[d + 1]]
  PROVE  Holds(Append(stk, x), n, d + 1, b) /\ Last(Append(stk, x)) = x
<1> DEFINE t == Append(stk, x)
<1>1. stk \in Seq(Nat) /\ Len(stk) = n + d
  BY DEF Holds
<1>2. /\ t \in Seq(Nat) /\ Len(t) = n + d + 1 /\ t[n + d + 1] = x
      /\ \A k \in 1 .. n + d : t[k] = stk[k]
  BY <1>1
<1>3. Last(t) = x
  BY <1>2 DEF Last
<1> HIDE DEF t
<1>4. t[1] = b["eflags"] /\ t[2] = b["cs"] /\ t[3] = b["eip"]
  BY <1>2 DEF Holds
<1>5. ASSUME NEW k \in 1 .. 5, k <= d + 1 PROVE t[n + k] = b[Saved[k]]
  <2>1. CASE k = d + 1
    <3>1. d < 5 /\ t[n + k] = x
      BY <1>2, <2>1
    <3> QED
      BY <2>1, <3>1
  <2>2. CASE k <= d
    <3>1. n + k \in 1 .. n + d
      BY <2>2
    <3> QED
      BY <1>2, <2>2, <3>1 DEF Holds
  <2> QED
    BY <1>5, <2>1, <2>2
<1>6. Holds(t, n, d + 1, b)
  BY <1>2, <1>4, <1>5 DEF Holds
<1> QED
  BY <1>3, <1>6 DEF t

LEMMA HoldsPop ==
  ASSUME NEW stk, NEW n \in {3, 4}, NEW d \in 1 .. 6, NEW b, Holds(stk, n, d, b)
  PROVE  /\ Holds(Front(stk), n, d - 1, b)
         /\ Last(stk) \in Nat /\ (d <= 5 => Last(stk) = b[Saved[d]])
<1> DEFINE t == Front(stk)
<1>1. stk \in Seq(Nat) /\ Len(stk) = n + d
  BY DEF Holds
<1>2. t \in Seq(Nat) /\ Len(t) = n + d - 1 /\ \A k \in 1 .. n + d - 1 : t[k] = stk[k]
  <2> DEFINE m == n + d - 1
  <2>1. t = SubSeq(stk, 1, m) /\ m \in Nat /\ m <= Len(stk)
    BY <1>1 DEF Front
  <2> HIDE DEF m, t
  <2>2. t \in Seq(Nat) /\ Len(t) = m /\ \A k \in 1 .. m : t[k] = stk[k]
    BY <1>1, <2>1
  <2> QED
    BY <2>2 DEF m
<1>3. Last(stk) = stk[n + d] /\ Last(stk) \in Nat
  BY <1>1 DEF Last
<1> HIDE DEF t
<1>4. t[1] = b["eflags"] /\ t[2] = b["cs"] /\ t[3] = b["eip"]
  BY <1>2 DEF Holds
<1>5. ASSUME NEW k \in 1 .. 5, k <= d - 1 PROVE t[n + k] = b[Saved[k]]
  <2>1. n + k \in 1 .. n + d - 1 /\ k <= d
    BY <1>5
  <2> QED
    BY <1>2, <2>1 DEF Holds
<1>6. Holds(t, n, d - 1, b)
  BY <1>2, <1>4, <1>5 DEF Holds
<1>7. ASSUME d <= 5 PROVE Last(stk) = b[Saved[d]]
  <2>1. d \in 1 .. 5 /\ \A k \in 1 .. 5 : k <= d => stk[n + k] = b[Saved[k]]
    BY <1>7 DEF Holds
  <2> QED
    BY <1>3, <2>1
<1> QED
  BY <1>3, <1>6, <1>7 DEF t

LEMMA StubPush == StubInv /\ push /\ UNCHANGED tableVars => StubInv'
<1> SUFFICES ASSUME StubInv, push, UNCHANGED tableVars PROVE StubInv'
  OBVIOUS
<1>1. step \in 1 .. 5 /\ Now.reg = Saved[step] /\ stub # -1 /\ vector # -1
  BY Places DEF push, At, StubInv
<1>2. stack' = Append(stack, regs[Saved[step]]) /\ step' = step + 1
      /\ UNCHANGED <<regs, before, vector, stub>>
  BY <1>1 DEF push
<1>3. regs[Saved[step]] = before[Saved[step]] /\ regs[Saved[step]] \in Nat
  BY <1>1, SavedAre DEF StubInv, RegsInv
<1>4. /\ Holds(stack, Pushed(vector), step - 1, before)
      /\ Pushed(vector) \in {3, 4} /\ Depth(step) = step - 1 /\ Depth(step') = step
  BY <1>1, <1>2 DEF StubInv, StackInv, Depth, Pushed
<1>5. Holds(stack', Pushed(vector), step, before)
  <2>1. step - 1 \in 0 .. 5 /\ (step - 1) + 1 = step
    BY <1>1
  <2>2. Holds(Append(stack, regs[Saved[step]]), Pushed(vector), (step - 1) + 1, before)
    BY <1>3, <1>4, <2>1, HoldsPush
  <2> QED
    BY <1>2, <2>1, <2>2
<1>6. StackInv'
  BY <1>1, <1>2, <1>4, <1>5 DEF StackInv
<1>7. RegsInv'
  BY <1>1, <1>2 DEF StubInv, RegsInv
<1>8. regs' \in [Registers -> Nat] /\ step' \in 1 .. 18 /\ step' <= 10
  BY <1>1, <1>2 DEF StubInv
<1> QED
  BY <1>1, <1>2, <1>6, <1>7, <1>8, Running

LEMMA StubLoad == StubInv /\ load /\ UNCHANGED tableVars => StubInv'
<1> SUFFICES ASSUME StubInv, load, UNCHANGED tableVars PROVE StubInv'
  OBVIOUS
<1>1. step \in 6 .. 9 /\ Now.reg = Saved[step - 4] /\ stub # -1 /\ vector # -1
  BY Places DEF load, At, StubInv
<1>2. regs' = [regs EXCEPT ![Saved[step - 4]] = KERNEL_DATA, !["gp"] = KERNEL_DATA]
      /\ step' = step + 1 /\ UNCHANGED <<before, stack, vector, stub>>
  BY <1>1 DEF load
<1>3. step - 4 \in 2 .. 5 /\ Saved[step - 4] \in Registers /\ "gp" \in Registers
  BY <1>1, SavedAre DEF Registers
<1>4. /\ regs' \in [Registers -> Nat] /\ regs'[Saved[step - 4]] = KERNEL_DATA
      /\ \A r \in Registers \ {"gp", Saved[step - 4]} : regs'[r] = regs[r]
  BY <1>2, <1>3 DEF StubInv, KERNEL_DATA
<1>5. Depth(step) = 5 /\ Depth(step') = 5 /\ step' \in 7 .. 10
  BY <1>1, <1>2 DEF Depth
<1>6. StackInv'
  BY <1>1, <1>2, <1>5 DEF StubInv, StackInv
<1>7. RegsInv'
  <2>1. \A r \in {"eip", "eflags"} : regs'[r] = before'[r]
    BY <1>1, <1>2, <1>3, <1>4, SavedAre DEF StubInv, RegsInv, Registers
  <2>2. ASSUME NEW k \in 2 .. 5, k <= step - 4 PROVE regs'[Saved[k]] = KERNEL_DATA
    <3>1. CASE k = step - 4
      BY <1>4, <3>1
    <3>2. CASE k # step - 4
      <4>1. Saved[k] # Saved[step - 4] /\ Saved[k] # "gp" /\ Saved[k] \in Registers
        BY <1>3, <3>2, SavedAre
      <4>2. step \in 7 .. 13 /\ k <= step - 5
        BY <1>1, <2>2, <3>2
      <4>3. regs[Saved[k]] = KERNEL_DATA
        BY <1>1, <4>2 DEF StubInv, RegsInv
      <4> QED
        BY <1>4, <4>1, <4>3
    <3> QED
      BY <3>1, <3>2
  <2> QED
    BY <1>1, <1>2, <2>1, <2>2 DEF RegsInv
<1> QED
  BY <1>1, <1>2, <1>4, <1>5, <1>6, <1>7, Running

LEMMA StubCall == StubInv /\ (argument \/ call \/ drop) /\ UNCHANGED tableVars => StubInv'
<1> SUFFICES ASSUME StubInv, argument \/ call \/ drop, UNCHANGED tableVars PROVE StubInv'
  OBVIOUS
<1>1. /\ stub # -1 /\ vector # -1 /\ stub = vector /\ vector \in Vectors /\ vector \in Nat
      /\ Pushed(vector) \in {3, 4} /\ Holds(stack, Pushed(vector), Depth(step), before)
  BY DescriptorsAssumption DEF argument, call, drop, At, StubInv, StackInv, Pushed
<1>2. CASE argument
  <2>1. step = 10 /\ stack' = Append(stack, vector) /\ step' = 11
        /\ UNCHANGED <<regs, before, vector, stub>>
    BY <1>1, <1>2, Places DEF argument
  <2>2. vector \notin Halting
    <3>1. vector \in Halting => Now = Plain("halt")
      BY <1>1, <2>1, Instructions DEF Now
    <3> QED
      BY <1>2, <3>1 DEF argument, At, Plain
  <2>3. Depth(step) = 5 /\ Depth(step') = 5 + 1
    BY <2>1 DEF Depth
  <2>4. Holds(stack', Pushed(vector), 5 + 1, before) /\ Last(stack') = vector
    <3>1. Holds(stack, Pushed(vector), 5, before) /\ 5 \in 0 .. 5 /\ ~ (5 < 5)
      BY <1>1, <2>3
    <3>2. /\ Holds(Append(stack, vector), Pushed(vector), 5 + 1, before)
          /\ Last(Append(stack, vector)) = vector
      BY <1>1, <3>1, HoldsPush
    <3> QED
      BY <2>1, <3>2
  <2>5. StackInv'
    BY <2>1, <2>3, <2>4 DEF StackInv
  <2>6. RegsInv'
    BY <1>1, <2>1 DEF StubInv, RegsInv
  <2> QED
    BY <1>1, <2>1, <2>2, <2>5, <2>6, Running DEF StubInv
<1>3. CASE call
  <2>1. step = 11 /\ step' = 12 /\ UNCHANGED <<before, stack, vector, stub>>
    BY <1>3, Places DEF call
  <2>2. PICK x \in Words : regs' = [regs EXCEPT !["gp"] = x]
    BY <1>3 DEF call
  <2>3. regs' \in [Registers -> Nat] /\ \A r \in Registers \ {"gp"} : regs'[r] = regs[r]
    BY <2>2, StubAssumption DEF StubInv
  <2>4. Depth(step) = 6 /\ Depth(step') = 6 /\ vector \notin Halting
    BY <1>1, <2>1 DEF Depth, StubInv
  <2>5. StackInv'
    BY <1>1, <2>1, <2>4 DEF StubInv, StackInv
  <2>6. \A k \in 2 .. 5 : regs'[Saved[k]] = KERNEL_DATA
    <3> SUFFICES ASSUME NEW k \in 2 .. 5 PROVE regs'[Saved[k]] = KERNEL_DATA
      OBVIOUS
    <3>1. Saved[k] \in Registers \ {"gp"}
      BY SavedAre
    <3>2. regs[Saved[k]] = KERNEL_DATA
      BY <1>1, <2>1 DEF StubInv, RegsInv
    <3> QED
      BY <2>3, <3>1, <3>2
  <2>7. \A r \in {"eip", "eflags"} : regs'[r] = before'[r]
    BY <1>1, <2>1, <2>3 DEF StubInv, RegsInv, Registers
  <2>8. RegsInv'
    BY <2>1, <2>6, <2>7 DEF RegsInv
  <2> QED
    BY <1>1, <2>1, <2>3, <2>4, <2>5, <2>8, Running
<1>4. CASE drop
  <2>1. step = 12 /\ step' = 13 /\ stack' = Front(stack)
        /\ UNCHANGED <<regs, before, vector, stub>>
    BY <1>4, Places DEF drop, Below, Front
  <2>2. Depth(step) = 6 /\ Depth(step') = 6 - 1 /\ vector \notin Halting
    BY <1>1, <2>1 DEF Depth, StubInv
  <2>3. Holds(stack', Pushed(vector), 6 - 1, before)
    BY <1>1, <2>1, <2>2, HoldsPop
  <2>4. StackInv'
    BY <2>1, <2>2, <2>3 DEF StackInv
  <2>5. RegsInv'
    BY <1>1, <2>1 DEF StubInv, RegsInv
  <2> QED
    BY <1>1, <2>1, <2>2, <2>4, <2>5, Running DEF StubInv
<1> QED
  BY <1>2, <1>3, <1>4

LEMMA StubPop == StubInv /\ pop /\ UNCHANGED tableVars => StubInv'
<1> SUFFICES ASSUME StubInv, pop, UNCHANGED tableVars PROVE StubInv'
  OBVIOUS
<1>1. step \in 13 .. 17 /\ Now.reg = Saved[18 - step] /\ stub # -1 /\ vector # -1
      /\ vector \notin Halting
  BY Places DEF pop, At, StubInv
<1> DEFINE d == 18 - step
<1>2. d \in 1 .. 5 /\ Depth(step) = d /\ Saved[d] \in Registers
  BY <1>1, SavedAre DEF Depth
<1>3. regs' = [regs EXCEPT ![Saved[d]] = Last(stack)] /\ stack' = Front(stack)
      /\ step' = step + 1 /\ UNCHANGED <<before, vector, stub>>
  BY <1>1 DEF pop, Top, Below, Last, Front
<1>4. Depth(step') = d - 1 /\ step' \in 14 .. 18 /\ 18 - step' = d - 1 /\ step - 5 >= 5
  BY <1>1, <1>3 DEF Depth
<1>5. Pushed(vector) \in {3, 4} /\ Holds(stack, Pushed(vector), d, before)
  BY <1>1, <1>2 DEF StubInv, StackInv, Pushed
<1> HIDE DEF d
<1>6. /\ Holds(stack', Pushed(vector), d - 1, before)
      /\ Last(stack) = before[Saved[d]] /\ Last(stack) \in Nat
  BY <1>2, <1>3, <1>5, HoldsPop
<1>7. StackInv'
  BY <1>3, <1>4, <1>6 DEF StackInv
<1>8. /\ regs' \in [Registers -> Nat] /\ regs'[Saved[d]] = before[Saved[d]]
      /\ \A r \in Registers \ {Saved[d]} : regs'[r] = regs[r]
  BY <1>2, <1>3, <1>6 DEF StubInv
<1>9. RegsInv'
  <2>1. \A r \in {"eip", "eflags"} : regs'[r] = before'[r]
    <3>1. \A r \in {"eip", "eflags"} : r \in Registers /\ r # Saved[d]
      BY <1>2, SavedAre DEF Registers
    <3> QED
      BY <1>1, <1>3, <1>8, <3>1 DEF StubInv, RegsInv
  <2>2. ASSUME NEW k \in 1 .. 5, k > d - 1 PROVE regs'[Saved[k]] = before'[Saved[k]]
    <3>1. CASE k = d
      BY <1>3, <1>8, <3>1
    <3>2. CASE k # d
      <4>1. k > d /\ step >= 14
        BY <1>1, <1>2, <2>2, <3>2 DEF d
      <4>2. regs[Saved[k]] = before[Saved[k]]
        BY <1>1, <4>1 DEF StubInv, RegsInv, d
      <4>3. Saved[k] # Saved[d] /\ Saved[k] \in Registers
        BY <1>2, <3>2, SavedAre
      <4> QED
        BY <1>3, <1>8, <4>2, <4>3
    <3> QED
      BY <3>1, <3>2
  <2>3. ~ (step' <= 6) /\ ~ (step' \in 7 .. 13) /\ 18 - step' = d - 1
    BY <1>4
  <2>4. \A k \in 1 .. 5 : k > 18 - step' => regs'[Saved[k]] = before'[Saved[k]]
    BY <2>2, <2>3
  <2> QED
    BY <2>1, <2>3, <2>4 DEF RegsInv
<1> QED
  BY <1>1, <1>3, <1>4, <1>7, <1>8, <1>9, Running

LEMMA StubEnds == StubInv /\ iret /\ UNCHANGED tableVars => StubInv'
<1> SUFFICES ASSUME StubInv, iret, UNCHANGED tableVars PROVE StubInv'
  OBVIOUS
<1>1. step = 18 /\ vector # -1 /\ vector' = -1 /\ stub' = -1 /\ before' = before
  BY Places DEF iret, At, StubInv
<1>2. stack \in Seq(Nat) /\ Len(stack) = Pushed(vector) /\ Pushed(vector) \in {3, 4}
  BY <1>1 DEF StubInv, StackInv, Holds, Depth, Pushed
<1>3. regs' = [regs EXCEPT !["eip"] = stack[Len(stack)], !["cs"] = stack[Len(stack) - 1],
                           !["eflags"] = stack[Len(stack) - 2]]
  BY DEF iret
<1>4. regs' \in [Registers -> Nat]
  <2>1. stack[Len(stack)] \in Nat /\ stack[Len(stack) - 1] \in Nat /\ stack[Len(stack) - 2] \in Nat
    BY <1>2
  <2> QED
    BY <1>3, <2>1 DEF StubInv
<1>5. TableInv'
  BY DEF StubInv, TableInv, tableVars, Gate
<1> QED
  BY <1>1, <1>4, <1>5 DEF StubInv

LEMMA StubBegins ==
  ASSUME NEW v \in Vectors
  PROVE  StubInv /\ interrupt(v) /\ UNCHANGED tableVars => StubInv'
<1> SUFFICES ASSUME StubInv, interrupt(v), UNCHANGED tableVars PROVE StubInv'
  OBVIOUS
<1>1. TableInv' /\ TableInv
  BY DEF StubInv, TableInv, tableVars, Gate
<1>2. vector' = v /\ step' = 1 /\ before' = regs /\ v # -1 /\ v \in DOMAIN idt
  BY DescriptorsAssumption DEF interrupt, TablesReady
<1>3. stub' = v
  <2>1. GateOffset(idt[v]) = StubAddress[v]
    BY <1>1, <1>2, InvFaithful DEF TablesFaithful
  <2>2. stub' \in Vectors /\ StubAddress[stub'] = StubAddress[v]
    BY <2>1 DEF interrupt
  <2> QED
    BY <2>2, DescriptorsAssumption
<1>4. idt[v].selector = CODE
  <2>1. idt[v] = Gate(v)
    BY <1>1, <1>2 DEF TableInv
  <2>2. Gate(v).selector = CODE
    BY DEF Gate, create_idt_descriptor
  <2> QED
    BY <2>1, <2>2
<1>5. regs' \in [Registers -> Nat] /\ \A r \in Registers \ {"cs"} : regs'[r] = regs[r]
  <2>1. regs' = [regs EXCEPT !["cs"] = 8]
    BY <1>4 DEF interrupt, CODE
  <2> QED
    BY <2>1 DEF StubInv
<1>6. regs["eflags"] \in Nat /\ regs["cs"] \in Nat /\ regs["eip"] \in Nat
  BY DEF StubInv, Registers
<1>7. Holds(stack', Pushed(v), 0, regs)
  <2>1. CASE v \in PushesErrorCode
    <3>1. stack' = <<regs["eflags"], regs["cs"], regs["eip"]>> \o <<ERROR_CODE>> /\ Pushed(v) = 4
      BY <2>1 DEF interrupt, Pushed
    <3>2. /\ stack' \in Seq(Nat) /\ Len(stack') = 4 /\ stack'[1] = regs["eflags"]
          /\ stack'[2] = regs["cs"] /\ stack'[3] = regs["eip"]
      BY <1>6, <3>1 DEF ERROR_CODE
    <3> QED
      BY <3>1, <3>2 DEF Holds
  <2>2. CASE v \notin PushesErrorCode
    <3>1. stack' = <<regs["eflags"], regs["cs"], regs["eip"]>> \o <<>> /\ Pushed(v) = 3
      BY <2>2 DEF interrupt, Pushed
    <3>2. /\ stack' \in Seq(Nat) /\ Len(stack') = 3 /\ stack'[1] = regs["eflags"]
          /\ stack'[2] = regs["cs"] /\ stack'[3] = regs["eip"]
      BY <1>6, <3>1
    <3> QED
      BY <3>1, <3>2 DEF Holds
  <2> QED
    BY <2>1, <2>2
<1>8. Depth(step') = 0
  BY <1>2 DEF Depth
<1>9. StackInv'
  BY <1>2, <1>7, <1>8 DEF StackInv
<1>10. RegsInv'
  <2>1. \A k \in 1 .. 5 : Saved[k] \in Registers \ {"cs"}
    BY SavedAre
  <2>2. \A r \in {"eip", "eflags"} : r \in Registers \ {"cs"}
    BY DEF Registers
  <2> QED
    BY <1>2, <1>5, <2>1, <2>2 DEF RegsInv
<1> QED
  BY <1>1, <1>2, <1>3, <1>5, <1>9, <1>10 DEF StubInv

LEMMA StubStart == Init => StubInv
<1> SUFFICES ASSUME Init PROVE StubInv
  OBVIOUS
<1>1. TableInv /\ vector = -1 /\ stub = -1
  BY TableStart DEF Init
<1>2. regs \in [Registers -> Nat] /\ before \in [Registers -> Nat]
  BY StubAssumption DEF Init
<1> QED
  BY <1>1, <1>2 DEF StubInv

LEMMA StubStep == StubInv /\ [Next]_vars => StubInv'
<1> SUFFICES ASSUME StubInv, [Next]_vars PROVE StubInv'
  OBVIOUS
<1>1. CASE TableNext /\ UNCHANGED stubVars
  <2>1. TableInv'
    BY <1>1, TableStep DEF StubInv
  <2> QED
    BY <1>1, <2>1 DEF StubInv, stubVars, StackInv, RegsInv
<1>2. CASE Stub /\ UNCHANGED tableVars
  BY <1>2, StubBegins, StubPush, StubPop, StubLoad, StubCall, StubEnds DEF Stub
<1>3. CASE UNCHANGED vars
  <2>1. TableInv'
    BY <1>3, TableStep DEF StubInv, vars
  <2> QED
    BY <1>3, <2>1 DEF StubInv, vars, stubVars, StackInv, RegsInv
<1> QED
  BY <1>1, <1>2, <1>3 DEF Next

(* The C handler of a vector is called on the kernel's data segments with   *)
(* that vector as its argument, whatever the interrupted code had in its    *)
(* registers (generate_interrupt_handlers.py, idt_init.inc).                *)
THEOREM ContextSafe == Spec => []HandlerContext
<1>1. StubInv => HandlerContext
  <2> SUFFICES ASSUME StubInv, At("call") PROVE HandlerContext
    BY DEF HandlerContext
  <2>1. step = 11 /\ vector # -1
    BY Places DEF At, StubInv
  <2>2. Last(stack) = vector /\ \A k \in 2 .. 5 : regs[Saved[k]] = KERNEL_DATA
    BY <2>1 DEF StubInv, StackInv, RegsInv
  <2> QED
    BY <2>2, SavedAre DEF HandlerContext, Top, Last
<1> QED
  BY <1>1, StubStart, StubStep, PTL DEF Spec

(* Without vectors for which the CPU pushes an error code and whose handler *)
(* returns, the interrupted code goes on with its registers and its stack   *)
(* as they were (the stubs drop no error code: for those vectors run        *)
(* entry_error_code shows that it does not).                                *)
THEOREM ReturnsSafe ==
  ASSUME Vectors \cap PushesErrorCode \subseteq Halting
  PROVE  Spec => []ReturnsIntact
<1>1. Init => StubInv /\ ReturnsIntact
  BY StubStart DEF Init, ReturnsIntact
<1>2. StubInv /\ ReturnsIntact /\ [Next]_vars => StubInv' /\ ReturnsIntact'
  <2> SUFFICES ASSUME StubInv, ReturnsIntact, [Next]_vars, vector' = -1
               PROVE  regs' = before' /\ stack' = <<>>
    BY StubStep DEF ReturnsIntact
  <2>1. CASE UNCHANGED stubVars
    BY <2>1 DEF ReturnsIntact, stubVars
  <2>2. CASE iret
    <3>1. step = 18 /\ vector \notin Halting /\ vector # -1 /\ before' = before
      BY <2>2, Places DEF iret, At, StubInv
    <3>2. Depth(step) = 0 /\ Pushed(vector) = 3
      BY <3>1 DEF Depth, Pushed, StubInv
    <3>3. /\ stack \in Seq(Nat) /\ Len(stack) = 3 /\ stack[1] = before["eflags"]
          /\ stack[2] = before["cs"] /\ stack[3] = before["eip"]
      <4>1. Holds(stack, 3, 0, before)
        BY <3>1, <3>2 DEF StubInv, StackInv
      <4> QED
        BY <4>1 DEF Holds
    <3>4. stack' = <<>>
      BY <2>2, <3>3 DEF iret
    <3>5. regs' = [regs EXCEPT !["eip"] = before["eip"], !["cs"] = before["cs"],
                               !["eflags"] = before["eflags"]]
      <4>1. regs' = [regs EXCEPT !["eip"] = stack[Len(stack)], !["cs"] = stack[Len(stack) - 1],
                                 !["eflags"] = stack[Len(stack) - 2]]
        BY <2>2 DEF iret
      <4>2. Len(stack) = 3 /\ Len(stack) - 1 = 2 /\ Len(stack) - 2 = 1
        BY <3>3
      <4> QED
        BY <3>3, <4>1, <4>2, Zenon
    <3>6. \A k \in 1 .. 5 : regs[Saved[k]] = before[Saved[k]]
      BY <3>1 DEF StubInv, RegsInv
    <3>7. \A r \in Registers : regs'[r] = before[r]
      <4> SUFFICES ASSUME NEW r \in Registers PROVE regs'[r] = before[r]
        OBVIOUS
      <4>1. CASE r \in {"eip", "cs", "eflags"}
        BY <3>5, <4>1 DEF StubInv
      <4>2. CASE r \notin {"eip", "cs", "eflags"}
        <5>1. regs[r] = before[r]
          BY <3>6, <4>2, SavedAre
        <5> QED
          BY <3>5, <4>2, <5>1 DEF StubInv
      <4> QED
        BY <4>1, <4>2
    <3>8. regs' \in [Registers -> Nat] /\ before \in [Registers -> Nat]
      BY StubStep DEF StubInv
    <3> QED
      BY <3>1, <3>4, <3>7, <3>8
  <2>3. CASE Stub /\ ~ iret /\ UNCHANGED tableVars
    <3>1. CASE \E v \in Vectors : interrupt(v)
      BY <3>1, DescriptorsAssumption DEF interrupt
    <3>2. CASE push \/ pop \/ load \/ argument \/ call \/ drop
      <4>1. vector' = vector /\ stub # -1
        BY <3>2 DEF push, pop, load, argument, call, drop, At
      <4> QED
        BY <4>1 DEF StubInv
    <3> QED
      BY <2>3, <3>1, <3>2 DEF Stub
  <2> QED
    BY <2>1, <2>2, <2>3 DEF Next, vars
<1> QED
  BY <1>1, <1>2, PTL DEF Spec
=============================================================================
