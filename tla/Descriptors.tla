---------------------------- MODULE Descriptors -----------------------------
(***************************************************************************)
(* The descriptor tables (gdt.c, gdt.s, create_idt_descriptor of idt.c):   *)
(* the bytes the kernel puts together, and what the CPU takes apart when a *)
(* selector is loaded or an interrupt goes through a gate.                 *)
(***************************************************************************)
EXTENDS Integers, Sequences

CONSTANTS
  Vectors,      \* vectors whose gates are set, all 256 in the code
  StubAddress   \* where their stubs are linked: 32 bits, all different

ASSUME DescriptorsAssumption ==
  /\ Vectors \subseteq 0 .. 255 /\ StubAddress \in [Vectors -> Nat]
  /\ \A v \in Vectors : StubAddress[v] \div 2^16 < 2^16
  /\ \A u, v \in Vectors : StubAddress[u] = StubAddress[v] => u = v

(* The bits of x from bit n on, k of them.                                  *)
Bits(x, n, k) == (x \div 2^n) % 2^k

VARIABLES
  gdt,      \* the three entries
  limit,    \* GDTR.limit, -1 before lgdt
  seg,      \* selectors in the segment registers, -1 for the boot loader's
  idt,      \* the gates set so far
  pc

tableVars == <<gdt, limit, seg, idt, pc>>

CODE == 8     \* 0x08
DATA == 16    \* 0x10
Entry(sel) == gdt[sel \div 8 + 1]

NullDescriptor ==
  [base_low |-> 0, base_mid |-> 0, base_high |-> 0, limit_low |-> 0,
   limit_high_flags |-> 0, access_byte |-> 0]

TableInit ==
  /\ gdt = <<NullDescriptor, NullDescriptor, NullDescriptor>> /\ limit = -1
  /\ seg = [r \in {"cs", "ds", "es", "fs", "gs", "ss"} |-> -1]
  /\ idt = [v \in {} |-> 0] /\ pc = "code"

-----------------------------------------------------------------------------
(* GDT_PRESENT, the ring, GDT_SEGMENT, GDT_EXECUTABLE, GDT_READABLE.        *)
create_access_byte(is_executable, is_readable_writable, dpl) ==
  128 + Bits(dpl, 0, 2) * 32 + 16
  + (IF is_executable THEN 8 ELSE 0) + (IF is_readable_writable THEN 2 ELSE 0)

create_descriptor(base, lim, access_byte, flags) ==
  [base_low |-> Bits(base, 0, 16), base_mid |-> Bits(base, 16, 8),
   base_high |-> Bits(base, 24, 8), limit_low |-> Bits(lim, 0, 16),
   limit_high_flags |-> Bits(lim, 16, 4) + 16 * Bits(flags, 4, 4),
   access_byte |-> access_byte]

gdt_code ==
  /\ pc = "code" /\ pc' = "data"
  /\ gdt' = [gdt EXCEPT ![2] = create_descriptor(0, 1048575, create_access_byte(TRUE, TRUE, 0), 207)]
  /\ UNCHANGED <<limit, seg, idt>>

gdt_data ==
  /\ pc = "data" /\ pc' = "lgdt"
  /\ gdt' = [gdt EXCEPT ![3] = create_descriptor(0, 1048575, create_access_byte(FALSE, TRUE, 0), 207)]
  /\ UNCHANGED <<limit, seg, idt>>

(* Mutant: the table ends before the data descriptor.                       *)
table_limit_Short == 8 * 2 - 1

table_limit == 8 * 3 - 1

load_gdt_asm ==
  /\ pc = "lgdt" /\ pc' = "segments" /\ limit' = table_limit
  /\ UNCHANGED <<gdt, seg, idt>>

DataSegments == <<"ds", "es", "fs", "gs", "ss">>

load_segment ==
  /\ pc = "segments"
  /\ \E i \in 1 .. Len(DataSegments) :
       /\ seg[DataSegments[i]] = -1 /\ \A j \in 1 .. i - 1 : seg[DataSegments[j]] # -1
       /\ seg' = [seg EXCEPT ![DataSegments[i]] = DATA]
  /\ UNCHANGED <<gdt, limit, idt, pc>>

reload_cs ==
  /\ pc = "segments" /\ seg["ss"] # -1
  /\ seg' = [seg EXCEPT !["cs"] = CODE] /\ pc' = "idt"
  /\ UNCHANGED <<gdt, limit, idt>>

create_idt_descriptor(offset, selector, type_attr) ==
  [offset_low |-> Bits(offset, 0, 16), offset_high |-> Bits(offset, 16, 16),
   selector |-> selector, zero |-> 0, type_attr |-> type_attr]

(* The lines of idt_init.inc, in the order of the vectors, with             *)
(* IDT_PRESENT | IDT_INTERRUPT; idt_set_handler does the same for one.      *)
idt_init ==
  /\ pc = "idt"
  /\ \E v \in Vectors \ DOMAIN idt :
       /\ \A u \in Vectors \ DOMAIN idt : v <= u
       /\ idt' = [u \in DOMAIN idt \cup {v} |->
                    IF u = v THEN create_idt_descriptor(StubAddress[v], CODE, 128 + 14)
                             ELSE idt[u]]
  /\ UNCHANGED <<gdt, limit, seg, pc>>

(* load_idt has been called and interrupts are on.                          *)
TablesReady == pc = "idt" /\ DOMAIN idt = Vectors

TableNext ==
  \/ gdt_code \/ gdt_data \/ load_gdt_asm \/ load_segment \/ reload_cs \/ idt_init

-----------------------------------------------------------------------------
(* The CPU: a present segment of ring 0 inside the table, executable or     *)
(* writable, from address 0 to the end of memory in units of 4 KB.          *)
Flat(sel, executable) ==
  LET d == Entry(sel)
  IN  /\ sel % 8 = 0 /\ sel > 0 /\ sel + 7 <= limit
      /\ Bits(d.access_byte, 7, 1) = 1 /\ Bits(d.access_byte, 5, 2) = 0
      /\ Bits(d.access_byte, 4, 1) = 1 /\ Bits(d.access_byte, 1, 1) = 1
      /\ Bits(d.access_byte, 3, 1) = (IF executable THEN 1 ELSE 0)
      /\ d.base_low + d.base_mid + d.base_high = 0
      /\ d.limit_low + Bits(d.limit_high_flags, 0, 4) * 2^16 = 2^20 - 1
      /\ Bits(d.limit_high_flags, 6, 2) = 3

(* The CPU: the address a gate leads to.                                    *)
GateOffset(gate) == gate.offset_high * 2^16 + gate.offset_low

(* The CPU makes of the tables what was meant.  Every selector in a segment *)
(* register names a descriptor of its kind that spans all of memory, so no  *)
(* load faults and addresses are what they seem.  An interrupt through a    *)
(* gate runs the very stub the gate was set for, in the kernel's code       *)
(* segment and with interrupts off.                                         *)
TablesFaithful ==
  /\ \A r \in DOMAIN seg : seg[r] # -1 => Flat(seg[r], r = "cs")
  /\ \A v \in DOMAIN idt :
       /\ idt[v].type_attr = 142 /\ idt[v].zero = 0
       /\ Flat(idt[v].selector, TRUE) /\ idt[v].selector = seg["cs"]
       /\ GateOffset(idt[v]) = StubAddress[v]
=============================================================================
