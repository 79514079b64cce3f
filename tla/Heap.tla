-------------------------------- MODULE Heap --------------------------------
(***************************************************************************)
(* The kernel heap (memory.c).  The free list is kept in address order by  *)
(* deallocate and never reordered, so it is the set of its segments, and   *)
(* a walk along the list meets them by increasing address.  Headers live   *)
(* in the managed memory itself: the model records when a write destroys   *)
(* bytes that belong to somebody else and stops there.  Addresses and      *)
(* sizes are 32 bits in the code; the one size that can wrap around, that  *)
(* of the initial segment, is kept here as the negative number it is       *)
(* modulo 2^32, so that segment_end is the same address in both.           *)
(***************************************************************************)
EXTENDS Integers, Sequences

CONSTANTS
  Maps,       \* memory maps the boot loader may pass: lists of regions
  Kernels,    \* possible values of reserved_end
  HEAP_SIZE,  \* the least length of a region worth using
  Requests,   \* sizes the clients ask for
  Alignments, \* alignments they ask for (malloc: 8)
  MaxCalls    \* bound: calls of allocate and deallocate together

SIZEOF_FREE == 8   \* FreeSegment: size and next_segment
SIZEOF_USED == 4   \* UsedSegment: size

ASSUME MapsAssumption ==
  Maps \subseteq Seq([base : Nat, length : Nat, type : Nat])
ASSUME HeapAssumption ==
  /\ Kernels \subseteq Nat /\ HEAP_SIZE \in Nat \ {0}
  /\ Requests \subseteq Nat \ {0} /\ Alignments \subseteq Nat \ {0}
  /\ MaxCalls \in Nat

(* The code rounds with & ~(alignment - 1), which is rounding for powers of *)
(* two (malloc, its only caller, passes 8).                                 *)
ASSUME AlignmentAssumption == Alignments \subseteq {2 ^ k : k \in 0 .. 30}

(* No request is as large as the address the kernel ends at, which is above *)
(* one megabyte, so segment_end - size stays an address.                    *)
ASSUME RequestAssumption ==
  \A reserved_end \in Kernels, size \in Requests, alignment \in Alignments :
    size + alignment + SIZEOF_USED <= reserved_end

VARIABLES
  booted,  \* init_allocator has run
  region,  \* history: the region it chose, reserved_end in it
  free,    \* the free list: segments [addr, size]
  live,    \* blocks handed out: header address, stored size, pointer, request
  intact,  \* no write has hit bytes of another owner
  calls    \* calls made so far

vars == <<booted, region, free, live, intact, calls>>

align_down(x, a) == x - (x % a)

(* Mutant: rounds towards the kernel.                                       *)
align_up_Down(x, a) == align_down(x, a)

align_up(x, a) == align_down(x + a - 1, a)

SegEnd(s) == s.addr + SIZEOF_FREE + s.size
Span(from, to) == from .. to - 1

(* Bytes whose value matters to an owner: the headers of the free list, and *)
(* headers and payloads of blocks.                                          *)
FreeOwns(s) == Span(s.addr, s.addr + SIZEOF_FREE)
BlockOwns(b) == Span(b.addr, b.addr + SIZEOF_USED) \cup Span(b.ptr, b.ptr + b.req)

Harmless(W, otherFree, otherLive) ==
  /\ \A s \in otherFree : W \cap FreeOwns(s) = {}
  /\ \A b \in otherLive : W \cap BlockOwns(b) = {}

NoRegion == [base |-> 0, length |-> 0, reserved |-> 0]

Init ==
  /\ booted = FALSE /\ region = NoRegion
  /\ free = {} /\ live = {} /\ intact = TRUE /\ calls = 0

-----------------------------------------------------------------------------
(* The region init_allocator settles on: of the usable ones (type 1, at     *)
(* least HEAP_SIZE long), the first among the longest.                      *)
Usable(m) == {i \in 1 .. Len(m) : m[i].type = 1 /\ m[i].length >= HEAP_SIZE}
Largest(m) == {i \in Usable(m) : \A j \in Usable(m) :
                 m[j].length < m[i].length \/ (m[j].length = m[i].length /\ i <= j)}

Contains(r, address) == r.base <= address /\ address < r.base + r.length

(* init_allocator gives up without a usable region, and when the largest    *)
(* does not hold the end of the kernel, even if another one does.  Nothing  *)
(* tests that the list header fits between the kernel and the end of the    *)
(* region: where it does not, the size wraps around.                        *)
init_allocator ==
  /\ ~ booted /\ booted' = TRUE
  /\ \E m \in Maps, reserved_end \in Kernels :
       \/ /\ \A i \in Largest(m) : ~ Contains(m[i], reserved_end)
          /\ UNCHANGED <<region, free>>
       \/ \E i \in Largest(m) :
            /\ Contains(m[i], reserved_end)
            /\ region' = [base |-> m[i].base, length |-> m[i].length, reserved |-> reserved_end]
            /\ LET heap_start == align_up(reserved_end, 8)
               IN  free' = {[addr |-> heap_start,
                             size |-> m[i].length - (heap_start - m[i].base) - SIZEOF_FREE]}
  /\ UNCHANGED <<live, intact, calls>>

-----------------------------------------------------------------------------
(* allocate carves the block off the end of a segment.                      *)

(* Mutant: the pointer is not aligned.                                      *)
DataPtr_Unaligned(s, size, alignment) == SegEnd(s) - size

DataPtr(s, size, alignment) == align_down(SegEnd(s) - size, alignment)
HeaderPtr(s, size, alignment) == DataPtr(s, size, alignment) - SIZEOF_USED

(* Mutant: only the size is compared; a wrapped one, unsigned, is huge.     *)
Fits_SizeOnly(s, size, alignment) ==
  s.size < 0 \/ SegEnd(s) - HeaderPtr(s, size, alignment) <= s.size

(* header_ptr >= data_start.  The test that follows it, full_alloc_size <=  *)
(* current->size, adds nothing: both say that the header lies behind        *)
(* data_start, and a wrapped size, which passes it, fails the first.        *)
Fits(s, size, alignment) == HeaderPtr(s, size, alignment) >= s.addr + SIZEOF_FREE

(* Mutant: total_size, without the slack that alignment leaves.             *)
full_alloc_size_NoSlack(s, size, alignment) == SIZEOF_USED + size

full_alloc_size(s, size, alignment) == SegEnd(s) - HeaderPtr(s, size, alignment)

(* allocate, when some segment is large enough (otherwise, and for size 0,  *)
(* it returns NULL and changes nothing).                                    *)
allocate(size, alignment) ==
  \E s \in free :
    /\ Fits(s, size, alignment)
    /\ \A t \in free : Fits(t, size, alignment) => s.addr <= t.addr
    /\ LET header == HeaderPtr(s, size, alignment)
           full   == full_alloc_size(s, size, alignment)
           block  == [addr |-> header, size |-> full, req |-> size,
                      ptr |-> DataPtr(s, size, alignment), align |-> alignment]
       IN  /\ live' = live \cup {block}
           /\ free' = (free \ {s}) \cup
                      (IF s.size = full THEN {} ELSE {[s EXCEPT !.size = @ - full]})
           /\ intact' = Harmless(Span(header, header + SIZEOF_USED), free \ {s}, live)
    /\ UNCHANGED <<booted, region>>

Call == intact /\ calls < MaxCalls /\ calls' = calls + 1

Allocate ==
  /\ Call
  /\ \E size \in Requests, alignment \in Alignments : allocate(size, alignment)

-----------------------------------------------------------------------------
(* Mutant: forgets the header of the first segment.                         *)
segments_adjacent_NoHeader(first, second) == second.addr = first.addr + first.size

segments_adjacent(first, second) == second.addr = SegEnd(first)

(* The segment deallocate makes of a block: the code subtracts the size of  *)
(* a block header where a list header is about to be written.               *)
Freed(b) == [addr |-> b.addr, size |-> b.size - SIZEOF_USED]

(* Mutant: forgets the header of the second segment.                        *)
Absorb_NoHeader(first, second) == [first EXCEPT !.size = @ + second.size]

Absorb(first, second) == [first EXCEPT !.size = @ + SIZEOF_FREE + second.size]

(* The neighbours of an address on the list, as sets of at most one.        *)
Following(a) == {s \in free : s.addr >= a /\ \A t \in free : t.addr >= a => s.addr <= t.addr}
Preceding(a) == {s \in free : s.addr < a /\ \A t \in free : t.addr < a => t.addr <= s.addr}

deallocate(b) ==
  LET freed == Freed(b)
      next  == {s \in Following(b.addr) : segments_adjacent(freed, s)}
      grown == IF next = {} THEN freed ELSE Absorb(freed, CHOOSE s \in next : TRUE)
      prev  == {s \in Preceding(b.addr) : segments_adjacent(s, grown)}
      final == IF prev = {} THEN grown ELSE Absorb(CHOOSE s \in prev : TRUE, grown)
  IN  /\ free' = (free \ (next \cup prev)) \cup {final}
      /\ live' = live \ {b}
      /\ intact' = Harmless(Span(b.addr, b.addr + SIZEOF_FREE), free, live \ {b})
      /\ UNCHANGED <<booted, region>>

Deallocate == Call /\ \E b \in live : deallocate(b)

(* A client uses the bytes it was given.                                    *)
ClientWrite ==
  /\ intact
  /\ \E b \in live :
       intact' = Harmless(Span(b.ptr, b.ptr + b.req), free, live \ {b})
  /\ UNCHANGED <<booted, region, free, live, calls>>

Next == init_allocator \/ Allocate \/ Deallocate \/ ClientWrite

Spec == Init /\ [][Next]_vars

-----------------------------------------------------------------------------
(* Segments and blocks are made of numbers.                                 *)
TypeOK ==
  /\ booted \in BOOLEAN /\ intact \in BOOLEAN /\ calls \in 0 .. MaxCalls
  /\ region \in [base : Nat, length : Nat, reserved : Nat]
  /\ \A s \in free : s \in [addr : Nat, size : Int]
  /\ \A b \in live : b \in [addr : Nat, size : Nat, req : Nat, ptr : Nat, align : Nat]

FreeBytes(s) == Span(s.addr, SegEnd(s))
BlockBytes(b) == Span(b.addr, b.addr + b.size)

(* No byte is claimed twice, by segments or by blocks.                      *)
Disjoint ==
  /\ \A s, t \in free : s # t => FreeBytes(s) \cap FreeBytes(t) = {}
  /\ \A b, c \in live : b # c => BlockBytes(b) \cap BlockBytes(c) = {}
  /\ \A s \in free, b \in live : FreeBytes(s) \cap BlockBytes(b) = {}

(* allocate takes what it hands out away from the free list: if no byte was *)
(* claimed twice before the call, none is after it.                         *)
AllocatePreserves == [][Allocate /\ Disjoint => Disjoint']_vars

(* Every block is laid out as the caller was promised: an aligned pointer   *)
(* right behind the header and the whole request inside the block.          *)
BlockLayout ==
  \A b \in live :
    /\ b.ptr % b.align = 0
    /\ b.ptr = b.addr + SIZEOF_USED
    /\ b.ptr + b.req <= b.addr + b.size

(* deallocate loses nothing: every byte that was free, and every byte of    *)
(* the block, is covered by the free list afterwards, through both merges.  *)
FreeReturnsAll ==
  [][\A b \in live :
       Deallocate /\ live' = live \ {b} =>
         \A x \in BlockBytes(b) \cup UNION {FreeBytes(s) : s \in free} :
           \E t \in free' : x \in FreeBytes(t)]_vars

(* No two consecutive segments of the list touch.                           *)
Coalesced ==
  \A s, t \in free :
    (s.addr < t.addr /\ \A u \in free : u.addr <= s.addr \/ t.addr <= u.addr)
      => t.addr # s.addr + SIZEOF_FREE + s.size

(* deallocate leaves no two consecutive segments of which one ends where    *)
(* the other begins, whatever overlaps on the list, as long as it destroys  *)
(* no header; and allocate makes none while no byte is claimed twice.       *)
NeighboursMerged ==
  [][Coalesced /\ ((Deallocate /\ intact') \/ (Allocate /\ Disjoint)) => Coalesced']_vars

(* init_allocator installs one segment, above everything reserved, that     *)
(* ends (in the code's 32-bit arithmetic) where the region it chose ends.   *)
InitialSegment ==
  [][init_allocator =>
       \A s \in free' :
         /\ s.addr >= region'.reserved /\ s.addr % 8 = 0
         /\ SegEnd(s) = region'.base + region'.length]_vars

(* A size wraps around only in init_allocator, and only where the kernel    *)
(* ends in the last bytes of its region; nothing is ever handed out from    *)
(* that segment.  No sequence of calls makes allocate or deallocate compute *)
(* another one (a segment of four gigabytes, to the code).                  *)
WrapOnlyAtBoot ==
  (\E s \in free : s.size < 0) =>
    live = {} /\ region.base + region.length < region.reserved + 15

(* The memory tests of kernel.c write into blocks and expect the blocks to  *)
(* hold their values: no two blocks in use may share a byte.                *)
PayloadsDisjoint == \A b, c \in live : b # c => BlockOwns(b) \cap BlockOwns(c) = {}
=============================================================================
