----------------------------- MODULE HeapProofs -----------------------------
(* Invariants of the heap for every memory map, request and alignment.      *)
EXTENDS Heap, TLAPS

(* Rounding down gives the multiple at or just below.                       *)
LEMMA AlignDown ==
  ASSUME NEW x \in Int, NEW a \in Nat \ {0}
  PROVE  /\ align_down(x, a) \in Int
         /\ align_down(x, a) <= x /\ x < align_down(x, a) + a
         /\ align_down(x, a) % a = 0
<1>1. x % a \in 0 .. a - 1
  OBVIOUS
<1>2. x = a * (x \div a) + (x % a) /\ x \div a \in Int
  OBVIOUS
<1>3. align_down(x, a) = a * (x \div a)
  BY <1>1, <1>2 DEF align_down
<1>4. (a * (x \div a)) % a = 0
  BY <1>2
<1> QED  BY <1>1, <1>3, <1>4 DEF align_down

(* Rounding up to 8 adds at most 7.                                         *)
LEMMA AlignUp8 ==
  ASSUME NEW x \in Nat
  PROVE  /\ align_up(x, 8) \in Nat
         /\ x <= align_up(x, 8) /\ align_up(x, 8) <= x + 7
         /\ align_up(x, 8) % 8 = 0
  BY AlignDown DEF align_up

Segment == [addr : Nat, size : Nat]
Wide == [addr : Nat, size : Int]
Block == [addr : Nat, size : Nat, req : Nat, ptr : Nat, align : Nat]

(* No size has wrapped around; or the initial one has, and is all there is. *)
Sound ==
  \/ \A s \in free : s \in Segment
  \/ /\ live = {} /\ region.base + region.length < region.reserved + 15
     /\ \A s \in free : s.size < 0

(* What deallocate needs of a block: something was asked for, so its stored *)
(* size exceeds the header it subtracts.                                    *)
BootInv == ~ booted => free = {} /\ live = {}
HeapInv == TypeOK /\ BlockLayout /\ (\A b \in live : b.req > 0) /\ Sound /\ BootInv

(* The regions of a memory map are made of numbers.                         *)
LEMMA RegionType ==
  ASSUME NEW m \in Maps, NEW i \in 1 .. Len(m)
  PROVE  m[i].base \in Nat /\ m[i].length \in Nat
<1> DEFINE R == [base : Nat, length : Nat, type : Nat]
<1>1. m \in Seq(R)
  BY MapsAssumption
<1>2. \A r \in R : r.base \in Nat /\ r.length \in Nat
  OBVIOUS
<1> HIDE DEF R
<1> QED  BY <1>1, <1>2

(* The arithmetic of allocate: the block lies behind the header of the      *)
(* segment it is carved from and takes its end.                             *)
LEMMA Carve ==
  ASSUME NEW s \in Segment, NEW size \in Nat \ {0}, NEW a \in Nat \ {0},
         Fits(s, size, a)
  PROVE  /\ HeaderPtr(s, size, a) \in Nat /\ DataPtr(s, size, a) \in Nat
         /\ DataPtr(s, size, a) = HeaderPtr(s, size, a) + SIZEOF_USED
         /\ DataPtr(s, size, a) % a = 0
         /\ DataPtr(s, size, a) + size <= SegEnd(s)
         /\ full_alloc_size(s, size, a) \in Nat
         /\ full_alloc_size(s, size, a) <= s.size
         /\ HeaderPtr(s, size, a) + full_alloc_size(s, size, a) = SegEnd(s)
<1> DEFINE x == SegEnd(s) - size
<1>1. s.addr \in Nat /\ s.size \in Nat
  BY DEF Segment
<1>2. x \in Int /\ SegEnd(s) \in Nat /\ SegEnd(s) = s.addr + 8 + s.size
  BY <1>1 DEF SegEnd, SIZEOF_FREE
<1>3. /\ DataPtr(s, size, a) = align_down(x, a)
      /\ align_down(x, a) \in Int /\ align_down(x, a) <= x /\ align_down(x, a) % a = 0
  BY <1>2, AlignDown DEF DataPtr
<1>4. HeaderPtr(s, size, a) = align_down(x, a) - 4
  BY <1>3 DEF HeaderPtr, SIZEOF_USED
<1>5. align_down(x, a) - 4 >= s.addr + 8
  BY <1>4 DEF Fits, SIZEOF_FREE
<1>6. full_alloc_size(s, size, a) = SegEnd(s) - (align_down(x, a) - 4)
  BY <1>4 DEF full_alloc_size
<1> HIDE DEF x
<1>7. x = SegEnd(s) - size
  BY DEF x
<1> QED  BY <1>1, <1>2, <1>3, <1>4, <1>5, <1>6, <1>7 DEF SIZEOF_USED

(* Nothing fits in a segment whose size has wrapped around.                 *)
LEMMA NoFit ==
  ASSUME NEW s \in Wide, NEW size \in Nat \ {0}, NEW a \in Nat \ {0}, s.size < 0
  PROVE  ~ Fits(s, size, a)
<1> DEFINE x == SegEnd(s) - size
<1>1. s.addr \in Nat /\ s.size \in Int
  BY DEF Wide
<1>2. x \in Int /\ x < s.addr + 8
  BY <1>1 DEF SegEnd, SIZEOF_FREE
<1>3. DataPtr(s, size, a) = align_down(x, a)
  BY DEF DataPtr
<1> HIDE DEF x
<1>4. align_down(x, a) \in Int /\ align_down(x, a) <= x
  BY <1>2, AlignDown
<1> QED  BY <1>1, <1>2, <1>3, <1>4 DEF Fits, HeaderPtr, SIZEOF_USED, SIZEOF_FREE

(* So when allocate or deallocate has something to do, no size has wrapped. *)
LEMMA Whole ==
  ASSUME HeapInv
  PROVE  /\ live # {} => \A s \in free : s \in Segment
         /\ \A size \in Requests, alignment \in Alignments :
              allocate(size, alignment) => \A s \in free : s \in Segment
<1>1. live # {} => \A s \in free : s \in Segment
  BY DEF HeapInv, Sound
<1>2. ASSUME NEW size \in Requests, NEW alignment \in Alignments, allocate(size, alignment)
      PROVE  \A s \in free : s \in Segment
  <2>1. PICK s \in free : Fits(s, size, alignment)
    BY <1>2, Zenon DEF allocate
  <2>2. s \in Wide /\ size \in Nat \ {0} /\ alignment \in Nat \ {0}
    BY HeapAssumption DEF HeapInv, TypeOK, Wide
  <2>3. ~ (s.size < 0)
    BY <2>1, <2>2, NoFit
  <2> QED  BY <2>3 DEF HeapInv, Sound
<1> QED  BY <1>1, <1>2

(* The inductive step of HeapInv.                                           *)
LEMMA HeapStep == HeapInv /\ [Next]_vars => HeapInv'
<1> SUFFICES ASSUME HeapInv, [Next]_vars PROVE HeapInv'
  OBVIOUS
<1>0. /\ \A s \in free : s \in Wide
      /\ \A b \in live : b \in Block /\ b.req > 0
      /\ booted \in BOOLEAN /\ intact \in BOOLEAN /\ calls \in 0 .. MaxCalls
      /\ region \in [base : Nat, length : Nat, reserved : Nat]
  BY DEF HeapInv, TypeOK, Wide, Block
<1>1. CASE init_allocator
  <2> DEFINE Installed ==
               /\ region' \in [base : Nat, length : Nat, reserved : Nat]
               /\ \A s \in free' : s \in Wide
               /\ \/ \A s \in free' : s \in Segment
                  \/ /\ live = {} /\ region'.base + region'.length < region'.reserved + 15
                     /\ \A s \in free' : s.size < 0
  <2>1. Installed
    <3>1. PICK m \in Maps, reserved_end \in Kernels :
            \/ UNCHANGED <<region, free>>
            \/ \E i \in Largest(m) :
                 /\ Contains(m[i], reserved_end)
                 /\ region' = [base |-> m[i].base, length |-> m[i].length,
                               reserved |-> reserved_end]
                 /\ free' = {[addr |-> align_up(reserved_end, 8),
                              size |-> m[i].length - (align_up(reserved_end, 8) - m[i].base)
                                         - SIZEOF_FREE]}
      BY <1>1 DEF init_allocator
    <3>2. CASE UNCHANGED <<region, free>>
      BY <1>0, <3>2 DEF HeapInv, Sound
    <3>3. ASSUME NEW i \in Largest(m),
                 Contains(m[i], reserved_end),
                 region' = [base |-> m[i].base, length |-> m[i].length,
                            reserved |-> reserved_end],
                 free' = {[addr |-> align_up(reserved_end, 8),
                           size |-> m[i].length - (align_up(reserved_end, 8) - m[i].base)
                                      - SIZEOF_FREE]}
          PROVE  Installed
      <4>1. m[i].base \in Nat /\ m[i].length \in Nat
        BY RegionType DEF Largest, Usable
      <4>2. reserved_end \in Nat
        BY HeapAssumption
      <4>3. /\ align_up(reserved_end, 8) \in Nat
            /\ align_up(reserved_end, 8) <= reserved_end + 7
        BY <4>2, AlignUp8
      <4> DEFINE h == align_up(reserved_end, 8)
                 n == m[i].length - (h - m[i].base) - SIZEOF_FREE
      <4>4. free' = {[addr |-> h, size |-> n]}
        BY <3>3
      <4>5. /\ h \in Nat /\ n \in Int
            /\ n \in Nat \/ (n < 0 /\ m[i].base + m[i].length < reserved_end + 15)
        <5> HIDE DEF h
        <5> QED  BY <4>1, <4>2, <4>3 DEF h, SIZEOF_FREE
      <4> HIDE DEF h, n
      <4>6. live = {}
        BY <1>1 DEF init_allocator, HeapInv, BootInv
      <4>7. /\ region' \in [base : Nat, length : Nat, reserved : Nat]
            /\ region'.base + region'.length = m[i].base + m[i].length
            /\ region'.reserved = reserved_end
        BY <3>3, <4>1, <4>2
      <4>8. \A s \in free' : s.addr = h /\ s.size = n /\ s = [addr |-> h, size |-> n]
        BY <4>4
      <4>9. CASE n \in Nat
        BY <4>5, <4>7, <4>8, <4>9 DEF Segment, Wide
      <4>10. CASE n < 0 /\ m[i].base + m[i].length < reserved_end + 15
        BY <4>5, <4>6, <4>7, <4>8, <4>10 DEF Wide
      <4> QED  BY <4>5, <4>9, <4>10
    <3> QED  BY <3>1, <3>2, <3>3
  <2>2. booted' /\ booted' \in BOOLEAN /\ UNCHANGED <<live, intact, calls>>
    BY <1>1 DEF init_allocator
  <2> QED  BY <1>0, <2>1, <2>2 DEF HeapInv, TypeOK, BlockLayout, Sound, BootInv, Wide, Block
<1>2. CASE Allocate
  <2>1. PICK size \in Requests, alignment \in Alignments : allocate(size, alignment)
    BY <1>2 DEF Allocate
  <2>2. size \in Nat \ {0} /\ alignment \in Nat \ {0}
    BY HeapAssumption
  <2> DEFINE block(s) == [addr |-> HeaderPtr(s, size, alignment),
                          size |-> full_alloc_size(s, size, alignment), req |-> size,
                          ptr |-> DataPtr(s, size, alignment), align |-> alignment]
             rest(s) == [s EXCEPT !.size = @ - full_alloc_size(s, size, alignment)]
  <2>3. PICK s \in free :
          /\ Fits(s, size, alignment)
          /\ live' = live \cup {block(s)}
          /\ \A t \in free' : t \in free \/ t = rest(s)
          /\ intact' = Harmless(Span(HeaderPtr(s, size, alignment),
                                     HeaderPtr(s, size, alignment) + SIZEOF_USED),
                                free \ {s}, live)
    BY <2>1, Zenon DEF allocate
  <2>4. UNCHANGED <<booted, region>> /\ calls' \in 0 .. MaxCalls
    BY <1>0, <1>2, <2>1, HeapAssumption DEF Allocate, Call, allocate
  <2>5. booted /\ \A t \in free : t \in Segment
    BY <2>1, <2>3, Whole DEF HeapInv, BootInv
  <2>6. rest(s) \in Segment
    <3>1. full_alloc_size(s, size, alignment) \in Nat
          /\ full_alloc_size(s, size, alignment) <= s.size
      BY <2>2, <2>3, <2>5, Carve
    <3> QED  BY <2>5, <3>1 DEF Segment
  <2>7. /\ block(s) \in Block /\ block(s).req > 0
        /\ block(s).ptr % block(s).align = 0
        /\ block(s).ptr = block(s).addr + SIZEOF_USED
        /\ block(s).ptr + block(s).req <= block(s).addr + block(s).size
    <3>1. /\ HeaderPtr(s, size, alignment) \in Nat /\ DataPtr(s, size, alignment) \in Nat
          /\ DataPtr(s, size, alignment) = HeaderPtr(s, size, alignment) + SIZEOF_USED
          /\ DataPtr(s, size, alignment) % alignment = 0
          /\ full_alloc_size(s, size, alignment) \in Nat
          /\ DataPtr(s, size, alignment) + size
               <= HeaderPtr(s, size, alignment) + full_alloc_size(s, size, alignment)
      BY <2>2, <2>3, <2>5, Carve
    <3> QED  BY <2>2, <3>1 DEF Block
  <2>8. intact' \in BOOLEAN
    BY <2>3 DEF Harmless
  <2> HIDE DEF block, rest
  <2>9. /\ \A t \in free' : t \in Segment
        /\ \A b \in live' : b \in Block /\ b.req > 0
    BY <1>0, <2>3, <2>5, <2>6, <2>7
  <2>10. BlockLayout'
    BY <2>3, <2>7 DEF HeapInv, BlockLayout
  <2> QED
    BY <1>0, <2>4, <2>5, <2>8, <2>9, <2>10
    DEF HeapInv, TypeOK, Sound, BootInv, Segment, Block
<1>3. CASE Deallocate
  <2>1. PICK b \in live : deallocate(b)
    BY <1>3 DEF Deallocate
  <2> DEFINE next == {s \in Following(b.addr) : segments_adjacent(Freed(b), s)}
             grown == IF next = {} THEN Freed(b)
                      ELSE Absorb(Freed(b), CHOOSE s \in next : TRUE)
             prev == {s \in Preceding(b.addr) : segments_adjacent(s, grown)}
             final == IF prev = {} THEN grown
                      ELSE Absorb(CHOOSE s \in prev : TRUE, grown)
  <2>2. /\ free' = (free \ (next \cup prev)) \cup {final}
        /\ live' = live \ {b}
        /\ intact' = Harmless(Span(b.addr, b.addr + SIZEOF_FREE), free, live \ {b})
        /\ UNCHANGED <<booted, region>>
    BY <2>1 DEF deallocate
  <2>3. Freed(b) \in Segment
    <3>1. b \in Block /\ b.req > 0 /\ b.ptr = b.addr + SIZEOF_USED
          /\ b.ptr + b.req <= b.addr + b.size
      BY <1>0 DEF HeapInv, BlockLayout
    <3>2. b.addr \in Nat /\ b.size \in Nat /\ b.size - SIZEOF_USED \in Nat
      BY <3>1 DEF Block, SIZEOF_USED
    <3> QED  BY <3>2 DEF Freed, Segment
  <2>4. \A s, t \in Segment : Absorb(s, t) \in Segment
    BY DEF Absorb, Segment, SIZEOF_FREE
  <2>5. /\ next \subseteq Segment /\ prev \subseteq Segment
        /\ booted /\ \A s \in free : s \in Segment
    BY <2>1, Whole DEF Following, Preceding, HeapInv, BootInv
  <2>6. grown \in Segment
    BY <2>3, <2>4, <2>5
  <2> HIDE DEF grown, next
  <2>7. final \in Segment
    BY <2>4, <2>5, <2>6
  <2>8. calls' \in 0 .. MaxCalls
    BY <1>0, <1>3, HeapAssumption DEF Deallocate, Call
  <2>9. intact' \in BOOLEAN
    BY <2>2 DEF Harmless
  <2> HIDE DEF final, prev
  <2>10. /\ \A t \in free' : t \in Segment
         /\ \A c \in live' : c \in Block /\ c.req > 0
    BY <1>0, <2>2, <2>5, <2>7
  <2>11. BlockLayout'
    BY <2>2 DEF HeapInv, BlockLayout
  <2> QED
    BY <1>0, <2>2, <2>5, <2>8, <2>9, <2>10, <2>11
    DEF HeapInv, TypeOK, Sound, BootInv, Segment, Block
<1>4. CASE ClientWrite
  <2>1. intact' \in BOOLEAN
    BY <1>4 DEF ClientWrite, Harmless
  <2>2. UNCHANGED <<booted, region, free, live, calls>>
    BY <1>4 DEF ClientWrite
  <2> QED  BY <2>1, <2>2 DEF HeapInv, TypeOK, BlockLayout, Sound, BootInv
<1>5. CASE UNCHANGED vars
  BY <1>5 DEF vars, HeapInv, TypeOK, BlockLayout, Sound, BootInv
<1> QED  BY <1>1, <1>2, <1>3, <1>4, <1>5 DEF Next

LEMMA HeapInit == Init => HeapInv
<1> SUFFICES ASSUME Init PROVE HeapInv
  OBVIOUS
<1>1. booted \in BOOLEAN /\ intact \in BOOLEAN
  BY Zenon DEF Init
<1>2. calls \in 0 .. MaxCalls /\ region \in [base : Nat, length : Nat, reserved : Nat]
  BY HeapAssumption DEF Init, NoRegion
<1>3. free = {} /\ live = {}
  BY DEF Init
<1> QED  BY <1>1, <1>2, <1>3 DEF HeapInv, TypeOK, BlockLayout, Sound, BootInv

(* The invariant holds of the whole specification.                          *)
LEMMA HeapInvariant == Spec => []HeapInv
BY HeapInit, HeapStep, PTL DEF Spec

(* Whatever is allocated and freed, in whatever order, no size computed by  *)
(* allocate or deallocate wraps around (to a segment of four gigabytes).    *)
(* The only one that can is the first, on a region whose last bytes hold    *)
(* the end of the kernel, and then malloc returns NULL for ever.            *)
THEOREM HeapTypeCorrect == Spec => [](TypeOK /\ WrapOnlyAtBoot)
<1>1. HeapInv => TypeOK /\ WrapOnlyAtBoot
  BY DEF HeapInv, Sound, WrapOnlyAtBoot, Segment
<1> QED  BY <1>1, HeapInvariant, PTL

(* Every block allocate hands out is aligned as asked, lies right behind    *)
(* its header and holds the whole request, for every size and alignment.    *)
THEOREM LayoutCorrect == Spec => []BlockLayout
<1>1. HeapInv => BlockLayout
  BY DEF HeapInv
<1> QED  BY <1>1, HeapInvariant, PTL

(* Cutting an interval of bytes in two.                                     *)
LEMMA CutInterval ==
  ASSUME NEW p \in Nat, NEW n \in Nat, NEW h \in Nat, NEW f \in Nat,
         f <= n, h + f = p + 8 + n, h >= p + 8
  PROVE  /\ h .. (h + f) - 1 \subseteq p .. (p + 8 + n) - 1
         /\ p .. (p + 8 + (n - f)) - 1 \subseteq p .. (p + 8 + n) - 1
         /\ (p .. (p + 8 + (n - f)) - 1) \cap (h .. (h + f) - 1) = {}
  OBVIOUS

(* What allocate hands out and what it leaves of the segment are separate   *)
(* parts of that segment.                                                   *)
LEMMA CarveBytes ==
  ASSUME NEW s \in Segment, NEW size \in Nat \ {0}, NEW a \in Nat \ {0},
         Fits(s, size, a),
         NEW blk, blk.addr = HeaderPtr(s, size, a), blk.size = full_alloc_size(s, size, a),
         NEW rest, rest.addr = s.addr, rest.size = s.size - full_alloc_size(s, size, a)
  PROVE  /\ BlockBytes(blk) \subseteq FreeBytes(s)
         /\ FreeBytes(rest) \subseteq FreeBytes(s)
         /\ FreeBytes(rest) \cap BlockBytes(blk) = {}
<1> DEFINE h == HeaderPtr(s, size, a)
           f == full_alloc_size(s, size, a)
<1>1. h \in Nat /\ f \in Nat /\ f <= s.size /\ h + f = s.addr + 8 + s.size
  BY Carve DEF SegEnd, SIZEOF_FREE
<1>2. s.addr \in Nat /\ s.size \in Nat
  BY DEF Segment
<1>3. h >= s.addr + 8
  BY DEF Fits, SIZEOF_FREE
<1>4. BlockBytes(blk) = h .. (h + f) - 1
  BY DEF BlockBytes, Span
<1>5. /\ FreeBytes(s) = s.addr .. (s.addr + 8 + s.size) - 1
      /\ FreeBytes(rest) = s.addr .. (s.addr + 8 + (s.size - f)) - 1
  BY DEF FreeBytes, Span, SegEnd, SIZEOF_FREE
<1> HIDE DEF h, f
<1> DEFINE p == s.addr
           n == s.size
<1>6. p \in Nat /\ n \in Nat /\ f <= n /\ h + f = p + 8 + n /\ h >= p + 8
  BY <1>1, <1>2, <1>3
<1>7. /\ BlockBytes(blk) = h .. (h + f) - 1
      /\ FreeBytes(s) = p .. (p + 8 + n) - 1
      /\ FreeBytes(rest) = p .. (p + 8 + (n - f)) - 1
  BY <1>4, <1>5
<1> HIDE DEF p, n
<1>8. /\ h .. (h + f) - 1 \subseteq p .. (p + 8 + n) - 1
      /\ p .. (p + 8 + (n - f)) - 1 \subseteq p .. (p + 8 + n) - 1
      /\ (p .. (p + 8 + (n - f)) - 1) \cap (h .. (h + f) - 1) = {}
  BY <1>1, <1>6, CutInterval
<1> QED  BY <1>7, <1>8, Zenon

(* allocate never hands out a byte that somebody else holds, and never      *)
(* leaves a handed-out byte on the free list, whatever the free list looks  *)
(* like and whatever size and alignment are asked for.                      *)
THEOREM AllocateSafe == Spec => AllocatePreserves
<1>1. ASSUME HeapInv, Allocate, Disjoint PROVE Disjoint'
  <2>1. PICK size \in Requests, alignment \in Alignments : allocate(size, alignment)
    BY <1>1 DEF Allocate
  <2>0. \A s \in free : s \in Segment
    BY <1>1, <2>1, Whole
  <2>2. size \in Nat \ {0} /\ alignment \in Nat \ {0}
    BY HeapAssumption
  <2> DEFINE block(s) == [addr |-> HeaderPtr(s, size, alignment),
                          size |-> full_alloc_size(s, size, alignment), req |-> size,
                          ptr |-> DataPtr(s, size, alignment), align |-> alignment]
             left(s) == [s EXCEPT !.size = @ - full_alloc_size(s, size, alignment)]
  <2>3. PICK s \in free :
          /\ Fits(s, size, alignment)
          /\ live' = live \cup {block(s)}
          /\ free' \subseteq (free \ {s}) \cup {left(s)}
    BY <2>1 DEF allocate
  <2>4. s \in Segment
    BY <2>0
  <2>5. /\ block(s).addr = HeaderPtr(s, size, alignment)
        /\ block(s).size = full_alloc_size(s, size, alignment)
        /\ left(s).addr = s.addr
        /\ left(s).size = s.size - full_alloc_size(s, size, alignment)
    BY <2>4 DEF Segment
  <2> HIDE DEF block, left
  <2>6. /\ BlockBytes(block(s)) \subseteq FreeBytes(s)
        /\ FreeBytes(left(s)) \subseteq FreeBytes(s)
        /\ FreeBytes(left(s)) \cap BlockBytes(block(s)) = {}
    BY <2>2, <2>3, <2>4, <2>5, CarveBytes
  <2>7. /\ \A u, v \in free : u # v => FreeBytes(u) \cap FreeBytes(v) = {}
        /\ \A b, c \in live : b # c => BlockBytes(b) \cap BlockBytes(c) = {}
        /\ \A u \in free, b \in live : FreeBytes(u) \cap BlockBytes(b) = {}
    BY <1>1 DEF Disjoint
  <2>8. \A u, v \in free' : u # v => FreeBytes(u) \cap FreeBytes(v) = {}
    BY <2>3, <2>6, <2>7, Zenon
  <2>9. \A b, c \in live' : b # c => BlockBytes(b) \cap BlockBytes(c) = {}
    BY <2>3, <2>6, <2>7, Zenon
  <2>10. \A u \in free', b \in live' : FreeBytes(u) \cap BlockBytes(b) = {}
    BY <2>3, <2>6, <2>7, Zenon
  <2> QED  BY <2>8, <2>9, <2>10, Zenon DEF Disjoint, FreeBytes, BlockBytes
<1>2. HeapInv /\ [Next]_vars => [Allocate /\ Disjoint => Disjoint']_vars
  BY <1>1
<1> QED  BY <1>2, HeapInvariant, PTL DEF Spec, AllocatePreserves

-----------------------------------------------------------------------------
(* While no header has been destroyed the segments are apart at least in    *)
(* their addresses: bytes may be claimed twice, headers not.                *)
UniqueInv == intact => \A s, t \in free : s.addr = t.addr => s = t
ListInv == HeapInv /\ UniqueInv

(* What deallocate makes of the list around block b: the segments it merges *)
(* and the one that takes their place.                                      *)
Reshaped(b, next, prev, final) ==
  /\ free' = (free \ (next \cup prev)) \cup {final}
  /\ \A s \in Following(b.addr) : s \in next <=> s.addr = b.addr + b.size + 4
  /\ \A s \in Preceding(b.addr) : s \in prev <=> SegEnd(s) = b.addr
  /\ prev = {} => final.addr = b.addr
  /\ next = {} => SegEnd(final) = b.addr + b.size + 4
  /\ \A s \in prev : final.addr = s.addr
  /\ \A s \in next : SegEnd(final) = SegEnd(s)

LEMMA DeallocateShape ==
  ASSUME ListInv, intact, NEW b \in live, deallocate(b)
  PROVE  \E next \in SUBSET Following(b.addr), prev \in SUBSET Preceding(b.addr), final \in Segment :
           Reshaped(b, next, prev, final)
<1> DEFINE next == {s \in Following(b.addr) : segments_adjacent(Freed(b), s)}
           grown == IF next = {} THEN Freed(b)
                    ELSE Absorb(Freed(b), CHOOSE s \in next : TRUE)
           prev == {s \in Preceding(b.addr) : segments_adjacent(s, grown)}
           final == IF prev = {} THEN grown
                    ELSE Absorb(CHOOSE s \in prev : TRUE, grown)
<1>1. free' = (free \ (next \cup prev)) \cup {final}
  BY DEF deallocate
<1>2. /\ \A s \in free : s \in Segment
      /\ b \in Block /\ b.req > 0 /\ b.ptr = b.addr + SIZEOF_USED
      /\ b.ptr + b.req <= b.addr + b.size
      /\ \A s, t \in free : s.addr = t.addr => s = t
  BY Whole DEF ListInv, HeapInv, UniqueInv, TypeOK, BlockLayout, Block
<1>3. b.addr \in Nat /\ b.size \in Nat /\ b.size >= 4
  BY <1>2 DEF Block, SIZEOF_USED
<1>4. /\ Freed(b) \in Segment /\ Freed(b).addr = b.addr
      /\ SegEnd(Freed(b)) = b.addr + b.size + 4
  BY <1>3 DEF Freed, Segment, SegEnd, SIZEOF_USED, SIZEOF_FREE
<1>5. \A s, t \in Segment : /\ Absorb(s, t) \in Segment /\ Absorb(s, t).addr = s.addr
                            /\ t.addr = SegEnd(s) => SegEnd(Absorb(s, t)) = SegEnd(t)
  <2> SUFFICES ASSUME NEW s \in Segment, NEW t \in Segment
               PROVE  /\ Absorb(s, t) \in Segment /\ Absorb(s, t).addr = s.addr
                      /\ t.addr = SegEnd(s) => SegEnd(Absorb(s, t)) = SegEnd(t)
    OBVIOUS
  <2>1. s.addr \in Nat /\ s.size \in Nat /\ t.addr \in Nat /\ t.size \in Nat
    BY DEF Segment
  <2>2. Absorb(s, t) = [addr |-> s.addr, size |-> s.size + 8 + t.size]
    BY DEF Absorb, Segment, SIZEOF_FREE
  <2> QED  BY <2>1, <2>2 DEF Segment, SegEnd, SIZEOF_FREE
<1>6. /\ Following(b.addr) \subseteq free /\ Preceding(b.addr) \subseteq free
      /\ \A s, t \in Following(b.addr) : s.addr <= t.addr
      /\ \A s, t \in Preceding(b.addr) : s.addr <= t.addr
  BY DEF Following, Preceding
<1>7. /\ \A s, t \in Following(b.addr) : s = t
      /\ \A s, t \in Preceding(b.addr) : s = t
  <2>1. ASSUME NEW s \in free, NEW t \in free, s.addr <= t.addr, t.addr <= s.addr
        PROVE  s = t
    <3>1. s.addr \in Nat /\ t.addr \in Nat
      BY <1>2 DEF Segment
    <3>2. s.addr = t.addr
      BY <2>1, <3>1
    <3> QED  BY <1>2, <3>2, Zenon
  <2> QED  BY <1>6, <2>1, Zenon
<1>8. \A s \in Following(b.addr) : s \in next <=> s.addr = b.addr + b.size + 4
  BY <1>4 DEF segments_adjacent
<1>9. /\ grown \in Segment /\ grown.addr = b.addr
      /\ next = {} => SegEnd(grown) = b.addr + b.size + 4
      /\ \A s \in next : SegEnd(grown) = SegEnd(s)
  <2>1. CASE next = {}
    BY <1>4, <2>1
  <2>2. CASE next # {}
    <3> DEFINE n == CHOOSE s \in next : TRUE
    <3>1. n \in next /\ \A s \in next : s = n
      BY <1>7, <2>2
    <3>2. n \in Segment /\ n.addr = SegEnd(Freed(b))
      BY <1>2, <1>6, <3>1 DEF segments_adjacent
    <3>3. grown = Absorb(Freed(b), n)
      BY <2>2
    <3> HIDE DEF grown, n, next
    <3> QED  BY <1>4, <1>5, <2>2, <3>1, <3>2, <3>3
  <2> QED  BY <2>1, <2>2
<1> HIDE DEF next, grown
<1>10. \A s \in Preceding(b.addr) : s \in prev <=> SegEnd(s) = b.addr
  BY <1>9 DEF segments_adjacent
<1>11. /\ final \in Segment /\ SegEnd(final) = SegEnd(grown)
       /\ prev = {} => final.addr = b.addr
       /\ \A s \in prev : final.addr = s.addr
  <2>1. CASE prev = {}
    BY <1>9, <2>1
  <2>2. CASE prev # {}
    <3> DEFINE p == CHOOSE s \in prev : TRUE
    <3>1. p \in prev /\ \A s \in prev : s = p
      BY <1>7, <2>2
    <3>2. p \in Segment /\ grown.addr = SegEnd(p)
      BY <1>2, <1>6, <1>9, <1>10, <3>1
    <3>3. final = Absorb(p, grown)
      BY <2>2
    <3> HIDE DEF final, p, prev
    <3> QED  BY <1>5, <1>9, <2>2, <3>1, <3>2, <3>3
  <2> QED  BY <2>1, <2>2
<1>12. next \in SUBSET Following(b.addr) /\ prev \in SUBSET Preceding(b.addr)
  BY DEF next
<1> HIDE DEF prev, final
<1>13. /\ \A s \in prev : final.addr = s.addr
       /\ \A s \in next : SegEnd(final) = SegEnd(s)
       /\ next = {} => SegEnd(final) = b.addr + b.size + 4
  BY <1>9, <1>11, Zenon
<1> USE <1>11, <1>12
<1> WITNESS next \in SUBSET Following(b.addr), prev \in SUBSET Preceding(b.addr), final \in Segment
<1> QED  BY <1>1, <1>8, <1>10, <1>11, <1>13, Zenon DEF Reshaped

(* A header written where a segment begins destroys the one that is there.  *)
LEMMA Unburied ==
  ASSUME NEW a \in Nat, NEW L,
         Harmless(Span(a, a + SIZEOF_FREE), free, L), NEW s \in free
  PROVE  s.addr # a
<1> SUFFICES ASSUME s.addr = a PROVE FALSE
  OBVIOUS
<1>1. Span(a, a + SIZEOF_FREE) \cap FreeOwns(s) = {}
  BY DEF Harmless
<1>2. a \in Span(a, a + SIZEOF_FREE) /\ FreeOwns(s) = Span(a, a + SIZEOF_FREE)
  BY DEF FreeOwns, Span, SIZEOF_FREE
<1> QED  BY <1>1, <1>2, Zenon

LEMMA UniqueStep == ListInv /\ [Next]_vars => UniqueInv'
<1> SUFFICES ASSUME ListInv, [Next]_vars PROVE UniqueInv'
  OBVIOUS
<1>0. /\ \A s \in free : s \in Wide /\ s.addr \in Nat
      /\ \A b \in live : b.addr \in Nat
  BY DEF ListInv, HeapInv, TypeOK, Wide
<1>1. CASE init_allocator
  <2>1. \A s, t \in free' : s = t
    BY <1>1 DEF init_allocator, ListInv, HeapInv, BootInv
  <2> QED  BY <2>1 DEF UniqueInv
<1>2. CASE Allocate
  <2>1. PICK size \in Requests, alignment \in Alignments : allocate(size, alignment)
    BY <1>2 DEF Allocate
  <2>2. PICK s \in free :
          \A t \in free' : t \in free \ {s} \/ t = [s EXCEPT !.size = @ - full_alloc_size(s, size, alignment)]
    BY <2>1 DEF allocate
  <2>3. [s EXCEPT !.size = @ - full_alloc_size(s, size, alignment)].addr = s.addr
    BY <1>0 DEF Wide
  <2>4. intact
    BY <1>2 DEF Allocate, Call
  <2> DEFINE left == [s EXCEPT !.size = @ - full_alloc_size(s, size, alignment)]
  <2> HIDE DEF left
  <2>5. \A t \in free' : t \in free \ {s} \/ t = left
    BY <2>2 DEF left
  <2>6. left.addr = s.addr
    BY <2>3 DEF left
  <2>7. \A t, u \in free : t.addr = u.addr => t = u
    BY <2>4 DEF ListInv, UniqueInv
  <2> QED  BY <2>2, <2>4, <2>5, <2>6, <2>7 DEF UniqueInv
<1>3. CASE Deallocate
  <2>1. PICK b \in live : deallocate(b)
    BY <1>3 DEF Deallocate
  <2>2. intact
    BY <1>3 DEF Deallocate, Call
  <2>3. PICK next \in SUBSET Following(b.addr), prev \in SUBSET Preceding(b.addr), final \in Segment :
          Reshaped(b, next, prev, final)
    BY <2>1, <2>2, DeallocateShape
  <2>4. intact' => \A s \in free : s.addr # b.addr
    BY <1>0, <2>1, Unburied DEF deallocate
  <2>5. /\ \A t, u \in free : t.addr = u.addr => t = u
        /\ prev \subseteq free
    BY <2>2 DEF ListInv, UniqueInv, Preceding
  <2>6. intact' => \A s \in free \ (next \cup prev) : s.addr # final.addr
    BY <2>3, <2>4, <2>5 DEF Reshaped
  <2>7. intact' => \A s, t \in free' : s.addr = t.addr => s = t
    BY <2>3, <2>5, <2>6 DEF Reshaped
  <2> QED  BY <2>7 DEF UniqueInv
<1>4. CASE ClientWrite
  BY <1>4 DEF ClientWrite, ListInv, UniqueInv
<1>5. CASE UNCHANGED vars
  BY <1>5 DEF vars, ListInv, UniqueInv
<1> QED  BY <1>1, <1>2, <1>3, <1>4, <1>5 DEF Next

LEMMA ListInvariant == Spec => []ListInv
<1>1. Init => ListInv
  BY HeapInit DEF Init, ListInv, UniqueInv
<1>2. ListInv /\ [Next]_vars => ListInv'
  BY HeapStep, UniqueStep DEF ListInv
<1> QED  BY <1>1, <1>2, PTL DEF Spec

(* init_allocator: the initial segment begins at or after the end of the    *)
(* kernel, aligned, and ends where the region does, for every memory map.   *)
THEOREM InitialSafe == Spec => InitialSegment
<1>1. ASSUME ListInv, init_allocator, NEW s \in free'
      PROVE  /\ s.addr >= region'.reserved /\ s.addr % 8 = 0
             /\ SegEnd(s) = region'.base + region'.length
  <2>0. PICK m \in Maps, reserved_end \in Kernels : \E i \in Largest(m) :
          /\ Contains(m[i], reserved_end)
          /\ region' = [base |-> m[i].base, length |-> m[i].length, reserved |-> reserved_end]
          /\ s = [addr |-> align_up(reserved_end, 8),
                  size |-> m[i].length - (align_up(reserved_end, 8) - m[i].base) - SIZEOF_FREE]
    BY <1>1 DEF init_allocator, ListInv, HeapInv, BootInv
  <2>1. PICK i \in Largest(m) :
          /\ Contains(m[i], reserved_end)
          /\ region' = [base |-> m[i].base, length |-> m[i].length, reserved |-> reserved_end]
          /\ s = [addr |-> align_up(reserved_end, 8),
                  size |-> m[i].length - (align_up(reserved_end, 8) - m[i].base) - SIZEOF_FREE]
    BY <2>0
  <2>2. m[i].base \in Nat /\ m[i].length \in Nat /\ reserved_end \in Nat
    BY RegionType, HeapAssumption DEF Largest, Usable
  <2>3. /\ align_up(reserved_end, 8) \in Nat /\ reserved_end <= align_up(reserved_end, 8)
        /\ align_up(reserved_end, 8) % 8 = 0
    BY <2>2, AlignUp8
  <2> DEFINE h == align_up(reserved_end, 8)
  <2>4. h + 8 + (m[i].length - (h - m[i].base) - 8) = m[i].base + m[i].length
    <3> HIDE DEF h
    <3> QED  BY <2>2, <2>3 DEF h
  <2> QED  BY <2>1, <2>2, <2>3, <2>4 DEF SegEnd, SIZEOF_FREE
<1>2. ListInv /\ [Next]_vars =>
        [init_allocator =>
           \A s \in free' :
             /\ s.addr >= region'.reserved /\ s.addr % 8 = 0
             /\ SegEnd(s) = region'.base + region'.length]_vars
  BY <1>1
<1> QED  BY <1>2, ListInvariant, PTL DEF Spec, InitialSegment

(* deallocate loses no byte, neither of the block nor of what was free, in  *)
(* whatever order blocks are freed and whatever it merges.                  *)
THEOREM FreeSafe == Spec => FreeReturnsAll
<1>1. ASSUME ListInv, Deallocate, NEW b \in live, live' = live \ {b},
             NEW x \in BlockBytes(b) \cup UNION {FreeBytes(s) : s \in free}
      PROVE  \E t \in free' : x \in FreeBytes(t)
  <2>1. deallocate(b) /\ intact
    <3>1. PICK c \in live : deallocate(c)
      BY <1>1 DEF Deallocate
    <3>2. live' = live \ {c}
      BY <3>1 DEF deallocate
    <3>3. c = b
      BY <1>1, <3>2
    <3> QED  BY <1>1, <3>1, <3>3 DEF Deallocate, Call
  <2>2. PICK next \in SUBSET Following(b.addr), prev \in SUBSET Preceding(b.addr), final \in Segment :
          Reshaped(b, next, prev, final)
    BY <1>1, <2>1, DeallocateShape
  <2>3. /\ \A s \in free : s.addr \in Nat /\ s.size \in Nat
        /\ b.addr \in Nat /\ b.size \in Nat /\ final.addr \in Nat /\ final.size \in Nat
    BY <1>1, Whole DEF ListInv, HeapInv, TypeOK, Segment
  <2>4. \A s \in free : SegEnd(s) \in Nat /\ s.addr < SegEnd(s)
    BY <2>3 DEF SegEnd, SIZEOF_FREE
  <2>5. SegEnd(final) \in Nat
    BY <2>3 DEF SegEnd, SIZEOF_FREE
  <2>6. /\ next \subseteq free /\ prev \subseteq free /\ \A s \in next : s.addr >= b.addr
        /\ \A s \in prev : s.addr < b.addr
        /\ \A s \in next : s.addr = b.addr + b.size + 4
        /\ \A s \in prev : SegEnd(s) = b.addr
    BY <2>2 DEF Following, Preceding, Reshaped
  <2>7. final.addr <= b.addr
    <3>1. CASE prev = {}
      BY <2>2, <2>3, <3>1 DEF Reshaped
    <3>2. ASSUME NEW s \in prev PROVE final.addr <= b.addr
      BY <2>2, <2>3, <2>6 DEF Reshaped
    <3> QED  BY <3>1, <3>2
  <2>8. SegEnd(final) >= b.addr + b.size
    <3>1. CASE next = {}
      BY <2>2, <2>3, <3>1 DEF Reshaped
    <3>2. ASSUME NEW s \in next PROVE SegEnd(final) >= b.addr + b.size
      BY <2>2, <2>3, <2>4, <2>6 DEF Reshaped
    <3> QED  BY <3>1, <3>2
  <2>9. final \in free' /\ FreeBytes(final) = final.addr .. SegEnd(final) - 1
    BY <2>2 DEF Reshaped, FreeBytes, Span
  <2>10. CASE x \in BlockBytes(b)
    <3>1. x \in Int /\ b.addr <= x /\ x < b.addr + b.size
      BY <2>3, <2>10 DEF BlockBytes, Span
    <3> QED  BY <2>3, <2>5, <2>7, <2>8, <2>9, <3>1
  <2>11. ASSUME NEW s \in free, x \in FreeBytes(s)
         PROVE  \E t \in free' : x \in FreeBytes(t)
    <3>1. x \in Int /\ s.addr <= x /\ x < SegEnd(s)
      BY <2>3, <2>4, <2>11 DEF FreeBytes, Span
    <3>2. CASE s \notin next \cup prev
      BY <2>2, <2>11, <3>2 DEF Reshaped
    <3>3. CASE s \in next
      <4>1. SegEnd(final) = SegEnd(s) /\ final.addr <= s.addr
        BY <2>2, <2>3, <2>6, <2>7, <3>3 DEF Reshaped
      <4> QED  BY <2>3, <2>5, <2>9, <3>1, <4>1
    <3>4. CASE s \in prev
      <4>1. final.addr = s.addr /\ SegEnd(s) <= SegEnd(final)
        BY <2>2, <2>3, <2>5, <2>6, <2>8, <3>4 DEF Reshaped
      <4> QED  BY <2>3, <2>4, <2>5, <2>9, <3>1, <4>1
    <3> QED  BY <3>2, <3>3, <3>4
  <2> QED  BY <2>10, <2>11
<1>2. ListInv /\ [Next]_vars =>
        [\A b \in live :
           Deallocate /\ live' = live \ {b} =>
             \A x \in BlockBytes(b) \cup UNION {FreeBytes(s) : s \in free} :
               \E t \in free' : x \in FreeBytes(t)]_vars
  BY <1>1
<1> QED  BY <1>2, ListInvariant, PTL DEF Spec, FreeReturnsAll

(* Taking a segment's tail, or the whole of it, brings no two others        *)
(* together, unless they overlapped what was taken.                         *)
LEMMA AllocateApart ==
  ASSUME ListInv, intact, Disjoint, Coalesced, NEW size \in Requests, NEW alignment \in Alignments,
         allocate(size, alignment)
  PROVE  Coalesced'
<1>1. PICK s0 \in free :
        /\ Fits(s0, size, alignment)
        /\ LET full == full_alloc_size(s0, size, alignment)
           IN  free' = (free \ {s0}) \cup
                       (IF s0.size = full THEN {} ELSE {[s0 EXCEPT !.size = @ - full]})
  BY DEF allocate
<1> DEFINE header == HeaderPtr(s0, size, alignment)
           full   == full_alloc_size(s0, size, alignment)
           left   == [s0 EXCEPT !.size = @ - full]
<1>2. /\ \A s \in free : s \in Segment /\ s.addr \in Nat /\ s.size \in Nat
      /\ \A s, t \in free : s.addr = t.addr => s = t
  <2>1. \A s \in free : s \in Segment
    BY Whole DEF ListInv
  <2>2. \A s, t \in free : s.addr = t.addr => s = t
    BY Zenon DEF ListInv, UniqueInv
  <2> QED  BY <2>1, <2>2 DEF Segment
<1>3. /\ \A s \in free : SegEnd(s) \in Nat /\ SegEnd(s) = s.addr + 8 + s.size
  BY <1>2 DEF SegEnd, SIZEOF_FREE
<1>4. /\ header \in Int /\ header >= s0.addr + 8 /\ header < SegEnd(s0)
      /\ full = SegEnd(s0) - header
  <2>1. size \in Nat \ {0} /\ alignment \in Nat \ {0}
    BY HeapAssumption
  <2>2. SegEnd(s0) - size \in Int
    BY <1>3, <2>1
  <2>3. /\ DataPtr(s0, size, alignment) \in Int
        /\ DataPtr(s0, size, alignment) <= SegEnd(s0) - size
    BY <2>1, <2>2, AlignDown DEF DataPtr
  <2> QED  BY <1>1, <1>2, <1>3, <2>1, <2>3 DEF HeaderPtr, Fits, full_alloc_size, SIZEOF_USED, SIZEOF_FREE
<1>5. left.addr = s0.addr /\ left.size = s0.size - full
  BY <1>2 DEF Segment
<1>6. left.addr + 8 + left.size = header
  BY <1>2, <1>3, <1>4, <1>5
<1>7. free' \subseteq (free \ {s0}) \cup {left} /\ free \ {s0} \subseteq free'
  BY <1>1
<1> HIDE DEF header, full, left
<1>8. ASSUME NEW s \in free, NEW t \in free, s # t, NEW x \in Int,
             s.addr <= x, x < SegEnd(s), t.addr <= x, x < SegEnd(t)
      PROVE  FALSE
  <2>1. x \in FreeBytes(s) /\ x \in FreeBytes(t)
    BY <1>2, <1>3, <1>8 DEF FreeBytes, Span
  <2> QED  BY <1>8, <2>1 DEF Disjoint
<1>9. SUFFICES ASSUME NEW s \in free', NEW t \in free', s.addr < t.addr,
                      \A u \in free' : u.addr <= s.addr \/ t.addr <= u.addr,
                      t.addr = s.addr + 8 + s.size
               PROVE  FALSE
  BY DEF Coalesced, SIZEOF_FREE
<1>10. ASSUME NEW v \in free, NEW w \in free, v.addr < w.addr,
              \A u \in free : u.addr <= v.addr \/ w.addr <= u.addr,
              w.addr = v.addr + 8 + v.size
       PROVE  FALSE
  BY <1>10 DEF Coalesced, SIZEOF_FREE
<1>11. CASE s = left /\ t \in free \ {s0}
  <2>1. t.addr = header
    BY <1>6, <1>9, <1>11
  <2> QED  BY <1>2, <1>3, <1>4, <1>8, <1>11, <2>1
<1>12. CASE s \in free \ {s0} /\ t = left
  <2>1. \A u \in free : u.addr <= s.addr \/ s0.addr <= u.addr
    BY <1>2, <1>5, <1>7, <1>9, <1>12
  <2> QED  BY <1>5, <1>9, <1>10, <1>12, <2>1
<1>13. CASE s \in free \ {s0} /\ t \in free \ {s0}
  <2>1. CASE s.addr < s0.addr /\ s0.addr < t.addr
    BY <1>2, <1>3, <1>8, <1>9, <1>13, <2>1
  <2>2. CASE ~ (s.addr < s0.addr /\ s0.addr < t.addr)
    <3>1. \A u \in free : u.addr <= s.addr \/ t.addr <= u.addr
      BY <1>2, <1>7, <1>9, <1>13, <2>2
    <3> QED  BY <1>9, <1>10, <1>13, <3>1
  <2> QED  BY <2>1, <2>2
<1>14. ~ (s = left /\ t = left)
  BY <1>2, <1>5, <1>9
<1> QED  BY <1>7, <1>11, <1>12, <1>13, <1>14

(* A freed block joins the segments it touches on either side, and comes    *)
(* between no two that touch.                                               *)
LEMMA DeallocateJoins ==
  ASSUME ListInv, intact, Coalesced, NEW b \in live, deallocate(b), intact'
  PROVE  Coalesced'
<1>1. PICK next \in SUBSET Following(b.addr), prev \in SUBSET Preceding(b.addr), final \in Segment :
        Reshaped(b, next, prev, final)
  BY DeallocateShape
<1>2. /\ \A s \in free : s.addr \in Nat /\ s.size \in Nat
      /\ \A s, t \in free : s.addr = t.addr => s = t
      /\ b.addr \in Nat /\ b.size \in Nat /\ final.addr \in Nat /\ final.size \in Nat
  BY Whole DEF ListInv, HeapInv, UniqueInv, TypeOK, Segment
<1>3. \A s \in free : s.addr # b.addr
  <2>1. Harmless(Span(b.addr, b.addr + SIZEOF_FREE), free, live \ {b})
    BY Zenon DEF deallocate
  <2> QED  BY <1>2, <2>1, Unburied
<1>4. /\ SegEnd(final) = final.addr + 8 + final.size
      /\ \A s \in free : SegEnd(s) = s.addr + 8 + s.size
  BY DEF SegEnd, SIZEOF_FREE
<1>5. free' = (free \ (next \cup prev)) \cup {final}
  BY <1>1 DEF Reshaped
<1>6. /\ next \subseteq free /\ prev \subseteq free
      /\ \A s \in next : s.addr > b.addr /\ \A u \in free : u.addr > b.addr => s.addr <= u.addr
      /\ \A s \in prev : s.addr < b.addr /\ \A u \in free : u.addr < b.addr => u.addr <= s.addr
  BY <1>2, <1>3 DEF Following, Preceding
<1>7. /\ \A s \in next : s.addr = b.addr + b.size + 4 /\ SegEnd(final) = SegEnd(s)
      /\ \A s \in prev : SegEnd(s) = b.addr /\ final.addr = s.addr
      /\ prev = {} => final.addr = b.addr
      /\ next = {} => SegEnd(final) = b.addr + b.size + 4
  BY <1>1 DEF Reshaped
<1>8. ASSUME NEW s \in free, s.addr > b.addr, \A u \in free : u.addr > b.addr => s.addr <= u.addr,
             s.addr = b.addr + b.size + 4
      PROVE  s \in next
  <2>1. s \in Following(b.addr)
    BY <1>2, <1>3, <1>8 DEF Following
  <2> QED  BY <1>1, <1>8, <2>1 DEF Reshaped
<1>9. ASSUME NEW s \in free, s.addr < b.addr, \A u \in free : u.addr < b.addr => u.addr <= s.addr,
             SegEnd(s) = b.addr
      PROVE  s \in prev
  <2>1. s \in Preceding(b.addr)
    BY <1>2, <1>9 DEF Preceding
  <2> QED  BY <1>1, <1>9, <2>1 DEF Reshaped
<1>10. SUFFICES ASSUME NEW s \in free', NEW t \in free', s.addr < t.addr,
                       \A u \in free' : u.addr <= s.addr \/ t.addr <= u.addr,
                       t.addr = s.addr + 8 + s.size
                PROVE  FALSE
  BY DEF Coalesced, SIZEOF_FREE
<1>11. ASSUME NEW v \in free, NEW w \in free, v.addr < w.addr,
              \A u \in free : u.addr <= v.addr \/ w.addr <= u.addr,
              w.addr = v.addr + 8 + v.size
       PROVE  FALSE
  BY <1>11 DEF Coalesced, SIZEOF_FREE
<1> DEFINE kept == free \ (next \cup prev)
<1>12. \A u \in kept : u.addr <= s.addr \/ t.addr <= u.addr
  BY <1>5, <1>10
<1>13. final.addr <= s.addr \/ t.addr <= final.addr
  BY <1>5, <1>10
<1>14. /\ final.addr <= b.addr
       /\ \A u \in kept : u.addr < b.addr => u.addr < final.addr
       /\ \A u \in kept : final.addr < u.addr => b.addr < u.addr
  <2>1. CASE prev = {}
    BY <1>2, <1>3, <1>7, <2>1
  <2>2. ASSUME NEW p \in prev
        PROVE  /\ final.addr <= b.addr
               /\ \A u \in kept : u.addr < b.addr => u.addr < final.addr
               /\ \A u \in kept : final.addr < u.addr => b.addr < u.addr
    <3>1. p \in free /\ final.addr = p.addr /\ p.addr < b.addr
          /\ \A u \in free : u.addr < b.addr => u.addr <= p.addr
      BY <1>6, <1>7
    <3>2. \A u \in kept : u.addr # p.addr
      BY <1>2, <3>1
    <3> QED  BY <1>2, <1>3, <3>1, <3>2
  <2> QED  BY <2>1, <2>2
<1>15. CASE s = final /\ t \in kept
  <2>1. b.addr < t.addr
    BY <1>10, <1>14, <1>15
  <2>2. CASE next = {}
    <3>1. t.addr = b.addr + b.size + 4
      BY <1>4, <1>7, <1>10, <1>15, <2>2
    <3>2. \A u \in free : u.addr > b.addr => t.addr <= u.addr
      BY <1>2, <1>6, <1>12, <1>14, <1>15, <2>2
    <3> QED  BY <1>8, <1>15, <2>1, <3>1, <3>2
  <2>3. ASSUME NEW n \in next PROVE FALSE
    <3>1. n \in free /\ t.addr = n.addr + 8 + n.size
      BY <1>4, <1>6, <1>7, <1>10, <1>15
    <3>2. n.addr < t.addr
      BY <1>2, <3>1
    <3>3. \A u \in free : u.addr <= n.addr \/ t.addr <= u.addr
      <4> SUFFICES ASSUME NEW u \in free, n.addr < u.addr PROVE t.addr <= u.addr
        BY <1>2, <1>6, <1>15
      <4>1. u \in kept
        BY <1>2, <1>6
      <4>2. ~ (u.addr <= final.addr)
        BY <1>2, <1>6, <1>14
      <4> QED  BY <1>12, <1>15, <4>1, <4>2
    <3> QED  BY <1>11, <1>15, <3>1, <3>2, <3>3
  <2> QED  BY <2>2, <2>3
<1>16. CASE s \in kept /\ t = final
  <2>1. s.addr < b.addr
    BY <1>2, <1>10, <1>14, <1>16
  <2>2. CASE prev = {}
    <3>1. SegEnd(s) = b.addr
      BY <1>4, <1>7, <1>10, <1>16, <2>2
    <3>2. \A u \in free : u.addr < b.addr => u.addr <= s.addr
      <4> SUFFICES ASSUME NEW u \in free, u.addr < b.addr PROVE u.addr <= s.addr
        OBVIOUS
      <4>1. u \in kept
        BY <1>2, <1>6, <2>2
      <4> QED  BY <1>2, <1>7, <1>12, <1>16, <2>2, <4>1
    <3> QED  BY <1>9, <1>16, <2>1, <3>1, <3>2
  <2>3. ASSUME NEW p \in prev PROVE FALSE
    <3>1. p \in free /\ p.addr = final.addr /\ p.addr < b.addr
      BY <1>6, <1>7
    <3>2. \A u \in free : u.addr <= s.addr \/ p.addr <= u.addr
      <4> SUFFICES ASSUME NEW u \in free, u.addr < p.addr PROVE u.addr <= s.addr
        BY <1>2, <1>16, <3>1
      <4>1. u \in kept
        BY <1>2, <1>6, <3>1
      <4> QED  BY <1>2, <1>12, <1>16, <3>1, <4>1
    <3> QED  BY <1>10, <1>11, <1>16, <3>1, <3>2
  <2> QED  BY <2>2, <2>3
<1>17. CASE s \in kept /\ t \in kept
  <2>1. PICK u \in free : s.addr < u.addr /\ u.addr < t.addr
    BY <1>2, <1>10, <1>11, <1>17
  <2>2. u \in next \cup prev
    BY <1>2, <1>12, <1>17, <2>1
  <2>3. CASE u \in prev
    BY <1>2, <1>7, <1>13, <1>17, <2>1, <2>3
  <2>4. CASE u \in next
    <3>1. t.addr > b.addr
      BY <1>2, <1>6, <1>17, <2>1, <2>4
    <3>2. s.addr < b.addr
      BY <1>2, <1>3, <1>6, <1>17, <2>1, <2>4
    <3>3. s.addr < final.addr /\ final.addr < t.addr
      BY <1>2, <1>14, <1>17, <3>1, <3>2
    <3> QED  BY <1>2, <1>13, <1>17, <3>3
  <2> QED  BY <2>2, <2>3, <2>4
<1>18. ~ (s = final /\ t = final)
  BY <1>2, <1>10
<1> QED  BY <1>5, <1>15, <1>16, <1>17, <1>18

(* Calls keep consecutive segments of the list apart: deallocate whenever   *)
(* it destroys no header, allocate whenever no byte is claimed twice.       *)
THEOREM MergeSafe == Spec => NeighboursMerged
<1>1. ASSUME ListInv, Coalesced, (Deallocate /\ intact') \/ (Allocate /\ Disjoint)
      PROVE  Coalesced'
  <2>1. CASE Deallocate /\ intact'
    <3>1. intact /\ \E b \in live : deallocate(b)
      BY <2>1, Zenon DEF Deallocate, Call
    <3> QED  BY <1>1, <2>1, <3>1, DeallocateJoins
  <2>2. CASE Allocate /\ Disjoint
    <3>1. intact /\ \E size \in Requests, alignment \in Alignments : allocate(size, alignment)
      BY <2>2, Zenon DEF Allocate, Call
    <3> QED  BY <1>1, <2>2, <3>1, AllocateApart
  <2> QED  BY <1>1, <2>1, <2>2
<1>2. ListInv /\ [Next]_vars =>
        [Coalesced /\ ((Deallocate /\ intact') \/ (Allocate /\ Disjoint)) => Coalesced']_vars
  BY <1>1, Zenon
<1> QED  BY <1>2, ListInvariant, PTL DEF Spec, NeighboursMerged

=============================================================================
