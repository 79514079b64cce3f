------------------------------ MODULE FreeList ------------------------------
(***************************************************************************)
(* The free list of memory.c as it is: list headers in memory linked by    *)
(* next_segment, walked and edited by the main thread with interrupts on.  *)
(* A call is cut at every step of a walk and, in allocate, between the     *)
(* test of a segment and its update, in deallocate, between linking and    *)
(* each merge; the stores of one update are one step.  The RTC handler     *)
(* frees wake-up entries (rtc.c:80) and edits the same list.  free and     *)
(* live, from Heap, are what the list and the blocks in use were when the  *)
(* last call returned.                                                     *)
(***************************************************************************)
EXTENDS Heap, FiniteSets, TLC

CONSTANT Preempt   \* the handler may free while the main thread is in a call

VARIABLES
  list,     \* [first: first_free, node: list headers by address]
  pc,       \* where the main thread is: "idle", or in malloc or free
  size,     \* malloc: its argument
  block,    \* the block malloc is about to return, or free was given
  prev, current

listVars == <<vars, list, pc, size, block, prev, current>>
locals == <<size, block, prev, current>>

NULL == -1
NoBlock == [addr |-> NULL, size |-> 0, req |-> 0, ptr |-> 0, align |-> 0]

Header(n, next) == [size |-> n, next |-> next]
SegmentAt(l, a) == [addr |-> a, size |-> l.node[a].size]

(* The segments on the list.                                                *)
Segments(l) ==
  LET reach[n \in Nat] ==
        IF n = 0 THEN {l.first} \ {NULL}
        ELSE LET before == reach[n - 1]
             IN  before \cup ({l.node[a].next : a \in before} \ {NULL})
  IN  {SegmentAt(l, a) : a \in reach[Cardinality(DOMAIN l.node)]}

ListInit ==
  /\ Init
  /\ list = [first |-> NULL, node |-> <<>>]
  /\ pc = "idle" /\ size = 0 /\ block = NoBlock /\ prev = NULL /\ current = NULL

boot ==
  /\ init_allocator
  /\ list' = IF free' = {} THEN list
             ELSE LET s == CHOOSE s \in free' : TRUE
                  IN  [first |-> s.addr, node |-> s.addr :> Header(s.size, NULL)]
  /\ UNCHANGED <<pc, locals>>

-----------------------------------------------------------------------------
SetNode(l, a, h) == [l EXCEPT !.node = (a :> h) @@ @]
SetSize(l, a, n) == [l EXCEPT !.node[a].size = n]
SetNext(l, a, next) == IF a = NULL THEN [l EXCEPT !.first = next]
                       ELSE [l EXCEPT !.node[a].next = next]

Begin(where, n, b) ==
  /\ pc = "idle" /\ intact /\ calls < MaxCalls
  /\ pc' = where /\ size' = n /\ block' = b
  /\ prev' = NULL /\ current' = list.first
  /\ UNCHANGED vars

Return == pc' = "idle" /\ size' = 0 /\ block' = NoBlock /\ prev' = NULL /\ current' = NULL

(* prev = current; current = current->next_segment.                         *)
Advance ==
  /\ prev' = current /\ current' = list.node[current].next
  /\ UNCHANGED <<vars, list, pc, size, block>>

malloc == booted /\ (\E n \in Requests : Begin("malloc", n, NoBlock)) /\ UNCHANGED list

malloc_fails ==
  /\ pc = "malloc" /\ current = NULL /\ Return
  /\ UNCHANGED <<vars, list>>

Suits == pc = "malloc" /\ current # NULL /\ Fits(SegmentAt(list, current), size, 8)

malloc_next == pc = "malloc" /\ current # NULL /\ ~ Suits /\ Advance

(* The segment fits: the place of the block and its size are computed.      *)
malloc_test ==
  /\ Suits /\ pc' = "malloc_take"
  /\ LET s == SegmentAt(list, current)
     IN  block' = [addr |-> HeaderPtr(s, size, 8), size |-> full_alloc_size(s, size, 8),
                   req |-> size, ptr |-> DataPtr(s, size, 8), align |-> 8]
  /\ UNCHANGED <<vars, list, size, prev, current>>

(* remaining_size is computed from the size the segment has now.            *)
Taken(l) ==
  LET remaining == l.node[current].size - block.size
  IN  IF remaining = 0 THEN SetNext(l, prev, l.node[current].next)
                       ELSE SetSize(l, current, remaining)

(* The block header is written, the list updated, the block handed out.     *)
malloc_take ==
  /\ pc = "malloc_take" /\ Return
  /\ list' = Taken(list)
  /\ free' = Segments(list') /\ live' = live \cup {block} /\ calls' = calls + 1
  /\ intact' = Harmless(Span(block.addr, block.addr + SIZEOF_USED),
                        {s \in free : s.addr # current}, live)
  /\ UNCHANGED <<booted, region>>

-----------------------------------------------------------------------------
(* The statements of deallocate on the list, b the block.                   *)
Link(l, b, before, after) ==
  SetNext(SetNext(l, b.addr, after), before, b.addr)

MergeNext(l, b, after) ==
  IF after # NULL /\ segments_adjacent(SegmentAt(l, b.addr), SegmentAt(l, after))
  THEN SetNode(l, b.addr, Header(Absorb(SegmentAt(l, b.addr), SegmentAt(l, after)).size,
                                 l.node[after].next))
  ELSE l

(* Mutant: the merged segment is not taken off the list.                    *)
MergePrev_Linked(l, b, before) ==
  IF before # NULL /\ segments_adjacent(SegmentAt(l, before), SegmentAt(l, b.addr))
  THEN SetSize(l, before, Absorb(SegmentAt(l, before), SegmentAt(l, b.addr)).size)
  ELSE l

MergePrev(l, b, before) ==
  IF before # NULL /\ segments_adjacent(SegmentAt(l, before), SegmentAt(l, b.addr))
  THEN SetNode(l, before, Header(Absorb(SegmentAt(l, before), SegmentAt(l, b.addr)).size,
                                 l.node[b.addr].next))
  ELSE l

(* The call that frees b returns, the list being l.                         *)
Released(l, b) ==
  /\ list' = l /\ free' = Segments(l) /\ live' = live \ {b} /\ calls' = calls + 1
  /\ intact' = Harmless(Span(b.addr, b.addr + SIZEOF_FREE), free, live \ {b})
  /\ UNCHANGED <<booted, region>>

free_begin ==
  \E b \in live :
    /\ Begin("free", 0, b)
    /\ list' = SetNode(list, b.addr, Header(Freed(b).size, NULL))

free_next == pc = "free" /\ current # NULL /\ current < block.addr /\ Advance

free_link ==
  /\ pc = "free" /\ (current = NULL \/ current >= block.addr) /\ pc' = "merge_next"
  /\ list' = Link(list, block, prev, current)
  /\ UNCHANGED <<vars, locals>>

free_merge_next ==
  /\ pc = "merge_next" /\ pc' = "merge_prev"
  /\ list' = MergeNext(list, block, current)
  /\ UNCHANGED <<vars, locals>>

free_merge_prev ==
  /\ pc = "merge_prev" /\ Return
  /\ Released(MergePrev(list, block, prev), block)

(* A wake-up entry b fires: the handler goes through all of deallocate.     *)
handler_free ==
  /\ pc # "idle" => Preempt
  /\ intact /\ calls < MaxCalls
  /\ \E b \in live :
       /\ b # block
       /\ LET walk[p \in DOMAIN list.node \cup {NULL}] ==
                LET c == IF p = NULL THEN list.first ELSE list.node[p].next
                IN  IF c = NULL \/ c >= b.addr THEN <<p, c>> ELSE walk[c]
              before == walk[NULL][1]
              after  == walk[NULL][2]
              l0 == SetNode(list, b.addr, Header(Freed(b).size, NULL))
              l1 == Link(l0, b, before, after)
              l2 == MergeNext(l1, b, after)
          IN  Released(MergePrev(l2, b, before), b)
  /\ UNCHANGED <<pc, locals>>

(* A client uses its block, between two calls.                              *)
client_write == pc = "idle" /\ ClientWrite /\ UNCHANGED <<list, pc, locals>>

ListNext ==
  \/ boot \/ malloc \/ malloc_fails \/ malloc_next \/ malloc_test \/ malloc_take
  \/ free_begin \/ free_next \/ free_link \/ free_merge_next \/ free_merge_prev
  \/ handler_free \/ client_write

ListSpec == ListInit /\ [][ListNext]_listVars

-----------------------------------------------------------------------------
(* With calls that are not interrupted the linked list, walked pointer by   *)
(* pointer, is the set of segments that Heap takes it for, and malloc and   *)
(* free on it are allocate and deallocate of Heap.                          *)
ImplementsHeap == Spec

(* malloc takes what it hands out away from the free list, whoever else     *)
(* edits the list meanwhile: if no byte was claimed twice when the list was *)
(* about to be updated, none is when malloc returns.                        *)
MallocTakes == [][malloc_take /\ Disjoint => Disjoint']_listVars
=============================================================================
