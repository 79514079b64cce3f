----------------------------- MODULE MCHeapBoot -----------------------------
(* The heap calls kernel_main makes, in its order: the clock and the        *)
(* wake-up list, then the memory tests.                                     *)
EXTENDS Heap

VARIABLES step, owner

Malloc(who, n) == [call |-> "malloc", who |-> who, n |-> n]
Free(who) == [call |-> "free", who |-> who, n |-> 0]

Script == <<
  Malloc("monotonic_time", 4), Malloc("wake_up_list", 8),
  Malloc("basic", 10), Free("basic"),
  Malloc("numbers", 20), Free("numbers"),
  Malloc("str1", 20), Malloc("arr1", 40), Malloc("str2", 30),
  Free("arr1"), Free("str1"), Free("str2")>>

Owners == {Script[i].who : i \in 1 .. Len(Script)}

BootMaps == {<<[base |-> 0, length |-> 296, type |-> 1]>>}

BootInit == Init /\ step = 1 /\ owner = [w \in Owners |-> {}]

Boot == init_allocator /\ UNCHANGED <<step, owner>>

Step ==
  /\ booted /\ step <= Len(Script) /\ step' = step + 1 /\ calls' = calls + 1
  /\ LET c == Script[step]
     IN  \/ /\ c.call = "malloc" /\ allocate(c.n, 8)
            /\ owner' = [owner EXCEPT ![c.who] = live' \ live]
         \/ /\ c.call = "free"
            /\ \E b \in owner[c.who] : deallocate(b)
            /\ owner' = [owner EXCEPT ![c.who] = {}]

BootSpec == BootInit /\ [][Boot \/ Step]_<<vars, step, owner>>
=============================================================================
