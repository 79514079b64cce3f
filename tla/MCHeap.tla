------------------------------- MODULE MCHeap -------------------------------
(* A heap of a few dozen bytes.                                             *)
EXTENDS FreeList

Region(b, l, t) == [base |-> b, length |-> l, type |-> t]

\* the kernel ends at 24 or 25, inside the region that starts at 0
MCMaps == {
  <<Region(0, 80, 1)>>,
  <<Region(0, 24, 2), Region(0, 80, 1), Region(104, 40, 1)>>,
  <<Region(0, 72, 1), Region(80, 80, 1)>>,      \* the kernel is not in the largest
  <<Region(0, 8, 1)>>,                          \* too small
  <<Region(8, 72, 1), Region(0, 72, 1)>>,       \* the first of the largest
  <<Region(0, 32, 1)>>                          \* no room behind the kernel
}

SmallMap == {<<Region(0, 80, 1)>>}
=============================================================================
