------------------------------ MODULE LogQueue ------------------------------
(* What the logger promises: a bounded queue of messages that forgets the   *)
(* oldest one to make room, and hands messages out in the order they came.  *)
EXTENDS Naturals, Sequences

CONSTANTS Entries, Capacity

VARIABLES pending, \* the messages not yet printed, oldest first
          last     \* the message printed last, in a sequence of at most one

QueueVars == <<pending, last>>

QueueInit == pending = <<>> /\ last = <<>>

Push(e) ==
  /\ pending' = Append(IF Len(pending) = Capacity THEN Tail(pending) ELSE pending, e)
  /\ UNCHANGED last

Pop ==
  /\ pending # <<>>
  /\ pending' = Tail(pending) /\ last' = <<Head(pending)>>

QueueNext == Pop \/ \E e \in Entries : Push(e)

QueueSpec == QueueInit /\ [][QueueNext]_QueueVars
=============================================================================
