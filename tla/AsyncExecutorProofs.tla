------------------------ MODULE AsyncExecutorProofs ------------------------
(* Invariants of AsyncExecutor for every program of the main thread.        *)
EXTENDS AsyncExecutor, TLAPS

(* The calls of a program are numbered from 1.                              *)
LEMMA OpsNat == Len(Program) \in Nat /\ \A o \in Ops : o \in Nat /\ o > 0
  BY ProgramAssumption DEF Ops

(* What the proofs need to know of sets of calls; see SetsOfCalls below.    *)
FiniteFacts ==
  /\ \A S \in SUBSET Ops : Cardinality(S) \in Nat /\ Newest(S) \in S \cup {0}
  /\ \A S \in SUBSET Ops, o \in Ops : o \notin S => Cardinality(S \cup {o}) = Cardinality(S) + 1
  /\ \A S, T \in SUBSET Ops : T \subseteq S => Cardinality(S \ T) = Cardinality(S) - Cardinality(T)

(* A call has an argument.                                                  *)
LEMMA ProgramType == \A o \in Ops : Program[o].n \in Nat
<1> DEFINE Call == [kind : Blocking \cup Futures, n : Nat]
<1>1. Program \in Seq(Call)
  BY ProgramAssumption
<1>2. \A c \in Call : c.n \in Nat
  OBVIOUS
<1> HIDE DEF Call
<1>3. \A o \in Ops : Program[o] \in Call
  BY <1>1 DEF Ops
<1> QED  BY <1>2, <1>3

(* A value reduced to the counters' width is a value of that width.         *)
LEMMA TickRange == \A t \in Nat : t % TickMod \in 0 .. TickMod - 1
  BY BoundsAssumption

(* A target tick is a value of the counters' width.                         *)
LEMMA TargetTickType ==
  ASSUME TypeOK, NEW o \in Ops
  PROVE  TargetTick(o) \in 0 .. TickMod - 1
<1>1. now \in Nat
  BY DEF TypeOK
<1>2. Clock(o) \in Nat
  <2>1. now % TickMod \in Nat
    BY <1>1, TickRange, BoundsAssumption
  <2> QED
    BY <2>1 DEF Clock, system_tick_count, monotonic_time_get_ticks_global, TicksAfter
<1>3. Program[o].n \in Nat /\ RATE \in Nat
  BY ProgramType, BoundsAssumption
<1>4. Program[o].n * RATE \in Nat
  BY <1>3
<1>5. (Program[o].n * RATE) % TickMod \in Nat
  BY <1>4, TickRange, BoundsAssumption
<1>6. SleepTicks(o) \in Nat
  BY <1>3, <1>5 DEF SleepTicks
<1> QED  BY <1>2, <1>6, TickRange DEF TargetTick

(* Unlinking a task leaves a queue of tasks that is one shorter.            *)
LEMMA RemoveAtType ==
  ASSUME NEW S, NEW q \in Seq(S), NEW i \in 1 .. Len(q)
  PROVE  RemoveAt(q, i) \in Seq(S) /\ Len(RemoveAt(q, i)) = Len(q) - 1
  BY DEF RemoveAt

(* What a poll does to the UART and to the progress of serial writes.       *)
SerialProgress ==
  /\ written' \in [Ops -> Nat]
  /\ \A o \in Ops : written'[o] <= Program[o].n
  /\ tx_empty' \in BOOLEAN

(* A poll never writes past the end of the data.                            *)
LEMMA SerialProgressStep ==
  ASSUME TypeOK, NEW t \in Ops, SerialEffect(t)
  PROVE  SerialProgress
<1>1. written \in [Ops -> Nat] /\ \A o \in Ops : written[o] <= Program[o].n
  BY DEF TypeOK
<1>2. tx_empty' \in BOOLEAN
  BY DEF SerialEffect
<1>3. CASE SerialWrites(t)
  <2>1. written' = [written EXCEPT ![t] = @ + 1] /\ written[t] < Program[t].n
    BY <1>3 DEF SerialEffect, SerialWrites
  <2> QED  BY <1>1, <1>2, <2>1, ProgramType DEF SerialProgress
<1>4. CASE ~ SerialWrites(t)
  BY <1>1, <1>2, <1>4 DEF SerialEffect, SerialProgress
<1> QED  BY <1>3, <1>4

(* TypeOK is inductive.                                                     *)
LEMMA TypeStep ==
  ASSUME FiniteFacts
  PROVE  TypeOK /\ [Next]_vars => TypeOK'
<1> SUFFICES ASSUME TypeOK, [Next]_vars PROVE TypeOK'
  OBVIOUS
<1> USE OpsNat
<1>1. CASE future_create_fails
  <2>1. op \in Ops /\ op' = op + 1 /\ pc' = "call"
    BY <1>1 DEF future_create_fails, NextCall
  <2>2. op' \in 1 .. Len(Program) + 1
    BY <2>1, OpsNat DEF Ops
  <2> QED  BY <1>1, <2>1, <2>2, Zenon DEF TypeOK, future_create_fails, sleep, list, exec
<1>2. CASE sleep_create
  <2>1. op \in Ops /\ TargetTick(op) \in 0 .. TickMod - 1
    BY <1>2, TargetTickType DEF sleep_create
  <2>2. target' \in [Ops -> 0 .. TickMod - 1] /\ started' \in [Ops -> Nat]
    BY <1>2, <2>1 DEF sleep_create, TypeOK
  <2>3. heap' \subseteq Objects
    <3>1. heap \subseteq Objects /\ <<"future", op>> \in Objects
      BY <2>1 DEF TypeOK, Objects
    <3>2. heap' \in {heap, heap \cup {<<"future", op>>}}
      BY <1>2 DEF sleep_create
    <3> QED  BY <3>1, <3>2
  <2> QED  BY <1>2, <2>1, <2>2, <2>3, Zenon DEF sleep_create, TypeOK, list, exec
<1>3. CASE async_create
  <2>1. op \in Ops
    BY <1>3 DEF async_create
  <2>2. heap' \subseteq Objects
    <3>1. heap \subseteq Objects /\ <<"future", op>> \in Objects
      BY <2>1 DEF TypeOK, Objects
    <3>2. heap' \in {heap, heap \cup {<<"future", op>>}}
      BY <1>3 DEF async_create
    <3> QED  BY <3>1, <3>2
  <2> QED  BY <1>3, <2>1, <2>2, Zenon DEF async_create, TypeOK, sleep, list, exec
<1>4. CASE wake_up_list_add_fails
  BY <1>4 DEF TypeOK, wake_up_list_add_fails, main, sleep, list, exec, Objects, Ops, AfterAdd
<1>5. CASE wake_up_list_add
  <2>1. nxt' \in Ops \cup {0}
    BY <1>5 DEF wake_up_list_add, TypeOK, FiniteFacts
  <2>2. op \in Ops
    BY <1>5 DEF wake_up_list_add, TypeOK
  <2>3. heap' \subseteq Objects
    <3>1. heap \subseteq Objects /\ <<"entry", op>> \in Objects
      BY <2>2 DEF TypeOK, Objects
    <3>2. heap' \in {heap, heap \cup {<<"entry", op>>}}
      BY <1>5 DEF wake_up_list_add
    <3> QED  BY <3>1, <3>2
  <2> QED  BY <1>5, <2>1, <2>2, <2>3, Zenon DEF wake_up_list_add, TypeOK, sleep, list, exec
<1>6. CASE wake_up_list_link
  BY <1>6 DEF TypeOK, wake_up_list_link, main, sleep, list, exec, Objects, Ops
<1>7. CASE wake_up_list_count
  BY <1>7 DEF TypeOK, wake_up_list_count, main, sleep, list, exec, Objects, Ops, AfterAdd
<1>8. CASE sleep_seconds_return
  BY <1>8 DEF TypeOK, sleep_seconds_return, main, sleep, list, exec, Objects, Ops, NextCall
<1>9. CASE sleep_ticks
  <2>1. op \in Ops /\ TargetTick(op) \in 0 .. TickMod - 1
    BY <1>9, TargetTickType DEF sleep_ticks
  <2>2. target' \in [Ops -> 0 .. TickMod - 1] /\ started' \in [Ops -> Nat]
    BY <1>9, <2>1 DEF sleep_ticks, TypeOK
  <2>3. \/ pc' = "tick_hlt" /\ op' = op
        \/ pc' = "call" /\ op' = op + 1
    BY <1>9 DEF sleep_ticks, NextCall
  <2>4. op' \in 1 .. Len(Program) + 1
    BY <2>1, <2>3 DEF Ops
  <2>5. iflag' \in BOOLEAN
    BY <1>9 DEF sleep_ticks
  <2> QED  BY <1>9, <2>1, <2>2, <2>3, <2>4, <2>5, Zenon DEF sleep_ticks, TypeOK, list, exec
<1>10. CASE sleep_ticks_hlt
  BY <1>10 DEF TypeOK, sleep_ticks_hlt, main, sleep, list, exec, Objects, Ops
<1>11. CASE sleep_ticks_loop
  <2>1. op \in Ops
    BY <1>11 DEF sleep_ticks_loop, TypeOK
  <2>2. \/ pc' = "tick_hlt" /\ op' = op
        \/ pc' = "call" /\ op' = op + 1
    BY <1>11 DEF sleep_ticks_loop, NextCall
  <2>3. op' \in 1 .. Len(Program) + 1 /\ loop_counter' \in Nat
    BY <1>11, <2>1, <2>2 DEF sleep_ticks_loop, TypeOK, Ops
  <2> QED  BY <1>11, <2>1, <2>2, <2>3, Zenon DEF sleep_ticks_loop, TypeOK, sleep, list, exec
<1>12. CASE executor_spawn
  BY <1>12 DEF TypeOK, executor_spawn, main, sleep, list, exec, Objects, Ops, NextCall
<1>13. CASE executor_spawn_fails
  BY <1>13 DEF TypeOK, executor_spawn_fails, main, sleep, list, exec, Objects, Ops, NextCall
<1>14. CASE executor_run_top
  <2>1. pc' = "poll" /\ cur' = 1 /\ has_ready' = FALSE
    BY <1>14 DEF executor_run_top
  <2>2. UNCHANGED <<iflag, op, loop_counter, nxt, now, monotonic_time, sleep,
                    list, exec, g_should_poll, heap, fault, dropped>>
    BY <1>14 DEF executor_run_top
  <2>3. has_ready' \in BOOLEAN
    BY <2>1, Zenon
  <2>4. cur' \in Nat \ {0}
    BY <2>1
  <2> QED  BY <2>1, <2>2, <2>3, <2>4 DEF TypeOK, sleep, list, exec
<1>15. CASE poll_task_pending
  <2>1. queue[cur] \in Ops
    <3>1. queue \in Seq(Ops) /\ cur \in Nat \ {0}
      BY DEF TypeOK
    <3>2. cur <= Len(queue)
      BY <1>15 DEF poll_task_pending
    <3> QED  BY <3>1, <3>2
  <2>2. SerialProgress
    BY <1>15, <2>1, SerialProgressStep DEF poll_task_pending
  <2>3. has_ready' \in BOOLEAN
    BY <1>15 DEF poll_task_pending
  <2>5. cur' \in Nat \ {0}
    <3>1. cur \in Nat \ {0} /\ cur' = cur + 1
      BY <1>15 DEF poll_task_pending, TypeOK
    <3> QED  BY <3>1
  <2>4. UNCHANGED <<iflag, pc, op, loop_counter, nxt, now, monotonic_time,
                    sleep, list, queue, task_count, g_should_poll, heap, fault,
                    dropped>>
    BY <1>15 DEF poll_task_pending
  <2> QED  BY <2>2, <2>3, <2>4, <2>5 DEF SerialProgress, TypeOK, sleep, list
<1>16. CASE poll_task_ready
  <2>1. queue[cur] \in Ops /\ cur \in 1 .. Len(queue)
    <3>1. queue \in Seq(Ops) /\ cur \in Nat \ {0}
      BY DEF TypeOK
    <3>2. cur <= Len(queue)
      BY <1>16 DEF poll_task_ready
    <3> QED  BY <3>1, <3>2
  <2>2. SerialProgress
    BY <1>16, <2>1, SerialProgressStep DEF poll_task_ready
  <2>3. queue' \in Seq(Ops)
    BY <1>16, <2>1, RemoveAtType DEF poll_task_ready, TypeOK
  <2>4. heap' \subseteq Objects /\ task_count' \in Int
    <3>1. heap \subseteq Objects /\ task_count \in Int
      BY DEF TypeOK
    <3>2. heap' \subseteq heap /\ task_count' = task_count - 1
      BY <1>16 DEF poll_task_ready
    <3> QED  BY <3>1, <3>2
  <2>5. fault' \subseteq {"dangling_entry", "double_free"}
    <3>1. fault \subseteq {"dangling_entry", "double_free"}
      BY DEF TypeOK
    <3>2. fault' \subseteq fault \cup {"double_free"}
      BY <1>16 DEF poll_task_ready
    <3> QED  BY <3>1, <3>2
  <2> QED
    BY <1>16, <2>2, <2>3, <2>4, <2>5, Zenon
       DEF poll_task_ready, SerialProgress, TypeOK, main, sleep, list
<1>17. CASE executor_run_decide
  BY <1>17, Zenon DEF TypeOK, executor_run_decide, main, sleep, list, exec, Objects, Ops
<1>18. CASE executor_run_reset
  BY <1>18, Zenon DEF TypeOK, executor_run_reset, main, sleep, list, exec, Objects, Ops
<1>19. CASE executor_run_hlt
  <2>1. /\ pc' = "halted" /\ iflag' = TRUE
        /\ UNCHANGED <<op, loop_counter, nxt, cur, has_ready, now,
                       monotonic_time, sleep, list, exec, g_should_poll, heap,
                       fault, dropped>>
    BY <1>19 DEF executor_run_hlt
  <2>2. iflag' \in BOOLEAN
    BY <2>1
  <2> QED  BY <2>1, <2>2 DEF TypeOK, sleep, list, exec
<1>20. CASE executor_run_cli
  BY <1>20, Zenon DEF TypeOK, executor_run_cli, main, sleep, list, exec, Objects, Ops
<1>21. CASE rtc_interrupt_handler
  <2>1. now' \in Nat
    BY <1>21 DEF rtc_interrupt_handler, TypeOK
  <2>2. Expired(now') \subseteq entries
    BY DEF Expired
  <2>3. Cardinality(Expired(now')) \in Nat
    BY <2>2 DEF TypeOK, FiniteFacts
  <2>4. entries' \subseteq Ops /\ heap' \subseteq Objects
    <3>1. entries' \subseteq entries /\ heap' \subseteq heap
      BY <1>21 DEF rtc_interrupt_handler
    <3>2. entries \subseteq Ops /\ heap \subseteq Objects
      BY DEF TypeOK
    <3> QED  BY <3>1, <3>2
  <2>7. entry_count' \in Int
    <3>1. entry_count \in Int /\ entry_count' = entry_count - Cardinality(Expired(now'))
      BY <1>21 DEF rtc_interrupt_handler, TypeOK
    <3> QED  BY <2>3, <3>1
  <2>5. \/ pc = "halted" /\ pc' = "woken"
        \/ pc = "tick_halted" /\ pc' = "tick_woken"
        \/ pc' = pc
    BY <1>21 DEF rtc_interrupt_handler
  <2>6. g_should_poll' \in BOOLEAN
    BY <1>21 DEF rtc_interrupt_handler
  <2> QED
    BY <1>21, <2>1, <2>4, <2>5, <2>6, <2>7, Zenon DEF rtc_interrupt_handler, TypeOK, sleep, exec
<1>22. CASE uart_drains
  BY <1>22, Zenon DEF TypeOK, uart_drains, main, sleep, list, exec, Objects, Ops
<1>23. CASE UNCHANGED vars
  BY <1>23 DEF TypeOK, vars, main, sleep, list, exec, Objects, InQueue
<1> QED
  BY <1>1, <1>2, <1>3, <1>4, <1>5, <1>6, <1>7, <1>8, <1>9, <1>10, <1>11, <1>12, <1>13, <1>14, <1>15, <1>16, <1>17, <1>18, <1>19, <1>20, <1>21, <1>22, <1>23 DEF Next, MainCalls, ExecutorRun

-----------------------------------------------------------------------------
(* What HaltOnlyWhenIdle rests on: until a pending task is met, the round   *)
(* stays at the front of the queue, because it removes what it polls.       *)
RoundAtFront == pc = "poll" /\ ~ has_ready => cur = 1

(* A round that met no pending task and reached the end emptied the queue.  *)
LEMMA IdleStep ==
  TypeOK /\ RoundAtFront /\ HaltOnlyWhenIdle /\ [Next]_vars
    => (RoundAtFront /\ HaltOnlyWhenIdle)'
<1> SUFFICES ASSUME TypeOK, RoundAtFront, HaltOnlyWhenIdle, [Next]_vars
             PROVE  (RoundAtFront /\ HaltOnlyWhenIdle)'
  OBVIOUS
<1> USE DEF RoundAtFront, HaltOnlyWhenIdle, exec
<1>1. CASE MainCalls
  <2>1. pc' \in {"call", "add", "link", "count", "wait", "spawn", "tick_hlt", "tick_halted"}
    BY <1>1 DEF MainCalls, future_create_fails, sleep_create, async_create,
                wake_up_list_add_fails, wake_up_list_add, wake_up_list_link,
                wake_up_list_count, sleep_seconds_return, sleep_ticks,
                sleep_ticks_hlt, sleep_ticks_loop, executor_spawn, executor_spawn_fails,
                NextCall, AfterAdd
  <2> QED  BY <2>1
<1>2. CASE executor_run_top
  BY <1>2 DEF executor_run_top
<1>3. CASE poll_task_pending
  BY <1>3 DEF poll_task_pending
<1>4. CASE poll_task_ready
  BY <1>4 DEF poll_task_ready, main
<1>5. CASE executor_run_decide
  <2>1. pc = "poll" /\ cur > Len(queue) /\ queue' = queue
    BY <1>5 DEF executor_run_decide
  <2>2. pc' = "hlt" => ~ has_ready
    BY <1>5 DEF executor_run_decide
  <2>3. pc' = "hlt" => queue = <<>>
    BY <2>1, <2>2 DEF TypeOK
  <2>4. pc' \in {"hlt", "reset"}
    BY <1>5 DEF executor_run_decide
  <2> QED  BY <2>1, <2>3, <2>4
<1>6. CASE executor_run_reset
  BY <1>6 DEF executor_run_reset
<1>7. CASE executor_run_hlt
  BY <1>7 DEF executor_run_hlt
<1>8. CASE executor_run_cli
  BY <1>8 DEF executor_run_cli
<1>9. CASE rtc_interrupt_handler
  BY <1>9 DEF rtc_interrupt_handler
<1>10. CASE uart_drains
  BY <1>10 DEF uart_drains, main
<1>11. CASE UNCHANGED vars
  BY <1>11 DEF vars, main
<1> QED
  BY <1>1, <1>2, <1>3, <1>4, <1>5, <1>6, <1>7, <1>8, <1>9, <1>10, <1>11
     DEF Next, ExecutorRun

-----------------------------------------------------------------------------
(* Steps that leave the heap, the queue and the wake-up list alone.         *)
Quiet ==
  /\ UNCHANGED <<entries, entry_count, queue, task_count, heap, fault, dropped>>
  /\ pc \notin {"add", "link", "count", "spawn"}
  /\ \/ pc' = "call" /\ op' = op + 1
     \/ pc' \notin {"call", "add", "link", "count", "wait", "spawn"} /\ op' = op

Waits == future_create_fails \/ sleep_seconds_return \/ sleep_ticks
         \/ sleep_ticks_hlt \/ sleep_ticks_loop
Rounds == executor_run_top \/ poll_task_pending \/ executor_run_decide
          \/ executor_run_reset \/ executor_run_hlt \/ executor_run_cli

LEMMA QuietSteps == Waits \/ Rounds => Quiet
<1>1. Waits => Quiet
  BY DEF Waits, future_create_fails, sleep_seconds_return, sleep_ticks, sleep_ticks_hlt,
         sleep_ticks_loop, NextCall, list, exec, Quiet
<1>2. Rounds => Quiet
  BY DEF Rounds, executor_run_top, poll_task_pending, executor_run_decide,
         executor_run_reset, executor_run_hlt, executor_run_cli, list, exec, Quiet
<1> QED  BY <1>1, <1>2

(* The steps one by one where they do not leave these alone.                *)
LEMMA Steps ==
  ASSUME [Next]_vars
  PROVE  \/ Waits \/ Rounds \/ sleep_create \/ async_create
         \/ wake_up_list_add_fails \/ wake_up_list_add \/ wake_up_list_link \/ wake_up_list_count
         \/ executor_spawn \/ executor_spawn_fails \/ poll_task_ready
         \/ rtc_interrupt_handler \/ uart_drains \/ UNCHANGED vars
  BY DEF Next, MainCalls, ExecutorRun, Waits, Rounds

-----------------------------------------------------------------------------
(* What CountsAgree rests on: entries belong to calls already made, and a   *)
(* call is not on the list before it links its entry.                       *)
FreshEntry ==
  /\ \A e \in entries : e <= op
  /\ pc \in {"call", "add", "link"} => \A e \in entries : e < op

CountInv == FreshEntry /\ CountsAgree

(* The list does not change, nor does its counter.                          *)
LEMMA CountFrame ==
  ASSUME TypeOK, CountInv, UNCHANGED list, task_count' = Len(queue'),
         pc # "count", pc' # "count",
         \/ op' = op /\ (pc' \in {"call", "add", "link"} => pc \in {"call", "add", "link"})
         \/ op' = op + 1
  PROVE  CountInv'
<1>1. entries \subseteq Nat /\ op \in Nat /\ entries' = entries
  BY OpsNat DEF TypeOK, list
<1>2. FreshEntry'
  BY <1>1 DEF CountInv, FreshEntry
<1>3. CountsAgree'
  BY DEF CountInv, CountsAgree, list
<1> QED  BY <1>2, <1>3 DEF CountInv

(* Every step keeps the two counters in agreement with their lists.         *)
LEMMA CountStep ==
  ASSUME FiniteFacts
  PROVE  TypeOK /\ CountInv /\ [Next]_vars => CountInv'
<1> SUFFICES ASSUME TypeOK, CountInv, [Next]_vars PROVE CountInv'
  OBVIOUS
<1>0. /\ task_count = Len(queue) /\ queue \in Seq(Ops)
      /\ entries \subseteq Nat /\ op \in Nat /\ entry_count \in Int
      /\ Cardinality(entries) \in Nat /\ entries \subseteq Ops
  BY OpsNat DEF TypeOK, CountInv, CountsAgree, FiniteFacts
<1>1. CASE wake_up_list_link
  <2>1. /\ pc = "link" /\ pc' = "count" /\ op' = op /\ entries' = entries \cup {op}
        /\ entry_count' = entry_count /\ task_count' = task_count /\ queue' = queue
    BY <1>1 DEF wake_up_list_link, exec
  <2>2. op \notin entries
    BY <1>0, <2>1 DEF CountInv, FreshEntry
  <2>3. Cardinality(entries') = Cardinality(entries) + 1
    <3>1. op \in Ops
      BY <2>1 DEF TypeOK
    <3> QED  BY <1>0, <2>1, <2>2, <3>1 DEF FiniteFacts
  <2>4. FreshEntry'
    BY <1>0, <2>1 DEF CountInv, FreshEntry
  <2>5. CountsAgree'
    BY <1>0, <2>1, <2>3 DEF CountInv, CountsAgree
  <2> QED  BY <2>4, <2>5 DEF CountInv
<1>2. CASE wake_up_list_count
  <2>1. /\ pc = "count" /\ pc' \in {"spawn", "wait"} /\ op' = op /\ entries' = entries
        /\ entry_count' = entry_count + 1 /\ task_count' = task_count /\ queue' = queue
    BY <1>2 DEF wake_up_list_count, AfterAdd, exec
  <2>2. FreshEntry'
    BY <2>1 DEF CountInv, FreshEntry
  <2>3. CountsAgree'
    BY <1>0, <2>1 DEF CountInv, CountsAgree
  <2> QED  BY <2>2, <2>3 DEF CountInv
<1>3. CASE executor_spawn
  <2>1. /\ pc = "spawn" /\ pc' = "call" /\ op' = op + 1 /\ UNCHANGED list
        /\ queue' = <<op>> \o queue /\ task_count' = task_count + 1
    BY <1>3 DEF executor_spawn, NextCall
  <2>2. Len(queue') = Len(queue) + 1
    BY <1>0, <2>1
  <2> QED  BY <1>0, <2>1, <2>2, CountFrame
<1>4. CASE poll_task_ready
  <2>1. /\ pc = "poll" /\ pc' = pc /\ op' = op /\ UNCHANGED list
        /\ queue' = RemoveAt(queue, cur) /\ task_count' = task_count - 1
    BY <1>4 DEF poll_task_ready, main
  <2>2. cur \in 1 .. Len(queue)
    <3>1. cur <= Len(queue)
      BY <1>4 DEF poll_task_ready
    <3>2. cur \in Nat \ {0} /\ queue \in Seq(Ops)
      BY DEF TypeOK
    <3> QED  BY <3>1, <3>2
  <2>3. Len(queue') = Len(queue) - 1
    BY <1>0, <2>1, <2>2, RemoveAtType
  <2> QED  BY <1>0, <2>1, <2>3, CountFrame
<1>5. CASE rtc_interrupt_handler
  <2>1. /\ op' = op /\ entries' = entries \ Expired(now')
        /\ entry_count' = entry_count - Cardinality(Expired(now'))
        /\ task_count' = task_count /\ queue' = queue
    BY <1>5 DEF rtc_interrupt_handler, exec
  <2>2. \/ pc = "halted" /\ pc' = "woken"
        \/ pc = "tick_halted" /\ pc' = "tick_woken"
        \/ pc' = pc
    BY <1>5 DEF rtc_interrupt_handler
  <2>3. Expired(now') \subseteq entries
    BY DEF Expired
  <2>4. Cardinality(entries') = Cardinality(entries) - Cardinality(Expired(now'))
    BY <1>0, <2>1, <2>3, Zenon DEF FiniteFacts
  <2>5. Cardinality(Expired(now')) \in Nat
    BY <1>0, <2>3 DEF FiniteFacts
  <2>6. FreshEntry'
    BY <2>1, <2>2 DEF CountInv, FreshEntry
  <2>7. CountsAgree'
    BY <1>0, <2>1, <2>2, <2>4, <2>5 DEF CountInv, CountsAgree
  <2> QED  BY <2>6, <2>7 DEF CountInv
<1>6. CASE Waits \/ Rounds
  BY <1>0, <1>6, QuietSteps, CountFrame DEF Quiet, list
<1>7. CASE sleep_create \/ async_create \/ wake_up_list_add_fails \/ wake_up_list_add
           \/ executor_spawn_fails
  <2>1. /\ UNCHANGED list /\ task_count' = task_count /\ queue' = queue /\ pc # "count" /\ pc' # "count"
        /\ (op' = op /\ pc \in {"call", "add"}) \/ op' = op + 1
    BY <1>7 DEF sleep_create, async_create, wake_up_list_add_fails, wake_up_list_add,
                 executor_spawn_fails, AfterAdd, NextCall, exec
  <2> QED  BY <1>0, <2>1, CountFrame
<1>8. CASE uart_drains \/ UNCHANGED vars
  BY <1>8 DEF uart_drains, vars, main, list, exec, CountInv, FreshEntry, CountsAgree
<1> QED  BY <1>1, <1>2, <1>3, <1>4, <1>5, <1>6, <1>7, <1>8, Steps

-----------------------------------------------------------------------------
(* What NoLeak rests on: only the calls that create futures own one, so a   *)
(* call that goes on to wait instead of spawning leaves nothing behind.     *)
LeakInv ==
  /\ \A o \in Ops : <<"future", o>> \in heap => Program[o].kind \in Futures
  /\ NoLeak

(* A step that adds nothing to the heap and takes nothing from its owners.  *)
LEMMA LeakFrame ==
  ASSUME LeakInv, heap' \subseteq heap, entries' = entries, dropped \subseteq dropped',
         \A o \in Ops : InQueue(o) => InQueue(o)',
         pc \notin {"add", "link", "count", "spawn"} \/ (pc' = pc /\ op' = op)
  PROVE  LeakInv'
<1>1. \A o \in Ops : <<"future", o>> \in heap' => Program[o].kind \in Futures
  BY DEF LeakInv
<1>2. ASSUME NEW o \in Ops
      PROVE  /\ <<"entry", o>> \in heap' => o \in entries' \/ (pc' = "link" /\ op' = o)
             /\ <<"waker", o>> \in heap' \/ <<"task", o>> \in heap' => InQueue(o)'
             /\ <<"future", o>> \in heap' =>
                  \/ InQueue(o)'
                  \/ op' = o /\ pc' \in {"add", "link", "count", "spawn"}
                  \/ o \in dropped'
  BY DEF LeakInv, NoLeak
<1> QED  BY <1>1, <1>2 DEF LeakInv, NoLeak

(* Every step leaves each object with an owner.                             *)
LEMMA LeakStep == TypeOK /\ LeakInv /\ [Next]_vars => LeakInv'
<1> SUFFICES ASSUME TypeOK, LeakInv, [Next]_vars PROVE LeakInv'
  OBVIOUS
<1>0. UNCHANGED queue => \A o \in Ops : InQueue(o) => InQueue(o)'
  BY DEF InQueue
<1>1. CASE sleep_create
  <2>1. /\ pc = "call" /\ pc' = "add" /\ op' = op /\ entries' = entries
        /\ dropped' = dropped /\ queue' = queue
        /\ heap' = heap \/ (heap' = heap \cup {<<"future", op>>} /\ Program[op].kind \in Futures)
    BY <1>1 DEF sleep_create, list, exec, kind
  <2>2. ASSUME NEW o \in Ops
        PROVE  /\ <<"future", o>> \in heap' => Program[o].kind \in Futures
               /\ <<"entry", o>> \in heap' => o \in entries'
               /\ <<"waker", o>> \in heap' \/ <<"task", o>> \in heap' => InQueue(o)'
               /\ <<"future", o>> \in heap' => InQueue(o)' \/ op' = o \/ o \in dropped'
    BY <1>0, <2>1 DEF LeakInv, NoLeak
  <2> QED  BY <2>1, <2>2 DEF LeakInv, NoLeak
<1>2. CASE async_create
  <2>1. /\ pc = "call" /\ pc' = "spawn" /\ op' = op /\ entries' = entries
        /\ dropped' = dropped /\ queue' = queue
        /\ heap' = heap \cup {<<"future", op>>} /\ Program[op].kind \in Futures
    BY <1>2 DEF async_create, list, exec, kind, Futures
  <2>2. ASSUME NEW o \in Ops
        PROVE  /\ <<"future", o>> \in heap' => Program[o].kind \in Futures
               /\ <<"entry", o>> \in heap' => o \in entries'
               /\ <<"waker", o>> \in heap' \/ <<"task", o>> \in heap' => InQueue(o)'
               /\ <<"future", o>> \in heap' => InQueue(o)' \/ op' = o \/ o \in dropped'
    BY <1>0, <2>1 DEF LeakInv, NoLeak
  <2> QED  BY <2>1, <2>2 DEF LeakInv, NoLeak
<1>3. CASE wake_up_list_add_fails \/ wake_up_list_count
  <2>1. /\ pc \in {"add", "count"} /\ op' = op /\ entries' = entries /\ heap' = heap
        /\ dropped' = dropped /\ queue' = queue
        /\ Program[op].kind \in Futures => pc' = "spawn"
    BY <1>3 DEF wake_up_list_add_fails, wake_up_list_count, AfterAdd, list, exec, kind
  <2>2. ASSUME NEW o \in Ops
        PROVE  /\ <<"future", o>> \in heap' => Program[o].kind \in Futures
               /\ <<"entry", o>> \in heap' => o \in entries'
               /\ <<"waker", o>> \in heap' \/ <<"task", o>> \in heap' => InQueue(o)'
               /\ <<"future", o>> \in heap' =>
                    InQueue(o)' \/ (op' = o /\ pc' = "spawn") \/ o \in dropped'
    BY <1>0, <2>1 DEF LeakInv, NoLeak
  <2> QED  BY <2>2, Zenon DEF LeakInv, NoLeak
<1>4. CASE wake_up_list_add
  <2>1. /\ pc = "add" /\ pc' = "link" /\ op' = op /\ entries' = entries
        /\ heap' = heap \cup {<<"entry", op>>} /\ dropped' = dropped /\ queue' = queue
    BY <1>4 DEF wake_up_list_add, list, exec
  <2>2. ASSUME NEW o \in Ops
        PROVE  /\ <<"future", o>> \in heap' => Program[o].kind \in Futures
               /\ <<"entry", o>> \in heap' => o \in entries' \/ op' = o
               /\ <<"waker", o>> \in heap' \/ <<"task", o>> \in heap' => InQueue(o)'
               /\ <<"future", o>> \in heap' => InQueue(o)' \/ op' = o \/ o \in dropped'
    BY <1>0, <2>1 DEF LeakInv, NoLeak
  <2> QED  BY <2>1, <2>2 DEF LeakInv, NoLeak
<1>5. CASE wake_up_list_link
  <2>1. /\ pc = "link" /\ pc' = "count" /\ op' = op /\ entries' = entries \cup {op}
        /\ heap' = heap /\ dropped' = dropped /\ queue' = queue
    BY <1>5 DEF wake_up_list_link, exec
  <2>2. ASSUME NEW o \in Ops
        PROVE  /\ <<"future", o>> \in heap' => Program[o].kind \in Futures
               /\ <<"entry", o>> \in heap' => o \in entries'
               /\ <<"waker", o>> \in heap' \/ <<"task", o>> \in heap' => InQueue(o)'
               /\ <<"future", o>> \in heap' => InQueue(o)' \/ op' = o \/ o \in dropped'
    BY <1>0, <2>1 DEF LeakInv, NoLeak
  <2> QED  BY <2>1, <2>2 DEF LeakInv, NoLeak
<1>6. CASE executor_spawn
  <2>1. PICK waker : /\ heap' = heap \cup {<<"task", op>>} \cup waker
                     /\ waker \subseteq {<<"waker", op>>}
    BY <1>6 DEF executor_spawn
  <2>2. /\ pc = "spawn" /\ entries' = entries /\ dropped' = dropped
        /\ queue' = <<op>> \o queue
    BY <1>6 DEF executor_spawn, list
  <2>3. queue \in Seq(Ops) /\ op \in Ops
    BY <2>2 DEF TypeOK
  <2>4. \A o \in Ops : InQueue(o) \/ o = op => InQueue(o)'
    <3>1. Len(queue') = Len(queue) + 1 /\ queue'[1] = op
          /\ \A j \in 1 .. Len(queue) : queue'[j + 1] = queue[j]
      BY <2>2, <2>3
    <3> QED  BY <2>3, <3>1 DEF InQueue
  <2>5. ASSUME NEW o \in Ops
        PROVE  /\ <<"future", o>> \in heap' => Program[o].kind \in Futures
               /\ <<"entry", o>> \in heap' => o \in entries'
               /\ <<"waker", o>> \in heap' \/ <<"task", o>> \in heap' => InQueue(o)'
               /\ <<"future", o>> \in heap' => InQueue(o)' \/ o \in dropped'
    BY <2>1, <2>2, <2>4 DEF LeakInv, NoLeak
  <2> QED  BY <2>5, Zenon DEF LeakInv, NoLeak
<1>7. CASE executor_spawn_fails
  <2>1. /\ pc = "spawn" /\ entries' = entries /\ dropped' = dropped \cup {op}
        /\ heap' = heap /\ queue' = queue
    BY <1>7 DEF executor_spawn_fails, list, exec
  <2>2. ASSUME NEW o \in Ops
        PROVE  /\ <<"future", o>> \in heap' => Program[o].kind \in Futures
               /\ <<"entry", o>> \in heap' => o \in entries'
               /\ <<"waker", o>> \in heap' \/ <<"task", o>> \in heap' => InQueue(o)'
               /\ <<"future", o>> \in heap' => InQueue(o)' \/ o \in dropped'
    BY <1>0, <2>1 DEF LeakInv, NoLeak
  <2> QED  BY <2>2, Zenon DEF LeakInv, NoLeak
<1>8. CASE poll_task_ready
  <2>1. /\ pc = "poll" /\ pc' = pc /\ entries' = entries /\ dropped' = dropped
        /\ heap' = heap \ Reclaimed(queue[cur]) /\ queue' = RemoveAt(queue, cur)
        /\ cur <= Len(queue)
    BY <1>8 DEF poll_task_ready, list, main
  <2>2. queue \in Seq(Ops) /\ cur \in 1 .. Len(queue)
    BY <2>1 DEF TypeOK
  <2>3. \A o \in Ops : InQueue(o) /\ o # queue[cur] => InQueue(o)'
    <3> SUFFICES ASSUME NEW o \in Ops, NEW j \in 1 .. Len(queue), queue[j] = o, o # queue[cur]
                 PROVE  \E i \in 1 .. Len(queue') : queue'[i] = o
      BY DEF InQueue
    <3>1. Len(queue') = Len(queue) - 1
      BY <2>1, <2>2, RemoveAtType, Zenon
    <3>2. \A i \in 1 .. Len(queue) - 1 : queue'[i] = IF i < cur THEN queue[i] ELSE queue[i + 1]
      BY <2>1, <2>2 DEF RemoveAt
    <3>3. CASE j < cur
      <4>1. j \in 1 .. Len(queue) - 1 /\ queue'[j] = o
        BY <2>2, <3>2, <3>3
      <4> QED  BY <3>1, <4>1
    <3>4. CASE j > cur
      <4>1. j - 1 \in 1 .. Len(queue) - 1 /\ queue'[j - 1] = o
        BY <2>2, <3>2, <3>4
      <4> QED  BY <3>1, <4>1
    <3> QED  BY <2>2, <3>3, <3>4
  <2>4. ASSUME NEW o \in Ops
        PROVE  /\ <<"future", o>> \in heap' => Program[o].kind \in Futures
               /\ <<"entry", o>> \in heap' => o \in entries'
               /\ <<"waker", o>> \in heap' \/ <<"task", o>> \in heap' => InQueue(o)'
               /\ <<"future", o>> \in heap' => InQueue(o)' \/ o \in dropped'
    BY <2>1, <2>3 DEF LeakInv, NoLeak, Reclaimed
  <2> QED  BY <2>4, Zenon DEF LeakInv, NoLeak
<1>9. CASE rtc_interrupt_handler
  <2>1. /\ op' = op /\ entries' = entries \ Expired(now') /\ dropped' = dropped /\ queue' = queue
        /\ heap' = heap \ {<<"entry", e>> : e \in Expired(now')}
    BY <1>9 DEF rtc_interrupt_handler, exec
  <2>2. pc' = pc \/ pc \in {"halted", "tick_halted"}
    BY <1>9 DEF rtc_interrupt_handler
  <2>3. ASSUME NEW o \in Ops
        PROVE  /\ <<"future", o>> \in heap' => Program[o].kind \in Futures
               /\ <<"entry", o>> \in heap' => o \in entries' \/ (pc' = "link" /\ op' = o)
               /\ <<"waker", o>> \in heap' \/ <<"task", o>> \in heap' => InQueue(o)'
               /\ <<"future", o>> \in heap' =>
                    \/ InQueue(o)'
                    \/ op' = o /\ pc' \in {"add", "link", "count", "spawn"}
                    \/ o \in dropped'
    BY <1>0, <2>1, <2>2 DEF LeakInv, NoLeak
  <2> QED  BY <2>3, Zenon DEF LeakInv, NoLeak
<1>10. CASE Waits \/ Rounds
  BY <1>0, <1>10, QuietSteps, LeakFrame DEF Quiet
<1>11. CASE uart_drains \/ UNCHANGED vars
  BY <1>0, <1>11, LeakFrame DEF uart_drains, vars, list, exec, main
<1> QED  BY <1>1, <1>2, <1>3, <1>4, <1>5, <1>6, <1>7, <1>8, <1>9, <1>10, <1>11, Steps

-----------------------------------------------------------------------------
(* Which call the main thread can be in where it is.                        *)
KindInv ==
  /\ pc \in {"add", "link", "count"} => kind \in Timed
  /\ pc = "wait" => kind = "sleep_seconds"
  /\ pc = "spawn" => kind \in Futures
  /\ pc \in {"tick_hlt", "tick_halted", "tick_woken"} => kind = "sleep_ticks"

(* A task is spawned once, by a call that has been left.                    *)
QueueInv ==
  /\ \A j \in 1 .. Len(queue) : queue[j] < op
  /\ \A i, j \in 1 .. Len(queue) : queue[i] = queue[j] => i = j

RunInv == KindInv /\ QueueInv

(* The main thread moves on to the next call or to where only the kind of   *)
(* the call it is in leads.                                                 *)
LEMMA KindStep == KindInv /\ [Next]_vars => KindInv'
<1> SUFFICES ASSUME KindInv, [Next]_vars PROVE KindInv'
  OBVIOUS
<1>1. CASE future_create_fails
  BY <1>1 DEF future_create_fails, NextCall, KindInv
<1>2. CASE sleep_create
  BY <1>2 DEF sleep_create, KindInv, kind
<1>3. CASE async_create
  <2>1. pc' = "spawn" /\ kind' = kind /\ kind \in Futures
    BY <1>3 DEF async_create, kind, Futures
  <2> QED  BY <2>1 DEF KindInv
<1>4. CASE wake_up_list_add_fails \/ wake_up_list_count
  <2>1. /\ kind \in Timed /\ kind' = kind
        /\ pc' = IF kind \in Futures THEN "spawn" ELSE "wait"
    BY <1>4 DEF wake_up_list_add_fails, wake_up_list_count, AfterAdd, KindInv, kind
  <2>2. kind \in Futures \/ kind = "sleep_seconds"
    BY <2>1 DEF Timed, Futures
  <2> QED  BY <2>1, <2>2 DEF KindInv
<1>5. CASE wake_up_list_add \/ wake_up_list_link
  <2>1. kind \in Timed /\ kind' = kind /\ pc' \in {"link", "count"}
    BY <1>5 DEF wake_up_list_add, wake_up_list_link, KindInv, kind
  <2> QED  BY <2>1 DEF KindInv
<1>6. CASE sleep_seconds_return
  BY <1>6 DEF sleep_seconds_return, NextCall, KindInv
<1>7. CASE sleep_ticks
  <2>1. kind = "sleep_ticks" /\ (pc' = "call" \/ (pc' = "tick_hlt" /\ kind' = kind))
    BY <1>7 DEF sleep_ticks, NextCall, kind
  <2> QED  BY <2>1 DEF KindInv
<1>8. CASE sleep_ticks_hlt
  <2>1. kind = "sleep_ticks" /\ pc' = "tick_halted" /\ kind' = kind
    BY <1>8 DEF sleep_ticks_hlt, KindInv, kind
  <2> QED  BY <2>1 DEF KindInv
<1>9. CASE sleep_ticks_loop
  <2>1. kind = "sleep_ticks" /\ (pc' = "call" \/ (pc' = "tick_hlt" /\ kind' = kind))
    BY <1>9 DEF sleep_ticks_loop, NextCall, KindInv, kind
  <2> QED  BY <2>1 DEF KindInv
<1>10. CASE executor_spawn \/ executor_spawn_fails
  BY <1>10 DEF executor_spawn, executor_spawn_fails, NextCall, KindInv
<1>11. CASE ExecutorRun
  <2>1. pc' \in {"poll", "hlt", "reset", "run", "halted"}
    BY <1>11 DEF ExecutorRun, executor_run_top, poll_task_pending, poll_task_ready,
                 executor_run_decide, executor_run_reset, executor_run_hlt,
                 executor_run_cli, main
  <2> QED  BY <2>1 DEF KindInv
<1>12. CASE rtc_interrupt_handler
  <2>1. kind' = kind /\ (pc' = pc \/ pc' = "woken" \/ (pc = "tick_halted" /\ pc' = "tick_woken"))
    BY <1>12 DEF rtc_interrupt_handler, kind
  <2> QED  BY <2>1 DEF KindInv
<1>13. CASE uart_drains \/ UNCHANGED vars
  <2>1. kind' = kind /\ pc' = pc
    BY <1>13 DEF uart_drains, vars, main, kind
  <2> QED  BY <2>1 DEF KindInv
<1> QED
  BY <1>1, <1>2, <1>3, <1>4, <1>5, <1>6, <1>7, <1>8, <1>9, <1>10, <1>11, <1>12, <1>13
     DEF Next, MainCalls

(* What a step does to the queue: nothing, spawn the call it leaves, or     *)
(* remove the task it has polled.                                           *)
QueueKept == UNCHANGED queue /\ op' \in {op, op + 1}
Spawned == pc = "spawn" /\ queue' = <<op>> \o queue /\ op' = op + 1
Polled == /\ pc = "poll" /\ cur <= Len(queue) /\ queue' = RemoveAt(queue, cur)
          /\ op' = op /\ heap' = heap \ Reclaimed(queue[cur])

LEMMA QueueSteps ==
  ASSUME [Next]_vars
  PROVE  QueueKept \/ (executor_spawn /\ Spawned) \/ (poll_task_ready /\ Polled)
<1>1. CASE executor_spawn
  BY <1>1 DEF executor_spawn, NextCall, Spawned
<1>2. CASE poll_task_ready
  BY <1>2 DEF poll_task_ready, main, Polled
<1>3. CASE Waits \/ Rounds
  BY <1>3, QuietSteps DEF Quiet, QueueKept
<1>4. CASE sleep_create \/ async_create \/ wake_up_list_add_fails \/ wake_up_list_add
           \/ wake_up_list_link \/ wake_up_list_count \/ executor_spawn_fails
  BY <1>4 DEF sleep_create, async_create, wake_up_list_add_fails, wake_up_list_add,
              wake_up_list_link, wake_up_list_count, executor_spawn_fails, NextCall,
              exec, QueueKept
<1>5. CASE rtc_interrupt_handler \/ uart_drains \/ UNCHANGED vars
  BY <1>5 DEF rtc_interrupt_handler, uart_drains, vars, main, exec, QueueKept
<1> QED  BY <1>1, <1>2, <1>3, <1>4, <1>5, Steps

(* Where the tasks of the queue after a removal come from.                  *)
LEMMA RemoveAtFrom ==
  ASSUME NEW S, NEW q \in Seq(S), NEW i \in 1 .. Len(q), NEW j \in 1 .. Len(RemoveAt(q, i))
  PROVE  LET k == IF j < i THEN j ELSE j + 1
         IN  k \in 1 .. Len(q) /\ k # i /\ RemoveAt(q, i)[j] = q[k]
<1>1. j \in 1 .. Len(q) - 1
  BY RemoveAtType
<1> QED  BY <1>1 DEF RemoveAt

LEMMA QueueStep == TypeOK /\ QueueInv /\ [Next]_vars => QueueInv'
<1> SUFFICES ASSUME TypeOK, QueueInv, [Next]_vars PROVE QueueInv'
  OBVIOUS
<1>1. queue \in Seq(Ops) /\ op \in Nat /\ \A j \in 1 .. Len(queue) : queue[j] \in Nat
  <2>1. queue \in Seq(Ops) /\ op \in 1 .. Len(Program) + 1
    BY Zenon DEF TypeOK
  <2>2. \A j \in 1 .. Len(queue) : queue[j] \in Ops
    BY <2>1
  <2> QED  BY <2>1, <2>2, OpsNat
<1>2. CASE QueueKept
  <2>1. \A j \in 1 .. Len(queue') : queue'[j] < op'
    BY <1>1, <1>2 DEF QueueKept, QueueInv
  <2> QED  BY <1>2, <2>1 DEF QueueKept, QueueInv
<1>3. CASE Spawned
  <2>1. /\ Len(queue') = Len(queue) + 1 /\ queue'[1] = op
        /\ \A j \in 2 .. Len(queue') : j - 1 \in 1 .. Len(queue) /\ queue'[j] = queue[j - 1]
    <3>1. op \in Ops
      BY <1>3 DEF Spawned, TypeOK
    <3> QED  BY <1>1, <1>3, <3>1 DEF Spawned
  <2>2. op' = op + 1
    BY <1>3 DEF Spawned
  <2>3. \A j \in 2 .. Len(queue') : queue'[j] \in Nat /\ queue'[j] < op
    BY <1>1, <2>1 DEF QueueInv
  <2>4. \A j \in 1 .. Len(queue') : queue'[j] < op'
    BY <1>1, <2>1, <2>2, <2>3
  <2>5. \A i, j \in 2 .. Len(queue') : queue'[i] = queue'[j] => i = j
    BY <1>1, <2>1 DEF QueueInv
  <2>6. \A i, j \in 1 .. Len(queue') : queue'[i] = queue'[j] => i = j
    BY <1>1, <2>1, <2>3, <2>5
  <2> QED  BY <2>4, <2>6 DEF QueueInv
<1>4. CASE Polled
  <2>1. cur \in 1 .. Len(queue) /\ op' = op /\ queue' = RemoveAt(queue, cur)
    BY <1>1, <1>4 DEF Polled, TypeOK
  <2> DEFINE from(j) == IF j < cur THEN j ELSE j + 1
  <2>2. \A j \in 1 .. Len(queue') : from(j) \in 1 .. Len(queue) /\ queue'[j] = queue[from(j)]
    BY <1>1, <2>1, RemoveAtFrom
  <2>3. \A i, j \in 1 .. Len(queue') : from(i) = from(j) => i = j
    BY <2>1
  <2> HIDE DEF from
  <2>4. \A j \in 1 .. Len(queue') : queue'[j] < op'
    BY <2>1, <2>2 DEF QueueInv
  <2>5. \A i, j \in 1 .. Len(queue') : queue'[i] = queue'[j] => i = j
    BY <2>2, <2>3 DEF QueueInv
  <2> QED  BY <2>4, <2>5 DEF QueueInv
<1> QED  BY <1>2, <1>3, <1>4, QueueSteps

(* What is on the queue was there before, or is being spawned.              *)
LEMMA Queued ==
  ASSUME TypeOK, [Next]_vars, NEW o \in Ops, InQueue(o)'
  PROVE  InQueue(o) \/ (pc = "spawn" /\ op = o)
<1>1. PICK j \in 1 .. Len(queue') : queue'[j] = o
  BY DEF InQueue
<1>2. queue \in Seq(Ops)
  BY DEF TypeOK
<1>3. CASE QueueKept
  BY <1>1, <1>3 DEF QueueKept, InQueue
<1>4. CASE Spawned
  <2>1. pc = "spawn" /\ queue' = <<op>> \o queue
    BY <1>4 DEF Spawned
  <2>2. op \in Ops
    BY <2>1 DEF TypeOK
  <2>3. /\ j = 1 => o = op
        /\ j # 1 => j - 1 \in 1 .. Len(queue) /\ queue[j - 1] = o
    BY <1>1, <1>2, <2>1, <2>2
  <2> QED  BY <2>1, <2>3 DEF InQueue
<1>5. CASE Polled
  <2>1. cur \in 1 .. Len(queue) /\ queue' = RemoveAt(queue, cur)
    BY <1>2, <1>5 DEF Polled, TypeOK
  <2>2. j \in 1 .. Len(RemoveAt(queue, cur))
    BY <1>1, <2>1
  <2> DEFINE k == IF j < cur THEN j ELSE j + 1
  <2>3. k \in 1 .. Len(queue) /\ RemoveAt(queue, cur)[j] = queue[k]
    BY <1>2, <2>1, <2>2, RemoveAtFrom
  <2> HIDE DEF k
  <2> QED  BY <1>1, <2>1, <2>3 DEF InQueue
<1> QED  BY <1>3, <1>4, <1>5, QueueSteps

-----------------------------------------------------------------------------
(* Up to the wrap-around the counter shows the interrupts taken, and the    *)
(* targets computed from it are exact.                                      *)
LEMMA ModSmall == \A x \in Nat : x < TickMod => x % TickMod = x
  BY BoundsAssumption

LEMMA RequestedNat == \A o \in Ops : Requested(o) \in Nat
<1> SUFFICES ASSUME NEW o \in Ops PROVE Requested(o) \in Nat
  OBVIOUS
<1>1. Program[o].n \in Nat /\ RATE \in Nat
  BY ProgramType, BoundsAssumption
<1> QED  BY <1>1 DEF Requested

(* What the counter that call o reads shows after t interrupts.             *)
Seen(o, t) == IF Program[o].kind = "sleep_ticks" \/ monotonic_time # "NULL" THEN t ELSE 0

LEMMA ExactTarget ==
  ASSUME TypeOK, NoWrap, NEW o \in Ops
  PROVE  /\ system_tick_count = now
         /\ Clock(o) = Seen(o, now)
         /\ Program[o].kind # "sleep_ticks" => monotonic_time_get_ticks_global = Seen(o, now)
         /\ TargetTick(o) = Seen(o, now) + Requested(o)
<1>1. now \in Nat /\ Requested(o) \in Nat /\ now + Requested(o) < TickMod /\ TickMod \in Nat
  BY RequestedNat, BoundsAssumption DEF TypeOK, NoWrap
<1>2. now % TickMod = now /\ Requested(o) % TickMod = Requested(o)
  BY <1>1, ModSmall
<1>3. /\ (now + Requested(o)) % TickMod = now + Requested(o)
      /\ (0 + Requested(o)) % TickMod = 0 + Requested(o)
  BY <1>1, ModSmall
<1>4. SleepTicks(o) = Requested(o)
  <2>1. CASE Program[o].kind = "sleep_seconds"
    BY <1>2, <2>1 DEF SleepTicks, Requested
  <2>2. CASE Program[o].kind # "sleep_seconds"
    BY <2>2, ProgramType DEF SleepTicks, Requested
  <2> QED  BY <2>1, <2>2
<1>5. /\ system_tick_count = now /\ Clock(o) = Seen(o, now)
      /\ Program[o].kind # "sleep_ticks" => monotonic_time_get_ticks_global = Seen(o, now)
  BY <1>2 DEF Clock, Seen, system_tick_count, monotonic_time_get_ticks_global, TicksAfter
<1>6. Seen(o, now) \in {now, 0}
  BY DEF Seen
<1> QED  BY <1>3, <1>4, <1>5, <1>6 DEF TargetTick

(* Call o is in progress, or its task is.                                   *)
Pending(o) == (op = o /\ pc # "call") \/ InQueue(o)
Sleep(o) == Program[o].kind \in Timed \cup {"sleep_ticks"}

(* The target of a sleep in progress is what was asked for.                 *)
TargetInv ==
  \A o \in Ops :
    /\ started[o] <= now
    /\ Sleep(o) /\ Pending(o) => target[o] = Seen(o, started[o]) + Requested(o)

LEMMA TargetStep == TypeOK /\ RunInv /\ NoWrap /\ TargetInv /\ [Next]_vars => TargetInv'
<1> SUFFICES ASSUME TypeOK, RunInv, NoWrap, TargetInv, [Next]_vars PROVE TargetInv'
  OBVIOUS
<1>1. /\ now \in Nat /\ started \in [Ops -> Nat] /\ target \in [Ops -> 0 .. TickMod - 1]
      /\ queue \in Seq(Ops) /\ op \in Nat
  BY OpsNat DEF TypeOK
<1>0. monotonic_time' = monotonic_time /\ \A o, t : Seen(o, t)' = Seen(o, t)
  <2>1. monotonic_time' = monotonic_time
    BY Zenon DEF Next, MainCalls, future_create_fails, sleep_create, async_create,
           wake_up_list_add_fails, wake_up_list_add, wake_up_list_link,
           wake_up_list_count, sleep_seconds_return, sleep_ticks, sleep_ticks_hlt,
           sleep_ticks_loop, executor_spawn, executor_spawn_fails,
           ExecutorRun, executor_run_top, poll_task_pending, poll_task_ready,
           executor_run_decide, executor_run_reset, executor_run_hlt,
           executor_run_cli, rtc_interrupt_handler, uart_drains, vars
  <2> QED  BY <2>1 DEF Seen
<1>2. CASE sleep_create \/ sleep_ticks
  <2>1. /\ op \in Ops /\ now' = now /\ queue' = queue
        /\ target' = [target EXCEPT ![op] = TargetTick(op)]
        /\ started' = [started EXCEPT ![op] = now]
        /\ op' = op \/ (op' = op + 1 /\ pc' = "call")
    BY <1>2 DEF sleep_create, sleep_ticks, NextCall, exec
  <2>2. TargetTick(op) = Seen(op, now) + Requested(op)
    BY <2>1, ExactTarget
  <2>3. target'[op] = Seen(op, started'[op]) + Requested(op) /\ started'[op] = now
    BY <1>1, <2>1, <2>2
  <2>4. ASSUME NEW o \in Ops, o # op
        PROVE  target'[o] = target[o] /\ started'[o] = started[o] /\ (Pending(o)' => Pending(o))
    <3>1. target'[o] = target[o] /\ started'[o] = started[o]
      BY <1>1, <2>1, <2>4
    <3>2. Pending(o)' => InQueue(o)
      BY <2>1, <2>4 DEF Pending, InQueue
    <3> QED  BY <3>1, <3>2 DEF Pending
  <2>5. ASSUME NEW o \in Ops
        PROVE  /\ started'[o] <= now'
               /\ Sleep(o) /\ Pending(o)' => target'[o] = Seen(o, started'[o]) + Requested(o)
    BY <1>1, <2>1, <2>3, <2>4 DEF TargetInv
  <2> QED  BY <1>0, <2>5, Zenon DEF TargetInv, Sleep, Seen, Requested
<1>3. CASE ~ (sleep_create \/ sleep_ticks)
  <2>1. /\ UNCHANGED sleep
        /\ \/ op' = op /\ pc' # "call" /\ (pc # "call" \/ op \notin Ops \/ ~ Sleep(op))
           \/ pc' = "call" \/ (pc' = pc /\ op' = op)
    <3>1. CASE MainCalls
      <4>1. CASE async_create
        BY <4>1 DEF async_create, kind, Sleep, Timed
      <4>2. CASE ~ async_create
        BY <1>3, <3>1, <4>2, Zenon
           DEF MainCalls, future_create_fails,
               wake_up_list_add_fails, wake_up_list_add, wake_up_list_link, AfterAdd,
               wake_up_list_count, sleep_seconds_return, sleep_ticks_hlt,
               sleep_ticks_loop, executor_spawn, executor_spawn_fails, NextCall
      <4> QED  BY <4>1, <4>2
    <3>2. CASE ExecutorRun
      BY <3>2 DEF ExecutorRun, executor_run_top, poll_task_pending, poll_task_ready,
                  executor_run_decide, executor_run_reset, executor_run_hlt,
                  executor_run_cli, main
    <3>3. CASE rtc_interrupt_handler
      BY <3>3 DEF rtc_interrupt_handler
    <3>4. CASE uart_drains \/ UNCHANGED vars
      BY <3>4 DEF uart_drains, vars, main
    <3> QED  BY <3>1, <3>2, <3>3, <3>4 DEF Next
  <2>2. now' \in Nat /\ now' >= now
    <3>1. CASE rtc_interrupt_handler
      BY <1>1, <3>1 DEF rtc_interrupt_handler
    <3>2. CASE ~ rtc_interrupt_handler
      <4>1. now' = now
        BY <3>2, Zenon DEF Next, MainCalls, future_create_fails, sleep_create, async_create,
               wake_up_list_add_fails, wake_up_list_add, wake_up_list_link,
               wake_up_list_count, sleep_seconds_return, sleep_ticks, sleep_ticks_hlt,
               sleep_ticks_loop, executor_spawn, executor_spawn_fails,
               ExecutorRun, executor_run_top, poll_task_pending, poll_task_ready,
               executor_run_decide, executor_run_reset, executor_run_hlt,
               executor_run_cli, uart_drains, vars
      <4> QED  BY <1>1, <4>1
    <3> QED  BY <3>1, <3>2
  <2>3. ASSUME NEW o \in Ops, Sleep(o), Pending(o)' PROVE Pending(o)
    <3>1. CASE InQueue(o)'
      BY <3>1, Queued DEF Pending
    <3>2. CASE op' = o /\ pc' # "call"
      BY <2>1, <2>3, <3>2 DEF Pending
    <3> QED  BY <2>3, <3>1, <3>2 DEF Pending
  <2>4. started' = started /\ target' = target
    BY <2>1 DEF sleep
  <2>5. ASSUME NEW o \in Ops
        PROVE  /\ started'[o] <= now'
               /\ Sleep(o) /\ Pending(o)' => target'[o] = Seen(o, started'[o]) + Requested(o)
    BY <1>1, <2>2, <2>3, <2>4 DEF TargetInv
  <2> QED  BY <1>0, <2>5, Zenon DEF TargetInv, Sleep, Seen, Requested
<1> QED  BY <1>2, <1>3

(* A step that ends a sleep finds the clock at its target.                  *)
LEMMA SleepEndsLate ==
  ASSUME TypeOK, RunInv, NoWrap, TargetInv, [Next]_vars, NEW o \in Ops, SleepEnds(o)
  PROVE  now >= started[o] + Requested(o)
<1>1. /\ now \in Nat /\ started[o] \in Nat /\ Requested(o) \in Nat /\ target[o] \in Nat
      /\ started[o] <= now /\ op \in Nat
  BY RequestedNat, OpsNat, BoundsAssumption DEF TypeOK, TargetInv
<1>2. /\ system_tick_count = now
      /\ Program[o].kind # "sleep_ticks" => monotonic_time_get_ticks_global = Seen(o, now)
  BY ExactTarget
(* A counter that reads 0 reaches no target but 0.                          *)
<1>6. ASSUME Seen(o, now) >= Seen(o, started[o]) + Requested(o)
      PROVE  now >= started[o] + Requested(o)
  BY <1>1, <1>6 DEF Seen
<1>7. Program[o].kind = "sleep_ticks" => \A t : Seen(o, t) = t
  BY DEF Seen
<1>3. CASE Program[o].kind = "sleep_seconds" /\ op = o /\ pc = "wait" /\ op' # op
  <2>1. target[o] = Seen(o, started[o]) + Requested(o)
    BY <1>3 DEF TargetInv, Sleep, Timed, Pending
  <2>2. sleep_seconds_return
    BY <1>3, Zenon
       DEF Next, MainCalls, future_create_fails, sleep_create, async_create,
           wake_up_list_add_fails, wake_up_list_add, wake_up_list_link,
           wake_up_list_count, sleep_ticks, sleep_ticks_hlt,
           sleep_ticks_loop, executor_spawn, executor_spawn_fails,
           ExecutorRun, executor_run_top, poll_task_pending, poll_task_ready,
           executor_run_decide, executor_run_reset, executor_run_hlt,
           executor_run_cli, rtc_interrupt_handler, uart_drains, vars, main
  <2>3. Seen(o, now) >= target[o]
    BY <1>2, <1>3, <2>2 DEF sleep_seconds_return
  <2> QED  BY <1>6, <2>1, <2>3
<1>4. CASE Program[o].kind = "sleep_ticks" /\ op = o /\ op' # op /\ loop_counter' < MAX_LOOP_COUNT
  <2>1. kind = "sleep_ticks"
    BY <1>4 DEF kind
  <2>2. pc \notin {"wait", "spawn"}
    BY <2>1 DEF RunInv, KindInv, Futures
  <2>3. sleep_ticks \/ sleep_ticks_loop
    <3>1. ~ future_create_fails
      BY <2>1 DEF future_create_fails, Futures
    <3> QED
      BY <1>4, <2>2, <3>1, Zenon
         DEF Next, MainCalls, sleep_create, async_create,
             wake_up_list_add_fails, wake_up_list_add, wake_up_list_link,
             wake_up_list_count, sleep_seconds_return, sleep_ticks_hlt,
             executor_spawn, executor_spawn_fails,
             ExecutorRun, executor_run_top, poll_task_pending, poll_task_ready,
             executor_run_decide, executor_run_reset, executor_run_hlt,
             executor_run_cli, rtc_interrupt_handler, uart_drains, vars, main
  <2>4. CASE sleep_ticks
    <3>1. ~ (system_tick_count < TargetTick(op) /\ MAX_LOOP_COUNT > 0)
      BY <1>4, <2>4 DEF sleep_ticks
    <3>2. loop_counter' = 0
      BY <2>4 DEF sleep_ticks
    <3>3. TargetTick(op) = now + Requested(o)
      BY <1>4, <1>7, ExactTarget
    <3> QED  BY <1>1, <1>2, <1>4, <3>1, <3>2, <3>3
  <2>5. CASE sleep_ticks_loop
    <3>1. ~ (system_tick_count < target[op] /\ loop_counter' < MAX_LOOP_COUNT)
      BY <1>4, <2>5 DEF sleep_ticks_loop
    <3>2. pc # "call"
      BY <2>5 DEF sleep_ticks_loop
    <3>3. target[o] = started[o] + Requested(o)
      BY <1>4, <1>7, <3>2 DEF TargetInv, Sleep, Pending
    <3> QED  BY <1>1, <1>2, <1>4, <3>1, <3>3
  <2> QED  BY <2>3, <2>4, <2>5
<1>5. CASE Program[o].kind = "sleep_future" /\ Len(queue') < Len(queue) /\ queue[cur] = o
  <2>1. queue \in Seq(Ops) /\ cur \in Nat \ {0}
    BY DEF TypeOK
  <2>2. ~ QueueKept
    BY <1>5, <2>1 DEF QueueKept
  <2>3. ~ Spawned
    <3>1. ASSUME Spawned PROVE FALSE
      <4>1. op \in Ops /\ queue' = <<op>> \o queue
        BY <3>1 DEF Spawned, TypeOK
      <4>2. Len(queue') = Len(queue) + 1 /\ Len(queue) \in Nat
        BY <2>1, <4>1
      <4> QED  BY <1>5, <4>2
    <3> QED  BY <3>1
  <2>4. poll_task_ready
    BY <2>2, <2>3, QueueSteps
  <2>5. cur \in 1 .. Len(queue) /\ FutureReady(o)
    <3>1. cur <= Len(queue) /\ FutureReady(queue[cur])
      BY <2>4, Zenon DEF poll_task_ready
    <3> QED  BY <1>5, <2>1, <3>1
  <2>6. Seen(o, now) >= target[o]
    BY <1>2, <1>5, <2>5 DEF FutureReady
  <2>7. InQueue(o)
    BY <1>5, <2>5 DEF InQueue
  <2>8. target[o] = Seen(o, started[o]) + Requested(o)
    BY <1>5, <2>7 DEF TargetInv, Sleep, Timed, Pending
  <2> QED  BY <1>6, <2>6, <2>8
<1> QED  BY <1>3, <1>4, <1>5 DEF SleepEnds

-----------------------------------------------------------------------------
(* What the list and the queue reach is allocated, and so is what the call  *)
(* in progress is about to hand to them.                                    *)
AllocInv ==
  /\ \A e \in entries : <<"entry", e>> \in heap
  /\ \A j \in 1 .. Len(queue) : {<<"task", queue[j]>>, <<"future", queue[j]>>} \subseteq heap
  /\ pc = "link" => <<"entry", op>> \in heap
  /\ pc \in {"add", "link", "count", "spawn"} /\ kind \in Futures => <<"future", op>> \in heap

(* A step that frees nothing and links nothing.                             *)
LEMMA AllocFrame ==
  ASSUME AllocInv, heap \subseteq heap', entries' = entries, queue' = queue,
         pc' \in {"add", "link", "count", "spawn"} => pc' = pc /\ op' = op
  PROVE  AllocInv'
  BY DEF AllocInv, kind

LEMMA AllocStep == TypeOK /\ CountInv /\ RunInv /\ AllocInv /\ [Next]_vars => AllocInv'
<1> SUFFICES ASSUME TypeOK, CountInv, RunInv, AllocInv, [Next]_vars PROVE AllocInv'
  OBVIOUS
<1>1. CASE sleep_create \/ async_create
  <2>1. /\ entries' = entries /\ queue' = queue /\ op' = op /\ pc' \in {"add", "spawn"}
        /\ heap \subseteq heap' /\ (kind \in Futures => <<"future", op>> \in heap')
    BY <1>1 DEF sleep_create, async_create, list, exec
  <2>2. kind' = kind
    BY <2>1 DEF kind
  <2> QED  BY <2>1, <2>2 DEF AllocInv
<1>2. CASE wake_up_list_add_fails \/ wake_up_list_count
  <2>1. /\ entries' = entries /\ queue' = queue /\ op' = op /\ pc' \in {"wait", "spawn"}
        /\ heap' = heap /\ pc \in {"add", "count"} /\ kind' = kind
    BY <1>2 DEF wake_up_list_add_fails, wake_up_list_count, AfterAdd, list, exec, kind
  <2> QED  BY <2>1 DEF AllocInv
<1>3. CASE wake_up_list_add
  <2>1. /\ entries' = entries /\ queue' = queue /\ op' = op /\ pc' = "link"
        /\ heap' = heap \cup {<<"entry", op>>} /\ pc = "add" /\ kind' = kind
    BY <1>3 DEF wake_up_list_add, list, exec, kind
  <2> QED  BY <2>1 DEF AllocInv
<1>4. CASE wake_up_list_link
  <2>1. /\ entries' = entries \cup {op} /\ queue' = queue /\ op' = op /\ pc' = "count"
        /\ heap' = heap /\ pc = "link" /\ kind' = kind
    BY <1>4 DEF wake_up_list_link, exec, kind
  <2> QED  BY <2>1 DEF AllocInv
<1>5. CASE executor_spawn
  <2>1. /\ entries' = entries /\ queue' = <<op>> \o queue /\ pc' = "call" /\ pc = "spawn"
        /\ heap \subseteq heap' /\ <<"task", op>> \in heap'
    BY <1>5 DEF executor_spawn, NextCall, list
  <2>2. op \in Ops /\ queue \in Seq(Ops) /\ <<"future", op>> \in heap
    BY <2>1 DEF TypeOK, RunInv, KindInv, AllocInv
  <2>3. /\ queue'[1] = op
        /\ \A j \in 1 .. Len(queue') : j = 1 \/ (j - 1 \in 1 .. Len(queue) /\ queue'[j] = queue[j - 1])
    BY <2>1, <2>2
  <2>4. \A j \in 1 .. Len(queue') : {<<"task", queue'[j]>>, <<"future", queue'[j]>>} \subseteq heap'
    BY <2>1, <2>2, <2>3, Zenon DEF AllocInv
  <2> QED  BY <2>1, <2>4 DEF AllocInv
<1>6. CASE poll_task_ready
  <2>1. /\ entries' = entries /\ queue' = RemoveAt(queue, cur) /\ pc' = "poll"
        /\ heap' = heap \ Reclaimed(queue[cur]) /\ cur <= Len(queue)
    BY <1>6 DEF poll_task_ready, main, list
  <2>2. queue \in Seq(Ops) /\ cur \in 1 .. Len(queue)
    BY <2>1 DEF TypeOK
  <2>3. ASSUME NEW j \in 1 .. Len(queue')
        PROVE  {<<"task", queue'[j]>>, <<"future", queue'[j]>>} \subseteq heap'
    <3> DEFINE k == IF j < cur THEN j ELSE j + 1
    <3>1. k \in 1 .. Len(queue) /\ k # cur /\ queue'[j] = queue[k]
      BY <2>1, <2>2, RemoveAtFrom
    <3> HIDE DEF k
    <3>2. queue[k] # queue[cur]
      BY <2>2, <3>1 DEF RunInv, QueueInv
    <3> QED  BY <2>1, <3>1, <3>2 DEF AllocInv, Reclaimed
  <2>4. \A e \in entries' : <<"entry", e>> \in heap'
    BY <2>1, Zenon DEF AllocInv, Reclaimed
  <2> QED  BY <2>1, <2>3, <2>4 DEF AllocInv
<1>7. CASE rtc_interrupt_handler
  <2>1. /\ entries' = entries \ Expired(now') /\ queue' = queue /\ op' = op /\ kind' = kind
        /\ heap' = heap \ {<<"entry", e>> : e \in Expired(now')}
        /\ pc' = pc \/ pc' \in {"woken", "tick_woken"}
    BY <1>7 DEF rtc_interrupt_handler, exec, kind
  <2>2. Expired(now') \subseteq entries
    BY DEF Expired
  <2>3. pc = "link" => op \notin Expired(now')
    BY <2>2, OpsNat DEF CountInv, FreshEntry, TypeOK
  <2>4. /\ \A e \in entries' : <<"entry", e>> \in heap'
        /\ \A j \in 1 .. Len(queue') : {<<"task", queue'[j]>>, <<"future", queue'[j]>>} \subseteq heap'
    BY <2>1 DEF AllocInv
  <2>5. pc' = "link" => <<"entry", op'>> \in heap'
    BY <2>1, <2>3 DEF AllocInv
  <2>6. pc' \in {"add", "link", "count", "spawn"} /\ kind' \in Futures => <<"future", op'>> \in heap'
    BY <2>1 DEF AllocInv
  <2> QED  BY <2>4, <2>5, <2>6 DEF AllocInv
<1>8. CASE Waits \/ Rounds
  BY <1>8, QuietSteps, AllocFrame DEF Quiet
<1>9. CASE executor_spawn_fails
  BY <1>9, AllocFrame DEF executor_spawn_fails, NextCall, list, exec
<1>10. CASE uart_drains \/ UNCHANGED vars
  BY <1>10, AllocFrame DEF uart_drains, vars, main, list, exec
<1> QED  BY <1>1, <1>2, <1>3, <1>4, <1>5, <1>6, <1>7, <1>8, <1>9, <1>10, Steps

-----------------------------------------------------------------------------
(* A sleep is registered after call e.                                      *)
Followed(e) == \E p \in Ops : e < p /\ Program[p].kind \in Timed

(* Why no wake-up fires while another is linked: a call followed by a sleep *)
(* is on the list only while it waits, and the list is empty when the next  *)
(* one reads its head.                                                      *)
ApartInv ==
  /\ \A e \in entries :
       /\ Program[e].kind \in Timed
       /\ Followed(e) => /\ op = e /\ pc \in {"count", "wait"}
                         /\ TicksAfter(now) < target[e]
  /\ pc \in {"add", "link"} => entries = {}
  /\ pc = "link" => nxt = 0
  /\ pc \in {"add", "link", "count"} => now <= started[op] + Latency
  /\ fault = {}

(* A step of a call that has no entry, to where it still has none.          *)
LEMMA ApartFrame ==
  ASSUME ApartInv, entries' = entries, fault' = fault,
         pc \notin {"count", "wait"}, pc' \notin {"add", "link", "count"}
  PROVE  ApartInv'
  BY Zenon DEF ApartInv

LEMMA ApartStep ==
  ASSUME SleepsApart
  PROVE  TypeOK /\ CountInv /\ RunInv /\ NoWrap /\ TargetInv /\ ApartInv /\ [Next]_vars => ApartInv'
<1> SUFFICES ASSUME TypeOK, CountInv, RunInv, NoWrap, TargetInv, ApartInv, [Next]_vars
             PROVE  ApartInv'
  OBVIOUS
<1>0. /\ now \in Nat /\ Latency \in Nat /\ entries \subseteq Ops /\ op \in Nat
      /\ started \in [Ops -> Nat] /\ target \in [Ops -> 0 .. TickMod - 1] /\ TickMod \in Nat
  BY OpsNat, BoundsAssumption DEF TypeOK
<1>1. CASE sleep_create
  <2>1. /\ pc = "call" /\ op \in Ops /\ Program[op].kind \in Timed
        /\ pc' = "add" /\ op' = op /\ entries' = entries /\ fault' = fault /\ now' = now
        /\ started' = [started EXCEPT ![op] = now]
    BY <1>1 DEF sleep_create, list, kind
  <2>2. ASSUME NEW e \in entries PROVE FALSE
    <3>1. e < op
      BY <2>1 DEF CountInv, FreshEntry
    <3>2. Followed(e)
      BY <2>1, <3>1 DEF Followed
    <3> QED  BY <2>1, <3>2 DEF ApartInv
  <2>3. now' <= started'[op'] + Latency
    BY <1>0, <2>1
  <2> QED  BY <2>1, <2>2, <2>3 DEF ApartInv
<1>2. CASE wake_up_list_add_fails
  <2>1. pc = "add" /\ pc' \in {"spawn", "wait"} /\ entries' = entries /\ fault' = fault
    BY <1>2 DEF wake_up_list_add_fails, AfterAdd, list
  <2> QED  BY <2>1, ApartFrame
<1>3. CASE wake_up_list_add
  <2>1. /\ pc = "add" /\ pc' = "link" /\ op' = op /\ entries' = entries /\ fault' = fault
        /\ now' = now /\ started' = started /\ nxt' = Newest(entries)
    BY <1>3 DEF wake_up_list_add, list, sleep
  <2>2. entries = {} /\ nxt' = 0
    BY <2>1 DEF ApartInv, Newest
  <2> QED  BY <2>1, <2>2 DEF ApartInv
<1>4. CASE wake_up_list_link
  <2>1. /\ pc = "link" /\ pc' = "count" /\ op' = op /\ entries' = entries \cup {op}
        /\ now' = now /\ started' = started /\ target' = target
        /\ monotonic_time' = monotonic_time
        /\ fault' = IF nxt # Newest(entries) THEN fault \cup {"dangling_entry"} ELSE fault
    BY <1>4 DEF wake_up_list_link, sleep
  <2>2. entries = {} /\ nxt = 0 /\ fault = {} /\ Newest({}) = 0 /\ now <= started[op] + Latency
    BY <2>1 DEF ApartInv, Newest
  <2>3. fault' = {} /\ entries' = {op}
    BY <2>1, <2>2
  <2>4. op \in Ops /\ Program[op].kind \in Timed
    BY <2>1 DEF TypeOK, RunInv, KindInv, kind
  <2>5. target[op] = Seen(op, started[op]) + Requested(op)
    BY <2>1, <2>4 DEF TargetInv, Sleep, Pending
  <2>6. ASSUME Followed(op) PROVE TicksAfter(now) < target[op]
    <3>1. Requested(op) > Latency
      <4>1. PICK p \in Ops : op < p /\ Program[p].kind \in Timed
        BY <2>6 DEF Followed
      <4> QED  BY <2>4, <4>1 DEF SleepsApart
    <3>2. Requested(op) \in Nat /\ started[op] \in Nat
      BY <1>0, <2>4, RequestedNat
    <3>3. TicksAfter(now) = Seen(op, now)
      BY <2>4, ExactTarget DEF monotonic_time_get_ticks_global, Timed
    <3> QED  BY <1>0, <2>2, <2>5, <3>1, <3>2, <3>3 DEF Seen
  <2>7. TicksAfter(now)' = TicksAfter(now)
    BY <2>1 DEF TicksAfter
  <2> QED  BY <2>1, <2>2, <2>3, <2>4, <2>6, <2>7 DEF ApartInv, Followed
<1>5. CASE wake_up_list_count
  <2>1. /\ pc = "count" /\ op' = op /\ entries' = entries /\ fault' = fault
        /\ now' = now /\ target' = target /\ pc' = IF kind \in Futures THEN "spawn" ELSE "wait"
        /\ monotonic_time' = monotonic_time
    BY <1>5 DEF wake_up_list_count, AfterAdd, sleep
  <2>2. ASSUME NEW e \in entries, Followed(e)
        PROVE  pc' = "wait"
    <3>1. e = op /\ op \in Ops /\ kind \in Timed
      BY <2>1, <2>2 DEF ApartInv, RunInv, KindInv, TypeOK
    <3>2. kind = "sleep_seconds"
      <4>1. PICK p \in Ops : op < p /\ Program[p].kind \in Timed
        BY <2>2, <3>1 DEF Followed
      <4> QED  BY <3>1, <4>1 DEF SleepsApart, kind
    <3> QED  BY <2>1, <3>2 DEF Futures
  <2>3. pc' \notin {"add", "link", "count"}
    BY <2>1
  <2>4. TicksAfter(now)' = TicksAfter(now)
    BY <2>1 DEF TicksAfter
  <2> QED  BY <2>1, <2>2, <2>3, <2>4 DEF ApartInv, Followed
<1>6. CASE sleep_seconds_return
  <2>1. /\ pc = "wait" /\ pc' = "call" /\ entries' = entries /\ fault' = fault
        /\ TicksAfter(now) >= target[op]
    BY <1>6 DEF sleep_seconds_return, NextCall, list, monotonic_time_get_ticks_global
  <2>2. op \in Ops
    BY <2>1 DEF TypeOK
  <2>3. TicksAfter(now) \in Nat /\ target[op] \in Nat
    BY <1>0, <2>2, TickRange DEF TicksAfter
  <2>4. \A e \in entries : ~ Followed(e)
    BY <2>1, <2>3 DEF ApartInv
  <2> QED  BY <2>1, <2>4 DEF ApartInv
<1>7. CASE rtc_interrupt_handler
  <2>1. /\ Prompt /\ op' = op /\ entries' = entries \ Expired(now') /\ fault' = fault
        /\ nxt' = nxt /\ started' = started /\ target' = target
        /\ now' \in {now, now + 1} /\ monotonic_time' = monotonic_time
    BY <1>7 DEF rtc_interrupt_handler, sleep
  <2>2. pc' = pc \/ (pc \in {"halted", "tick_halted"} /\ pc' \in {"woken", "tick_woken"})
    BY <1>7 DEF rtc_interrupt_handler
  <2>3. ASSUME NEW e \in entries', Followed(e)
        PROVE  op' = e /\ pc' \in {"count", "wait"} /\ TicksAfter(now)' < target'[e]
    <3>1. e \in entries /\ op = e /\ pc \in {"count", "wait"}
      BY <2>1, <2>3 DEF ApartInv
    <3>2. ~ (target[e] <= TicksAfter(now'))
      BY <2>1, <2>3, <3>1 DEF Expired
    <3>3. TicksAfter(now') \in Nat /\ target[e] \in Nat
      <4>1. now' \in Nat /\ target[e] \in Nat
        BY <1>0, <2>1, <3>1
      <4>2. now' % TickMod \in Nat
        <5>1. now' % TickMod \in 0 .. TickMod - 1
          BY <4>1, TickRange
        <5> QED  BY <1>0, <5>1
      <4> QED  BY <4>1, <4>2 DEF TicksAfter
    <3>4. TicksAfter(now)' = TicksAfter(now')
      BY <2>1 DEF TicksAfter
    <3> QED  BY <2>1, <2>2, <3>1, <3>2, <3>3, <3>4
  <2>4. pc' \in {"add", "link", "count"} => pc' = pc /\ now' <= started'[op'] + Latency
    <3> SUFFICES ASSUME pc' \in {"add", "link", "count"}
                 PROVE  pc' = pc /\ now' <= started'[op'] + Latency
      OBVIOUS
    <3>1. pc' = pc
      BY <2>2
    <3>2. op \in Ops
      BY <3>1 DEF TypeOK
    <3>3. now < started[op] + Latency
      BY <2>1, <3>1 DEF Prompt
    <3> QED  BY <1>0, <2>1, <3>1, <3>2, <3>3
  <2> QED  BY <2>1, <2>3, <2>4 DEF ApartInv, Followed
<1>8. CASE poll_task_ready
  <2>1. pc = "poll" /\ pc' = pc /\ entries' = entries
    BY <1>8 DEF poll_task_ready, main, list
  <2>2. queue[cur] \in Ops
    <3>1. queue \in Seq(Ops) /\ cur \in Nat \ {0} /\ cur <= Len(queue)
      BY <1>8 DEF TypeOK, poll_task_ready
    <3> QED  BY <3>1
  <2>3. ~ CleanupFrees(queue[cur])
    BY <2>2 DEF CleanupFrees, SleepsApart
  <2>4. fault' = fault
    BY <1>8, <2>3 DEF poll_task_ready
  <2> QED  BY <2>1, <2>4, ApartFrame
<1>9. CASE future_create_fails \/ async_create \/ sleep_ticks \/ sleep_ticks_hlt
           \/ sleep_ticks_loop \/ executor_spawn \/ executor_spawn_fails
  <2>1. /\ entries' = entries /\ fault' = fault /\ pc \notin {"count", "wait"}
        /\ pc' \in {"call", "spawn", "tick_hlt", "tick_halted"}
    BY <1>9, Zenon DEF future_create_fails, async_create, sleep_ticks, sleep_ticks_hlt,
                sleep_ticks_loop, executor_spawn, executor_spawn_fails, NextCall, list
  <2> QED  BY <2>1, ApartFrame
<1>10. CASE ExecutorRun /\ ~ poll_task_ready
  <2>1. /\ entries' = entries /\ fault' = fault /\ pc \notin {"count", "wait"}
        /\ pc' \in {"poll", "hlt", "reset", "run", "halted"}
    BY <1>10 DEF ExecutorRun, executor_run_top, poll_task_pending, executor_run_decide,
                 executor_run_reset, executor_run_hlt, executor_run_cli, list
  <2> QED  BY <2>1, ApartFrame
<1>11. CASE uart_drains \/ UNCHANGED vars
  <2>1. UNCHANGED <<pc, op, nxt, now, monotonic_time, started, target, entries,
                    fault>>
    BY <1>11 DEF uart_drains, vars, main, list, sleep
  <2> QED  BY <2>1, Zenon DEF ApartInv, TicksAfter
<1> QED
  BY <1>1, <1>2, <1>3, <1>4, <1>5, <1>6, <1>7, <1>8, <1>9, <1>10, <1>11 DEF Next, MainCalls

-----------------------------------------------------------------------------
(* The facts about finite sets.                                             *)
INSTANCE FiniteSetTheorems

(* Any set of calls is finite.                                              *)
LEMMA OpsFinite == \A S \in SUBSET Ops : IsFiniteSet(S) /\ Cardinality(S) \in Nat
<1>1. IsFiniteSet(Ops)
  BY OpsNat, FS_Interval DEF Ops
<1> QED  BY <1>1, FS_Subset, FS_CardinalityType

(* A non-empty set of calls has a latest one, so Newest is an entry or 0.   *)
(* The set of entries later than e gets strictly smaller as e grows, and    *)
(* strict inclusion of finite sets is well-founded.                         *)
LEMMA NewestType ==
  ASSUME NEW S \in SUBSET Ops
  PROVE  Newest(S) \in S \cup {0}
<1>1. CASE S = {}
  BY <1>1 DEF Newest
<1>2. CASE S # {}
  <2> DEFINE Later(e) == {f \in S : f > e}
             T == {Later(e) : e \in S}
             R == StrictSubsetOrdering(Ops)
  <2>1. IsWellFoundedOn(R, FiniteSubsetsOf(Ops))
    BY FS_StrictSubsetOrderingWellFounded
  <2>2. T \subseteq FiniteSubsetsOf(Ops) /\ T # {}
    BY <1>2, OpsFinite, Zenon DEF FiniteSubsetsOf
  <2>3. PICK x \in T : \A y \in T : ~ (<<y, x>> \in R)
    <3> HIDE DEF T, R
    <3> QED  BY <2>1, <2>2, WFMin
  <2>4. PICK e \in S : x = Later(e)
    BY <2>3
  <2>5. \A f \in S : f \in Int
    BY OpsNat
  <2>6. ASSUME NEW f \in S, f > e PROVE FALSE
    <3>1. Later(f) \subseteq Later(e)
      BY <2>5, <2>6
    <3>2. f \in Later(e) /\ f \notin Later(f)
      BY <2>5, <2>6
    <3>3. <<Later(f), Later(e)>> \in R
      BY <3>1, <3>2 DEF StrictSubsetOrdering
    <3> QED  BY <2>3, <2>4, <3>3
  <2>7. \A f \in S : f <= e
    BY <2>5, <2>6
  <2> QED  BY <1>2, <2>7 DEF Newest
<1> QED  BY <1>1, <1>2

LEMMA SetsOfCalls == FiniteFacts
<1>1. \A S \in SUBSET Ops : Cardinality(S) \in Nat /\ Newest(S) \in S \cup {0}
  BY OpsFinite, NewestType
<1>2. \A S \in SUBSET Ops, o \in Ops : o \notin S => Cardinality(S \cup {o}) = Cardinality(S) + 1
  BY OpsFinite, FS_AddElement
<1>3. ASSUME NEW S \in SUBSET Ops, NEW T \in SUBSET Ops, T \subseteq S
      PROVE  Cardinality(S \ T) = Cardinality(S) - Cardinality(T)
  <2>1. S \cap T = T
    BY <1>3
  <2> QED  BY <2>1, OpsFinite, FS_Difference, Zenon
<1> QED  BY <1>1, <1>2, <1>3 DEF FiniteFacts

-----------------------------------------------------------------------------
(* The theorems.                                                            *)

(* Every variable of the runtime keeps its type, whatever the main thread   *)
(* starts and however the RTC interrupt preempts it.                        *)
THEOREM TypeCorrect == Spec => []TypeOK
<1>1. Init => TypeOK
  <2> SUFFICES ASSUME Init PROVE TypeOK
    OBVIOUS
  <2>1. \A o \in Ops : 0 <= Program[o].n
    BY ProgramType
  <2>2. 0 \in 0 .. TickMod - 1
    BY BoundsAssumption
  <2>3. op \in 1 .. Len(Program) + 1
    BY OpsNat DEF Init
  <2>4. iflag \in BOOLEAN /\ has_ready \in BOOLEAN /\ g_should_poll \in BOOLEAN
    BY Zenon DEF Init
  <2> QED  BY <2>1, <2>2, <2>3, <2>4 DEF Init, TypeOK
<1> QED  BY <1>1, TypeStep, SetsOfCalls, PTL DEF Spec

(* However the handler interleaves with the load and the reset of           *)
(* g_should_poll, the executor never halts with a task in its queue.        *)
THEOREM HaltsOnlyWhenIdle == Spec => []HaltOnlyWhenIdle
<1>1. Init => RoundAtFront /\ HaltOnlyWhenIdle
  BY DEF Init, RoundAtFront, HaltOnlyWhenIdle
<1> QED  BY <1>1, IdleStep, TypeCorrect, PTL DEF Spec

(* The counters of the executor and of the wake-up list agree with the      *)
(* lists they count, also while the handler removes entries in the middle   *)
(* of wake_up_list_add.                                                     *)
THEOREM CountsAlwaysAgree == Spec => []CountsAgree
<1>1. Init => CountInv
  BY FS_EmptySet DEF Init, CountInv, FreshEntry, CountsAgree
<1>2. CountInv => CountsAgree
  BY DEF CountInv
<1> QED  BY <1>1, <1>2, CountStep, SetsOfCalls, TypeCorrect, PTL DEF Spec

(* Whatever fails and in whatever order tasks complete and wake-ups fire,   *)
(* only a future that executor_spawn dropped has no owner.                  *)
THEOREM LeakFree == Spec => []NoLeak
<1>1. Init => LeakInv
  BY DEF Init, LeakInv, NoLeak
<1>2. LeakInv => NoLeak
  BY DEF LeakInv
<1> QED  BY <1>1, <1>2, LeakStep, TypeCorrect, PTL DEF Spec

LEMMA RunInvariant == Spec => []RunInv
<1>1. Init => RunInv
  BY DEF Init, RunInv, KindInv, QueueInv
<1>2. TypeOK /\ RunInv /\ [Next]_vars => RunInv'
  BY KindStep, QueueStep DEF RunInv
<1> QED  BY <1>1, <1>2, TypeCorrect, PTL DEF Spec

LEMMA TargetInvariant == Spec /\ []NoWrap => []TargetInv
<1>1. Init => TargetInv
  <2> SUFFICES ASSUME Init, NEW o \in Ops
               PROVE  started[o] <= now /\ ~ Pending(o)
    BY DEF TargetInv
  <2> QED  BY DEF Init, Pending, InQueue
<1> QED  BY <1>1, TargetStep, TypeCorrect, RunInvariant, PTL DEF Spec

(* Until the tick counter wraps around no sleep ends early, whichever way   *)
(* it waits and whenever the interrupts come.                               *)
THEOREM SleepsLongEnough == Spec /\ []NoWrap => NeverEarly
<1>1. TypeOK /\ RunInv /\ NoWrap /\ TargetInv /\ [Next]_vars
        => [\A o \in Ops : SleepEnds(o) => now >= started[o] + Requested(o)]_vars
  BY SleepEndsLate
<1> QED  BY <1>1, TypeCorrect, RunInvariant, TargetInvariant, PTL DEF Spec, NeverEarly

(* The calls of kernel_main, and any others that start no sleep while one   *)
(* is pending, never reach memory that has been freed: not through the      *)
(* queue, not through the wake-up list, whenever the interrupts come and    *)
(* whichever allocations fail.                                              *)
THEOREM MemorySafe ==
  ASSUME SleepsApart
  PROVE  Spec /\ []NoWrap => []NoUseAfterFree
<1>1. Init => CountInv
  BY FS_EmptySet DEF Init, CountInv, FreshEntry, CountsAgree
<1>2. Init => AllocInv /\ ApartInv
  BY DEF Init, AllocInv, ApartInv
<1>3. Spec => []CountInv
  BY <1>1, CountStep, SetsOfCalls, TypeCorrect, PTL DEF Spec
<1>4. Spec => []AllocInv
  BY <1>2, <1>3, AllocStep, TypeCorrect, RunInvariant, PTL DEF Spec
<1>5. Spec /\ []NoWrap => []ApartInv
  BY <1>2, <1>3, ApartStep, TypeCorrect, RunInvariant, TargetInvariant, PTL DEF Spec
<1>6. AllocInv /\ ApartInv => NoUseAfterFree
  BY Zenon DEF AllocInv, ApartInv, NoUseAfterFree
<1> QED  BY <1>4, <1>5, <1>6, PTL
=============================================================================
