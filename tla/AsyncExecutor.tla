--------------------------- MODULE AsyncExecutor ---------------------------
(***************************************************************************)
(* The asynchronous runtime of the kernel: the main thread that starts     *)
(* sleeps and futures and then runs the executor loop forever              *)
(* (async_executor.c), the wake-up list and the clock (rtc.c), and the RTC *)
(* interrupt handler (kernel.c) that preempts it.                          *)
(*                                                                         *)
(* There is one CPU.  The handler is entered through an interrupt gate and *)
(* never executes sti, so it is one atomic step; the main thread is cut at *)
(* every access to a variable it shares with the handler.                  *)
(***************************************************************************)
EXTENDS Integers, Sequences, FiniteSets

CONSTANTS
  Program,         \* the calls of the main thread before executor_run
  RATE,            \* RTC interrupts per second (256 in the code)
  TickMod,         \* tick counters count modulo TickMod (2^32 in the code)
  MAX_LOOP_COUNT,  \* the bound of the hlt loop of sleep_ticks
  MallocFails,     \* TRUE if malloc may return NULL
  Latency,         \* interrupts taken between the reading of the clock for a
                   \* target and the end of wake_up_list_add, at most
  MaxTick          \* bound: the clock passes it only for a sleep in progress

Blocking == {"sleep_seconds", "sleep_ticks"}
Futures  == {"sleep_future", "serial_future", "rtc_future"}
Timed    == {"sleep_seconds", "sleep_future"}

ASSUME ProgramAssumption == Program \in Seq([kind : Blocking \cup Futures, n : Nat])
ASSUME BoundsAssumption ==
  /\ RATE \in Nat \ {0} /\ TickMod \in Nat \ {0}
  /\ MAX_LOOP_COUNT \in Nat /\ MaxTick \in Nat /\ Latency \in Nat
  /\ MallocFails \in BOOLEAN

Ops == 1 .. Len(Program)     \* a call also names what it allocates

VARIABLES
  iflag,          \* EFLAGS.IF: the CPU accepts interrupts
  pc, op,         \* where the main thread is, in which call of Program
  loop_counter,   \* local of sleep_ticks
  nxt,            \* new_entry->next, 0 for NULL (local of wake_up_list_add)
  cur, has_ready, \* locals of executor_run: position in the queue, has_ready_tasks
  now,            \* RTC interrupts taken so far
  monotonic_time, \* the pointer to the MonotonicTime: "NULL" or "allocated"
  started,        \* history: value of now when a sleep computed its target
  target,         \* target_tick of a sleep, wake_up_tick of its entry
  entries,        \* wake_up_list->entries; see Newest
  entry_count,    \* wake_up_list->entry_count
  queue,          \* executor->task_queue
  task_count,     \* executor->task_count
  g_should_poll,
  written,        \* progress of an AsyncSerialWriteFuture
  tx_empty,       \* the UART's transmitter-empty status bit
  heap,           \* live heap objects <<type, op>>
  fault,          \* memory errors met so far
  dropped         \* history: futures executor_spawn had no memory to keep

main  == <<pc, op, loop_counter, nxt, cur, has_ready>>
sleep == <<started, target>>
list  == <<entries, entry_count>>
exec  == <<queue, task_count, written, tx_empty>>
vars  == <<iflag, main, now, monotonic_time, sleep, list, exec, g_should_poll,
           heap, fault, dropped>>

-----------------------------------------------------------------------------
(* The two tick counters, which one handler increments: system_tick_count,  *)
(* for sleep_ticks, and monotonic_time->tick_count, for everything else,    *)
(* which reads 0 for ever if there was no memory for it.                    *)
system_tick_count == now % TickMod
TicksAfter(t) == IF monotonic_time # "NULL" THEN t % TickMod ELSE 0
monotonic_time_get_ticks_global == TicksAfter(now)

kind == Program[op].kind

(* Ticks a call sleeps: sleep_seconds multiplies in 32 bits.                *)
SleepTicks(o) ==
  IF Program[o].kind = "sleep_seconds"
  THEN (Program[o].n * RATE) % TickMod
  ELSE Program[o].n

(* Mutant: the target is not relative to the current tick.                  *)
TargetTick_Absolute(o) == SleepTicks(o) % TickMod

Clock(o) == IF Program[o].kind = "sleep_ticks" THEN system_tick_count
            ELSE monotonic_time_get_ticks_global
TargetTick(o) == (Clock(o) + SleepTicks(o)) % TickMod

(* Entries are pushed at the front and calls are numbered in order, so the  *)
(* entry at the front of the list is the one of the latest call.            *)
Newest(S) == IF S = {} THEN 0 ELSE CHOOSE e \in S : \A f \in S : f <= e

NextCall == op' = op + 1 /\ pc' = "call"

Init ==
  /\ iflag = TRUE /\ pc = "call" /\ op = 1
  /\ loop_counter = 0 /\ nxt = 0 /\ cur = 1 /\ has_ready = FALSE
  /\ now = 0
  /\ monotonic_time \in {"allocated"} \cup (IF MallocFails THEN {"NULL"} ELSE {})
  /\ started = [o \in Ops |-> 0] /\ target = [o \in Ops |-> 0]
  /\ entries = {} /\ entry_count = 0
  /\ queue = <<>> /\ task_count = 0 /\ g_should_poll = TRUE
  /\ written = [o \in Ops |-> 0] /\ tx_empty \in BOOLEAN
  /\ heap = {} /\ fault = {} /\ dropped = {}

-----------------------------------------------------------------------------
(* The calls of the main thread.                                            *)

(* malloc of a Future returns NULL: the caller skips the spawn.             *)
future_create_fails ==
  /\ pc = "call" /\ op \in Ops /\ kind \in Futures /\ MallocFails
  /\ NextCall
  /\ UNCHANGED <<iflag, loop_counter, nxt, cur, has_ready, now, monotonic_time,
                 sleep, list, exec, g_should_poll, heap, fault, dropped>>

(* sleep_future_create and sleep_seconds up to the call of                  *)
(* wake_up_list_add; the target is computed modulo the counter's width.     *)
sleep_create ==
  /\ pc = "call" /\ op \in Ops /\ kind \in Timed
  /\ target' = [target EXCEPT ![op] = TargetTick(op)]
  /\ started' = [started EXCEPT ![op] = now]
  /\ heap' = IF kind \in Futures THEN heap \cup {<<"future", op>>} ELSE heap
  /\ pc' = "add"
  /\ UNCHANGED <<iflag, op, loop_counter, nxt, cur, has_ready, now,
                 monotonic_time, list, exec, g_should_poll, fault, dropped>>

AfterAdd == IF kind \in Futures THEN "spawn" ELSE "wait"

(* wake_up_list_add returns early: no list, or malloc of the entry failed.  *)
wake_up_list_add_fails ==
  /\ pc = "add" /\ MallocFails
  /\ pc' = AfterAdd
  /\ UNCHANGED <<iflag, op, loop_counter, nxt, cur, has_ready, now,
                 monotonic_time, sleep, list, exec, g_should_poll, heap, fault,
                 dropped>>

(* The new entry is allocated and its next field read from the list head.   *)
wake_up_list_add ==
  /\ pc = "add"
  /\ nxt' = Newest(entries)
  /\ heap' = heap \cup {<<"entry", op>>}
  /\ pc' = "link"
  /\ UNCHANGED <<iflag, op, loop_counter, cur, has_ready, now, monotonic_time,
                 sleep, list, exec, g_should_poll, fault, dropped>>

(* wake_up_list->entries = new_entry.  If the handler has freed the entry   *)
(* that next was read from, the list now runs through freed memory.         *)
wake_up_list_link ==
  /\ pc = "link"
  /\ entries' = entries \cup {op}
  /\ fault' = IF nxt # Newest(entries) THEN fault \cup {"dangling_entry"} ELSE fault
  /\ pc' = "count"
  /\ UNCHANGED <<iflag, op, loop_counter, nxt, cur, has_ready, now,
                 monotonic_time, sleep, entry_count, exec, g_should_poll, heap,
                 dropped>>

(* Mutant: the increment is lost.                                           *)
wake_up_list_count_Lost ==
  /\ pc = "count"
  /\ pc' = AfterAdd
  /\ UNCHANGED <<iflag, op, loop_counter, nxt, cur, has_ready, now,
                 monotonic_time, sleep, list, exec, g_should_poll, heap, fault,
                 dropped>>

wake_up_list_count ==
  /\ pc = "count"
  /\ entry_count' = entry_count + 1
  /\ pc' = AfterAdd
  /\ UNCHANGED <<iflag, op, loop_counter, nxt, cur, has_ready, now,
                 monotonic_time, sleep, entries, exec, g_should_poll, heap,
                 fault, dropped>>

(* The busy loop of sleep_seconds reads a tick that has reached the target. *)
sleep_seconds_return ==
  /\ pc = "wait"
  /\ monotonic_time_get_ticks_global >= target[op]
  /\ NextCall
  /\ UNCHANGED <<iflag, loop_counter, nxt, cur, has_ready, now, monotonic_time,
                 sleep, list, exec, g_should_poll, heap, fault, dropped>>

(* sleep_ticks up to the first test of its loop, which reads start_tick: an *)
(* early return for 0, sti, and no halt at all if the target has wrapped.   *)
sleep_ticks ==
  /\ pc = "call" /\ op \in Ops /\ kind = "sleep_ticks"
  /\ started' = [started EXCEPT ![op] = now]
  /\ target' = [target EXCEPT ![op] = TargetTick(op)]
  /\ iflag' = (iflag \/ Program[op].n # 0)
  /\ loop_counter' = 0
  /\ IF system_tick_count < TargetTick(op) /\ MAX_LOOP_COUNT > 0
     THEN pc' = "tick_hlt" /\ op' = op
     ELSE NextCall
  /\ UNCHANGED <<nxt, cur, has_ready, now, monotonic_time, list, exec,
                 g_should_poll, heap, fault, dropped>>

(* hlt.  An interrupt taken just before it is not noticed.                  *)
sleep_ticks_hlt ==
  /\ pc = "tick_hlt" /\ pc' = "tick_halted"
  /\ UNCHANGED <<iflag, op, loop_counter, nxt, cur, has_ready, now,
                 monotonic_time, sleep, list, exec, g_should_poll, heap, fault,
                 dropped>>

(* The CPU is awake again: read the counter and test the loop condition.    *)
sleep_ticks_loop ==
  /\ pc = "tick_woken"
  /\ loop_counter' = loop_counter + 1
  /\ IF /\ system_tick_count < target[op]
        /\ loop_counter' < MAX_LOOP_COUNT
     THEN pc' = "tick_hlt" /\ op' = op
     ELSE NextCall
  /\ UNCHANGED <<iflag, nxt, cur, has_ready, now, monotonic_time, sleep, list,
                 exec, g_should_poll, heap, fault, dropped>>

(* async_serial_write_create and async_rtc_read_time_create.                *)
async_create ==
  /\ pc = "call" /\ op \in Ops /\ kind \in {"serial_future", "rtc_future"}
  /\ heap' = heap \cup {<<"future", op>>}
  /\ pc' = "spawn"
  /\ UNCHANGED <<iflag, op, loop_counter, nxt, cur, has_ready, now,
                 monotonic_time, sleep, list, exec, g_should_poll, fault,
                 dropped>>

(* executor_spawn with a Task; the waker may be NULL, which is tolerated.   *)
executor_spawn ==
  /\ pc = "spawn"
  /\ \E waker \in {{<<"waker", op>>}} \cup (IF MallocFails THEN {{}} ELSE {}) :
       heap' = heap \cup {<<"task", op>>} \cup waker
  /\ queue' = <<op>> \o queue
  /\ task_count' = task_count + 1
  /\ g_should_poll' = TRUE
  /\ NextCall
  /\ UNCHANGED <<iflag, loop_counter, nxt, cur, has_ready, now, monotonic_time,
                 sleep, list, written, tx_empty, fault, dropped>>

(* executor_spawn without memory for the Task: the future is dropped.       *)
executor_spawn_fails ==
  /\ pc = "spawn" /\ MallocFails
  /\ dropped' = dropped \cup {op}
  /\ NextCall
  /\ UNCHANGED <<iflag, loop_counter, nxt, cur, has_ready, now, monotonic_time,
                 sleep, list, exec, g_should_poll, heap, fault>>

-----------------------------------------------------------------------------
(* executor_run.                                                            *)

executor_run_top ==
  /\ \/ pc = "call" /\ op \notin Ops
     \/ pc = "run"
  /\ has_ready' = FALSE /\ cur' = 1 /\ pc' = "poll"
  /\ UNCHANGED <<iflag, op, loop_counter, nxt, now, monotonic_time, sleep, list,
                 exec, g_should_poll, heap, fault, dropped>>

(* async_serial_write_poll writes one character if there is one left and    *)
(* the transmitter is empty.                                                *)
SerialWrites(t) ==
  Program[t].kind = "serial_future" /\ written[t] < Program[t].n /\ tx_empty

(* Mutant: a sleep is ready at the very tick of its target only.            *)
FutureReady_Equal(t) ==
  CASE Program[t].kind = "sleep_future"  -> monotonic_time_get_ticks_global = target[t]
    [] Program[t].kind = "serial_future" ->
         Program[t].n = written[t] + (IF SerialWrites(t) THEN 1 ELSE 0)
    [] OTHER -> TRUE

(* Whether the future's poll function returns FUTURE_READY.  That of an     *)
(* AsyncRTCFuture may: it returns FUTURE_PENDING while the clock cannot be  *)
(* read.                                                                    *)
FutureReady(t) ==
  CASE Program[t].kind = "sleep_future"  -> monotonic_time_get_ticks_global >= target[t]
    [] Program[t].kind = "serial_future" ->
         Program[t].n = written[t] + (IF SerialWrites(t) THEN 1 ELSE 0)
    [] OTHER -> TRUE

FuturePending(t) == ~ FutureReady(t) \/ Program[t].kind = "rtc_future"

SerialEffect(t) ==
  /\ written' = IF SerialWrites(t) THEN [written EXCEPT ![t] = @ + 1] ELSE written
  /\ tx_empty' = (tx_empty /\ ~ SerialWrites(t))

(* poll_task returned false: the task is kept and counts as ready.          *)
poll_task_pending ==
  /\ pc = "poll" /\ cur <= Len(queue) /\ FuturePending(queue[cur])
  /\ SerialEffect(queue[cur])
  /\ has_ready' = TRUE /\ cur' = cur + 1
  /\ UNCHANGED <<iflag, pc, op, loop_counter, nxt, now, monotonic_time, sleep,
                 list, queue, task_count, g_should_poll, heap, fault, dropped>>

(* Mutant: the task after the completed one is unlinked.                    *)
RemoveAt_OffByOne(q, i) == [j \in 1 .. Len(q) - 1 |-> IF j <= i THEN q[j] ELSE q[j + 1]]

RemoveAt(q, i) == [j \in 1 .. Len(q) - 1 |-> IF j < i THEN q[j] ELSE q[j + 1]]

(* Mutant: the waker is forgotten.                                          *)
Reclaimed_KeepsWaker(t) == {<<"future", t>>, <<"task", t>>}

Reclaimed(t) == {<<"waker", t>>, <<"future", t>>, <<"task", t>>}

(* The cleanup function of an AsyncRTCFuture has freed the future that the  *)
(* executor frees again.                                                    *)
CleanupFrees(t) == Program[t].kind = "rtc_future"

(* poll_task returned true: unlink the task and free what it owns.          *)
poll_task_ready ==
  /\ pc = "poll" /\ cur <= Len(queue) /\ FutureReady(queue[cur])
  /\ SerialEffect(queue[cur])
  /\ heap' = heap \ Reclaimed(queue[cur])
  /\ fault' = IF CleanupFrees(queue[cur]) THEN fault \cup {"double_free"} ELSE fault
  /\ queue' = RemoveAt(queue, cur)
  /\ task_count' = task_count - 1
  /\ UNCHANGED <<iflag, main, now, monotonic_time, sleep, list, g_should_poll,
                 dropped>>

(* Mutant: pending tasks do not keep the executor awake.                    *)
executor_run_decide_IgnoresTasks ==
  /\ pc = "poll" /\ cur > Len(queue)
  /\ pc' = IF ~ g_should_poll THEN "hlt" ELSE "reset"
  /\ UNCHANGED <<iflag, op, loop_counter, nxt, cur, has_ready, now,
                 monotonic_time, sleep, list, exec, g_should_poll, heap, fault,
                 dropped>>

(* The end of a round: load g_should_poll and choose.                       *)
executor_run_decide ==
  /\ pc = "poll" /\ cur > Len(queue)
  /\ pc' = IF ~ has_ready /\ ~ g_should_poll THEN "hlt" ELSE "reset"
  /\ UNCHANGED <<iflag, op, loop_counter, nxt, cur, has_ready, now,
                 monotonic_time, sleep, list, exec, g_should_poll, heap, fault,
                 dropped>>

executor_run_reset ==
  /\ pc = "reset" /\ pc' = "run"
  /\ g_should_poll' = FALSE
  /\ UNCHANGED <<iflag, op, loop_counter, nxt, cur, has_ready, now,
                 monotonic_time, sleep, list, exec, heap, fault, dropped>>

(* sti; hlt: no interrupt is taken between the two if IF was clear.         *)
executor_run_hlt ==
  /\ pc = "hlt" /\ pc' = "halted" /\ iflag' = TRUE
  /\ UNCHANGED <<op, loop_counter, nxt, cur, has_ready, now, monotonic_time,
                 sleep, list, exec, g_should_poll, heap, fault, dropped>>

executor_run_cli ==
  /\ pc = "woken" /\ pc' = "run" /\ iflag' = FALSE
  /\ UNCHANGED <<op, loop_counter, nxt, cur, has_ready, now, monotonic_time,
                 sleep, list, exec, g_should_poll, heap, fault, dropped>>

-----------------------------------------------------------------------------
(* The hardware.                                                            *)

(* Mutant: an entry is run at the very tick it was registered for only.     *)
Expired_Equal(t) == {e \in entries : target[e] = TicksAfter(t)}

(* wake_up_list_check_and_execute at tick t runs and frees these entries.   *)
Expired(t) == {e \in entries : target[e] <= TicksAfter(t)}

(* The calls are short: a few microseconds, where a tick takes four         *)
(* milliseconds.                                                            *)
Prompt == pc \in {"add", "link", "count"} => now < started[op] + Latency

(* The bound on the clock lets it reach every target and pass it.           *)
ClockRuns == now < MaxTick \/ \E o \in Ops : system_tick_count <= target[o]

(* rtc_interrupt_handler: both tick counters, the wake-up list (whose two   *)
(* callbacks only call executor_wake_up) and the end of a hlt.              *)
rtc_interrupt_handler ==
  /\ iflag /\ Prompt
  /\ now' = IF ClockRuns THEN now + 1 ELSE now
  /\ entries' = entries \ Expired(now')
  /\ entry_count' = entry_count - Cardinality(Expired(now'))
  /\ heap' = heap \ {<<"entry", e>> : e \in Expired(now')}
  /\ g_should_poll' = (g_should_poll \/ Expired(now') # {})
  /\ pc' = CASE pc = "halted"      -> "woken"
             [] pc = "tick_halted" -> "tick_woken"
             [] OTHER              -> pc
  /\ UNCHANGED <<iflag, op, loop_counter, nxt, cur, has_ready, monotonic_time, sleep,
                 exec, fault, dropped>>

(* The UART has shifted its character out.                                  *)
uart_drains ==
  /\ ~ tx_empty /\ tx_empty' = TRUE
  /\ UNCHANGED <<iflag, main, now, monotonic_time, sleep, list, queue,
                 task_count, written, g_should_poll, heap, fault, dropped>>

-----------------------------------------------------------------------------
MainCalls ==
  \/ future_create_fails \/ sleep_create \/ async_create
  \/ wake_up_list_add_fails \/ wake_up_list_add
  \/ wake_up_list_link \/ wake_up_list_count
  \/ sleep_seconds_return
  \/ sleep_ticks \/ sleep_ticks_hlt \/ sleep_ticks_loop
  \/ executor_spawn \/ executor_spawn_fails

ExecutorRun ==
  \/ executor_run_top \/ poll_task_pending \/ poll_task_ready
  \/ executor_run_decide \/ executor_run_reset
  \/ executor_run_hlt \/ executor_run_cli

(* A behaviour represents the program up to its first memory error.         *)
Next ==
  \/ MainCalls
  \/ ExecutorRun
  \/ rtc_interrupt_handler
  \/ uart_drains

Spec == Init /\ [][Next]_vars

(* The main thread runs whenever it can, the RTC keeps interrupting a CPU   *)
(* that accepts interrupts, and the UART transmits.                         *)
Fairness ==
  /\ WF_vars(MainCalls \/ ExecutorRun)
  /\ WF_vars(rtc_interrupt_handler)
  /\ WF_vars(uart_drains)

FairSpec == Spec /\ Fairness

-----------------------------------------------------------------------------
(* Safety.                                                                  *)

Objects == {"future", "entry", "task", "waker"} \X Ops

InQueue(o) == \E j \in 1 .. Len(queue) : queue[j] = o

(* Every variable keeps the type its C declaration and use give it.         *)
TypeOK ==
  /\ iflag \in BOOLEAN /\ has_ready \in BOOLEAN /\ g_should_poll \in BOOLEAN
  /\ pc \in {"call", "add", "link", "count", "wait", "spawn", "tick_hlt",
             "tick_halted", "tick_woken", "run", "poll", "reset", "hlt",
             "halted", "woken"}
  /\ op \in 1 .. Len(Program) + 1
  /\ pc \in {"add", "link", "count", "wait", "spawn", "tick_hlt",
             "tick_halted", "tick_woken"} => op \in Ops
  /\ loop_counter \in Nat /\ nxt \in Ops \cup {0} /\ cur \in Nat \ {0}
  /\ now \in Nat /\ monotonic_time \in {"NULL", "allocated"}
  /\ started \in [Ops -> Nat] /\ target \in [Ops -> 0 .. TickMod - 1]
  /\ entries \subseteq Ops /\ entry_count \in Int
  /\ queue \in Seq(Ops) /\ task_count \in Int
  /\ written \in [Ops -> Nat] /\ tx_empty \in BOOLEAN
  /\ \A o \in Ops : written[o] <= Program[o].n
  /\ heap \subseteq Objects /\ dropped \subseteq Ops
  /\ fault \subseteq {"dangling_entry", "double_free"}

(* task_count is the length of the queue, and entry_count the length of the *)
(* wake-up list except between the link and the increment of                *)
(* wake_up_list_add, where the handler may even take it below zero.         *)
CountsAgree ==
  /\ task_count = Len(queue)
  /\ entry_count = Cardinality(entries) - (IF pc = "count" THEN 1 ELSE 0)

(* The executor halts only with an empty queue: g_should_poll may be set by *)
(* the handler after the load that chose to halt, or cleared by the reset   *)
(* after it, and no pending task can be left behind by that lost wake-up.   *)
HaltOnlyWhenIdle == pc \in {"hlt", "halted", "woken"} => queue = <<>>

(* Whatever the queue or the wake-up list reaches is still allocated, no    *)
(* entry is linked to one the handler has freed meanwhile, and nothing is   *)
(* freed by a cleanup function and by the executor again.                   *)
NoUseAfterFree ==
  /\ fault = {}
  /\ \A e \in entries : <<"entry", e>> \in heap
  /\ \A j \in 1 .. Len(queue) :
       {<<"task", queue[j]>>, <<"future", queue[j]>>} \subseteq heap

(* Every object is owned by the queue, the list or the call in progress:    *)
(* nothing is lost when a task is removed or a wake-up fires, whatever the  *)
(* order of the two, and whichever allocations fail.  The one exception is  *)
(* the future whose Task could not be allocated: executor_spawn drops it.   *)
NoLeak ==
  \A o \in Ops :
    /\ <<"entry", o>> \in heap => o \in entries \/ (pc = "link" /\ op = o)
    /\ <<"waker", o>> \in heap \/ <<"task", o>> \in heap => InQueue(o)
    /\ <<"future", o>> \in heap =>
         \/ InQueue(o)
         \/ op = o /\ pc \in {"add", "link", "count", "spawn"}
         \/ o \in dropped

-----------------------------------------------------------------------------
(* Action properties.                                                       *)

Requested(o) == Program[o].n * (IF Program[o].kind = "sleep_seconds" THEN RATE ELSE 1)

(* The step ends the sleep of call o (for sleep_ticks: not by its timeout). *)
SleepEnds(o) ==
  \/ /\ Program[o].kind = "sleep_seconds" /\ op = o /\ pc = "wait" /\ op' # op
  \/ /\ Program[o].kind = "sleep_ticks" /\ op = o /\ op' # op
     /\ loop_counter' < MAX_LOOP_COUNT
  \/ /\ Program[o].kind = "sleep_future" /\ Len(queue') < Len(queue)
     /\ queue[cur] = o

(* No sleep ends before the interrupts it asked for have been taken since   *)
(* it started.                                                              *)
NeverEarly == [][\A o \in Ops : SleepEnds(o) => now >= started[o] + Requested(o)]_vars

(* The tick counter does not wrap around in a sleep: for 32 bits and 256    *)
(* interrupts a second that is more than half a year after boot.            *)
NoWrap == \A o \in Ops : now + Requested(o) < TickMod

(* What kernel_main does: no AsyncRTCFuture, and while a sleep is pending   *)
(* no other one is started, because all but the last block, and for longer  *)
(* than it takes to link their entry.                                       *)
SleepsApart ==
  /\ \A o \in Ops : Program[o].kind # "rtc_future"
  /\ \A o, p \in Ops :
       o < p /\ {Program[o].kind, Program[p].kind} \subseteq Timed
         => Program[o].kind = "sleep_seconds" /\ Requested(o) > Latency

-----------------------------------------------------------------------------
(* Liveness, under Fairness.                                                *)

(* Every blocking sleep returns, so that kernel_main reaches the executor   *)
(* loop, and every task it has spawned is completed and removed, whatever   *)
(* other allocation fails, if the MonotonicTime was allocated.  If not, its *)
(* ticks read 0 and kernel_main ends up in the busy loop of sleep_seconds.  *)
TasksFinish ==
  <>[](IF monotonic_time # "NULL" THEN op \notin Ops /\ queue = <<>> ELSE pc = "wait")

(* Every entry of the wake-up list is eventually run and removed, also one  *)
(* whose tick has passed before it was linked, if there is a clock.         *)
WakeupsFire ==
  \A o \in Ops : o \in entries /\ monotonic_time # "NULL" ~> o \notin entries
=============================================================================
