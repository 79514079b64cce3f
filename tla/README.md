# Verification of Shogun-OS

TLA+ specifications of the Shogun-OS kernel, model-checked with TLC on small
instances, and TLAPS proofs of the properties that hold for every instance.
`PROJECT.json` lists the components, the runs, the source lines behind every
definition, the hazards the properties aim at, and the disagreements found
between the code and its own comments and tests.

## The system

Shogun-OS is a single-CPU x86 kernel. Two parties execute its code:

- the **main thread**, `kernel_main`: it initialises the parts below one after
  the other, runs the built-in tests, sleeps, spawns two tasks and enters
  `executor_run`, which never returns;
- **interrupt handlers**, above all `rtc_interrupt_handler`, 256 times a
  second. They are entered through interrupt gates, so with interrupts off, and
  run to the end before the main thread goes on.

| part | source | modules |
|---|---|---|
| async executor, futures, wakers | `async_executor.c` | `AsyncExecutor` |
| clock, sleeps, wake-up list | `rtc.c`, `kernel.c` | `AsyncExecutor` |
| heap | `memory.c` | `Heap`, `FreeList`, `MCHeapBoot` |
| logger and interrupt guard | `logger.c` | `Logger`, `LogQueue`; its formatting: `Text` |
| RTC driver, CMOS access, port manager | `rtc.c`, `port_manager.c` | `RtcDriver` |
| interrupt registry, dispatch, PIC | `idt.c` | `Interrupts` |
| descriptor tables, interrupt stubs | `gdt.c`, `gdt.s`, `idt.c`, the two generators | `Descriptors`, `InterruptStub` |
| terminal | `terminal.c` | `Terminal`, `Paper`; its numbers: `Numbers`, `Text` |
| serial port | `io.c` | `Serial` |
| start-up | `kernel.c` | its calls are the programs of `Interrupts`, `MCAsyncExecutor`, `MCHeapBoot`, `MCRtcDriver` |

They interact as follows. A device raises a line of the PIC; through gate and
stub the dispatcher calls the handler from the registry and ends the interrupt.
The RTC's handler advances two tick counters, prints a dot once a second and
walks the wake-up list; an expired entry sets `g_should_poll` and is freed. A
sleep adds an entry to that list; a sleeping task is also polled by the
executor, which compares its target with the counter. Futures, tasks, wakers
and entries live on the heap, which the handler uses as well. The logger
protects its ring with a nesting guard around `cli`/`sti`. The RTC driver and
the handler reach the CMOS through the same pair of ports, which the port
manager hands out. Terminal and serial port are shared by the main thread's
text and the handler's dots.

In every module the main thread is cut wherever the handler could make a
difference, that is at each access to a shared variable or port (in `FreeList` at
each update of the list, in `Terminal` at each statement that moves the cursor or
writes a character), and a handler is one step (in `Serial` and `Interrupts`,
where the hardware can act during it, one step per port access). The hardware is
external and modelled from how the code uses it.

## Modules

### AsyncExecutor

The main thread executes a `Program`, a sequence of calls (`sleep_seconds`,
`sleep_ticks`, creation and spawning of a sleep, serial or RTC future), and then
`executor_run`. `pc` names the statement it is at. The interrupt can come

- between the read of the list head (`wake_up_list_add`), the store of the new
  one (`wake_up_list_link`) and the increment (`wake_up_list_count`);
- between the load of `g_should_poll` (`executor_run_decide`) and the halt
  (`executor_run_hlt`) or the reset (`executor_run_reset`);
- between the test of the tick and the `hlt` of `sleep_ticks`.

`rtc_interrupt_handler` is one step: both counters, the whole traversal of the
wake-up list with its callbacks and frees, and the end of a `hlt`. Both
callbacks only set `g_should_poll`. Both tick counters are incremented by the
same handler and nowhere else: they are one number, `now`, read modulo `TickMod`,
as `system_tick_count` (by `sleep_ticks`) and as `monotonic_time->tick_count` (by
everything else). The second one is on the heap. Without memory for it,
`monotonic_time` is NULL and `monotonic_time_get_ticks_global` returns 0 for ever.
`iflag` is EFLAGS.IF: `sti; hlt; cli` leaves it clear after the first halt.

The heap is the set of live objects, named by type and by the call that made
them. `fault` records memory errors: a list linked through a freed entry, a
future freed twice. With `MallocFails` every allocation may return NULL, each
with the code's own error path. An RTC future may stay pending at any poll, since
its read of the time may fail.

Left out: the waker's `wake` function and `executor->should_poll`, which nobody
calls or reads; `g_monotonic_ticks`, which nobody increments; console output; the
serial interrupt, because `init_serial` leaves the UART's interrupts disabled
(theorem `Silence` about module `Serial`).

### Heap, FreeList, MCHeapBoot

`Heap` is the allocator byte for byte: addresses and sizes are numbers, the free
list is the set of its segments. `init_allocator` picks the region; `allocate`
takes the first segment that fits and carves the block off its end;
`deallocate` turns the block into a segment and merges it with the one behind
and the one before. Headers lie in the managed memory, so `intact` becomes false
when a write (of a header by the allocator, of the payload by a client) hits
bytes that belong to somebody else; the model stops there. A call that finds no
segment changes nothing and is no step. Where the kernel ends in the last bytes of
its region, the 32-bit size of the initial segment goes below zero; it is kept as a
negative number, with which the code's sums come out the same.

`FreeList` is the same allocator on the linked list in memory. The main thread
walks it node by node; the stores of one update (taking a block, linking a segment,
each of the two merges) are one step. A handler frees a block.
Uninterrupted, it implements `Heap` (`ImplementsHeap`: the variables it takes
over from `Heap` change, when a call returns, as `Heap` says). With `Preempt` the
handler comes in the middle of a call. `MCHeapBoot` drives `Heap` with the calls
of `kernel_main`.

### Logger, LogQueue

`logger_log` and its four variants, the ring with one action per statement of
`logger_buffer_push` and one per access of `logger_buffer_pop`, `logger_service`, and
the nesting `interrupt_guard`. A message is its level and its module.
`interrupt_log` is a handler that logs, wherever the CPU accepts interrupts: one
step, because the guard keeps interrupts off. `logger_service` pops without the
guard, so the handler comes in the middle of a pop as well. `Spoils` names the
windows in which it does harm: between the halves of `count--` any push, and from
the copy of the entry on a push that finds the ring full. `raced` records that it
has happened. No handler of the kernel logs today.

`LogQueue` is the abstract specification: a bounded queue that forgets its
oldest message. The refinement mapping lets a push take effect when it has made
room and a pop when it has its copy.

### Text, Numbers

`Numbers` has the conversions of `terminal.c` on words of `BITS` bits, with C's
division and the negation that maps the smallest number to itself. `Text` makes
one call with any argument: a number output, in one step, or
`simple_format_string`, one step per turn of its loops, with the bound of the
buffer tested where the code tests it. The reference for a number is the value a
reader takes it for; the reference for a message is the recursive `Expansion` of
its format, cut to the buffer.

### RtcDriver, MCRtcDriver

The main thread makes the calls of `script`; each call is a sequence of steps
(`init_rtc`, `read_rtc_time`, ...), cut at every port access and at every store
into the port registry. A register access is two steps, `select_register` and the
access to the data port, which reaches whatever register is selected by then.
`request_port` is three: finding a slot, writing the port number, taking the slot.
The handler is one step and reads register C through the system's driver, or
through ports it requests itself, or not at all when it cannot have them.
Interrupts are on throughout: the first log call enables them (`logger.c:54`),
long before the RTC tests.

The RTC sets PF at its rate; PF and PIE raise the line; the PIC latches a rising
edge and drops the request when the line falls; reading register C clears PF. So
an interrupt that is not acknowledged leaves the line high, and no further edge
comes. An update sets UIP, changes the time, clears UIP. `update_ends` assumes
that an update which begins during an attempt to read or write three registers
outlasts it: an update takes more than two milliseconds, an attempt a few
microseconds. Without that the two tests of `update_guarded_op` would not suffice.

Left out: the NMI bit of the index, which is always 0; the digits of the time (a
byte of it is 0 or 1, with carry); the end-of-interrupt, which `Interrupts` has.

### Interrupts

From the device line to the end-of-interrupt: the two 8259s with the bytes
`idt.c` writes to them (initialisation words, masks, commands), the registry, the
dispatcher, and `kernel_main`'s order of bringing them into use. Lines rise, and
fall again before they are acknowledged, at any point; a request that went away
is delivered as a spurious interrupt. `stack` holds the interrupts being handled,
each with what it owns in the in-service registers. `BootMask` and `BootBase` are
what the firmware leaves behind, and may be anything: the first log call enables
interrupts before the IDT is loaded and before `pic_init` masks the lines, so a line
the firmware left open gets through in between. Without an IDT the machine stops
there; with it the interrupt goes to its firmware vector, which may be that of a
halting exception (`Halting`). `LeftOpen` names these interrupts.

### Descriptors, InterruptStub

`Descriptors` puts GDT and IDT together, field by field, and states what the CPU
takes out of them when a selector is loaded or a gate is used. `InterruptStub`
goes on from there: the CPU finds a stub through the gate and executes the
instructions `generate_interrupt_handlers.py` writes, one per step, on a stack of
words. Registers may hold any word before; the C handler may change the general
purpose registers. It never returns for the exceptions whose handlers halt.

### Terminal, Paper

`terminal_put_char` cut at every statement that changes cursor or screen, with
wrapping, newline, scrolling and `clear_terminal`; the handler's dot goes through
all of the same code in one step, at any point. `Paper` is what a scrolling
terminal promises: lines on paper that never ends, of which the screen is the
last. `outside` records cells past the screen, `torn` that a dot came in the
middle of a character; the refinement is claimed until then. The loop of
`scroll_terminal` is one step: a dot inside it tears the character anyway, and the
cursor, of which the properties go on to speak, is not touched by the loop. So is
that of `clear_terminal`, which only `panic` calls, and nothing calls `panic`.

### Serial

Every byte of `init_serial`, the blocking `write_serial_string` (with the carriage
return before a newline), the polling write of the serial future, and the dot of
the handler, one port access at a time, against a 16550 with divisor latch,
loopback and FIFO. The firmware may have left interrupts enabled. The byte of the
loopback test takes its time like any other: `init_serial` leaves loopback mode
without waiting for it, so it may be swallowed or come out on the line.

## Runs

| run | expects | what it shows |
|---|---|---|
| `async` | pass | `kernel_main`'s sleeps and tasks and a `sleep_ticks`, any allocation failing: counts agree, the executor halts only when idle, nothing freed is reached, nothing leaks but the one future the code drops, no sleep is early, every wake-up fires, everything finishes; without memory for the clock, `kernel_main` stays in `sleep_seconds` |
| `heap` | pass | the linked list implements the set of segments; layout and alignment of blocks, separation by `allocate`, completeness of `deallocate`, merged neighbours, the initial segment, and that no call computes a size that wraps around |
| `heap_race` | violation | the handler frees a block behind the segment malloc has chosen: the block malloc returns stays on the free list |
| `heap_boot` | violation | along the kernel's own start-up calls, a block handed to the memory tests shares bytes with the live wake-up list |
| `logger` | pass | guards nest; ring cursors agree at every statement and the ring implements `LogQueue`, until a handler pushes into a window of `Spoils`; indices stay in the buffer even then |
| `rtc` | pass | `kernel_main`'s RTC calls, and a driver reopened with the interrupt on: times are read and written whole, handler and main thread keep out of each other's ports and slots, every interrupt finds its handler, and one that could not be acknowledged does not stop the system clock |
| `interrupts` | pass | with lines the firmware left open: all other interrupts, spurious ones included, reach their own gate, an end-of-interrupt ends only its own, nothing stays in service, the RTC is served; the open lines go astray only before `pic_init` |
| `entry` | pass | segments are flat from the first load on, each gate leads to its stub, the handler gets the kernel's segments and its vector, and the interrupted code gets everything back |
| `entry_error_code` | violation | the stubs of exceptions 8, 10, 11, 12 and 17 return with the CPU's error code on the stack |
| `terminal` | pass | the screen implements the paper; with a dot in the middle of a character the main thread still stays on the screen, and the cursor recovers |
| `text` | pass | numbers read as what was meant and fit their buffers; a message is the expansion of its format, cut where the buffer ends |
| `serial` | pass | the line carries the text in order, at the right speed, and all of it in the end, at most preceded by the byte of the loopback test |

Each property of a passing run is accompanied by a mutant: an operator next to
the definition it replaces (its name says how it differs), under which the run
finds the property violated.

`rtc` includes one sequence of calls that `kernel_main` does not make today
(`Reopen`): a driver is closed while the interrupt is on. It is the case in which
the handler needs ports of its own.

### Bounds

- `async`: `RATE` = 2 and sleeps of one and two ticks: a sleep spans several
  interrupts and several rounds of the executor. `TickMod` = 64 exceeds every
  tick reached. `MaxTick` = 4: beyond it the clock advances only until it has
  passed the target of every sleep by one, so every sleep can end, and can end
  late. `Latency` = 1: at most one interrupt is taken between the reading of the
  clock for a target and the end of `wake_up_list_add`; the code there takes
  microseconds and a tick four milliseconds. One is enough for a tick to pass
  before its entry is linked. `MAX_LOOP_COUNT` = 2 (one million in the code): the
  loop of a sleep can end by its target or by its bound.
- `heap`: regions of up to 80 bytes with the kernel in the first 24 or 25, one of
  them without room behind it; requests of 1, 4 and 12 bytes, eight calls: enough
  for a free between two free neighbours, for exact fits and for failed fits.
  `heap_race` needs four calls. Deadlock is not checked: the model ends at the
  first damage, at the bound, or without a heap.
- `logger`: three slots, two levels, two modules: the ring wraps and overflows, and
  handlers push any number of times into one pop.
- `rtc`: four slots (64 in the code), any number of them held by others: both,
  one or none of the driver's ports fit, and the handler finds free slots next to
  an open driver's. `MaxUpdates` = 2: an update can hit an attempt and its
  repetition. Deadlock is not checked: the script ends.
- `interrupts`: lines 0, 4, 5, 7, 8 and 12: the timer, the serial port, a line whose
  firmware vector is that of the general protection fault, the line of the master's
  spurious interrupts, the RTC, and another of the slave. Firmware bases 0x08 and
  0x70; lines 0, 5, 7, 12 and the cascade left open, 4 and 8 masked.
- `entry`: eight vectors, with one of each kind (halting, with and without an
  error code, device, software, the last), at addresses on either side of a
  64 KB boundary; two words for the registers. Deadlock is not checked: some
  exceptions halt the machine.
- `terminal`: a screen of 3 by 2, six characters out of two and the newline, two
  dots: every cell, wrap and scroll is met, also with a dot inside.
- `text`: all words of 8 bits and double words of 16, all formats of up to four
  characters out of five, a buffer of four. Deadlock is not checked: a call ends.
- `serial`: a FIFO of three (16 in a 16550), a text of three characters with a
  newline, an asynchronous one of two, three dots. Deadlock is not checked: all is
  sent in the end.

### Fairness

- `AsyncExecutor`: weak fairness of the main thread as a whole (the CPU executes
  instructions while it is not halted), of the RTC interrupt (the RTC is periodic;
  an interrupt pending while IF is set is taken) and of the UART (a character
  leaves the shift register after a while). Nothing is assumed about a CPU with
  interrupts off. Weak fairness of the interrupt is enough because `sti; hlt`
  leaves it enabled until it is taken.
- `RtcDriver`: of the main thread, the interrupt, the periodic flag and the two
  steps that finish an update. Updates need not begin.
- `Interrupts`: of the CPU, and of taking an interrupt that stays asserted. No
  device need raise or withdraw anything.
- `Serial`: of the CPU, and of the UART's two steps. Dots need not come.

## Proofs

`AsyncExecutorProofs` proves, for every `Program`, every rate, counter width and
latency:

- `TypeCorrect`: `Spec => []TypeOK`. Inductive as it stands: `TypeOK` includes
  that a call in progress names an element of `Program`, and that no serial
  future has written more than its length.
- `HaltsOnlyWhenIdle`: `Spec => []HaltOnlyWhenIdle`. The invariant is
  strengthened by what `has_ready` means in the middle of a round: while it is
  false, no task before `cur` was kept. Only then does the decision to halt imply
  an empty queue. `g_should_poll` occurs nowhere in the argument: a lost wake-up
  is harmless because the queue alone keeps the executor awake.
- `CountsAlwaysAgree`: `Spec => []CountsAgree`. Needs that the call in progress
  is not on the wake-up list before it is linked (calls are numbered in order),
  and finiteness of the list for the cardinalities.
- `LeakFree`: `Spec => []NoLeak`, whichever allocations fail. Strengthened by
  `LeakInv`: only calls that create futures own one, so a call that goes on to
  wait instead of spawning leaves nothing behind.
- `SleepsLongEnough`: `Spec /\ []NoWrap => NeverEarly`. `TargetInv` ties the stored
  target to the start of the sleep; `RunInv` says that a task is queued once, by a
  call that has been left, so that the future being polled is the sleeper's own.
  `NoWrap` keeps the 32-bit counter from wrapping around in a sleep, and without it
  the code does end a sleep early (see Observations).
- `MemorySafe`: `Spec /\ []NoWrap => []NoUseAfterFree` for every program with
  `SleepsApart`: no RTC future, and no sleep started while another is pending,
  because all but the last block, for longer than the latency of linking an entry.
  `kernel_main` is such a program (run `async` evaluates it on its calls). `AllocInv`
  says what is allocated, `ApartInv` that the list is empty when its head is read.
  Both conditions are needed: without them the faults `dangling_entry` and
  `double_free` are reached (see Observations).

`HeapProofs` proves, for every set of memory maps, request sizes and alignments:

- `HeapTypeCorrect` (`TypeOK` and `WrapOnlyAtBoot`) and `LayoutCorrect`
  (`BlockLayout`): no call computes a size below zero, and every block is laid out as
  promised. They are proved together, in `HeapInv`: `deallocate` subtracts a header
  from the stored size, which stays a number only because of the layout; and an
  initial segment that did wrap around fits no request, so it stays alone.
- `AllocateSafe`: `Spec => AllocatePreserves`, from the arithmetic of carving
  (`Carve`, `CutInterval`): block and remainder are separate parts of the segment
  they come from.
- `InitialSafe`: `Spec => InitialSegment`, and `FreeSafe`: `Spec => FreeReturnsAll`.
  `DeallocateShape` says once what `deallocate` makes of the list: which neighbours
  go, and where the segment that takes their place begins and ends. The stored size
  of a block gives four bytes more than the block has, which is why "no byte is
  lost" holds and "no byte is claimed twice" does not (run `heap_boot`).
- `MergeSafe`: `Spec => NeighboursMerged`, from `ListInv`: as long as no header has
  been destroyed, no two segments have the same address. It is a property of steps,
  not an invariant, for the same reason: with every malloc and free a segment may
  gain four bytes, until it overlaps the next one; cut by `allocate`, such a segment
  can come to end where the other begins.

`OutputProofs` proves about `Logger`, for every size of the ring, every set of levels
and modules:

- `TypeCorrect`, `CursorsAgree` (`RingConsistent`) and `GuardSafe` (`GuardHolds`),
  together, from `LoggerInv`: the guard's counter is the number of sections the
  main thread is in, interrupts are on only while it is 0, there is room between
  eviction and count of a push, and an entry between test and count of a pop. What a
  pop has loaded is still what the ring holds unless `raced`, and a number within
  the ring in any case. The arithmetic modulo the size is that of `ModFolds` and
  `SuccFolds`.
- `QueueRefined`: `Spec => ImplementsQueue`, until `raced`. The abstract queue is the `Window` of
  the ring from its head on; `WindowAppend`, `WindowTail` and their companions say
  what a store behind the tail and a step of the head make of it, around the end of
  the ring. Every statement is then a step of the queue or none.

`TerminalProofs` proves, for every screen size and any number of dots:

- `CursorSafe` (`CursorRecovers`) and `MainStaysOnScreen` (`OnScreen`), from
  `CursorInv`, which says where the cursor may be before each statement of
  `terminal_put_char`: the column has reached the width only before the wrap, the
  row has reached the height only before the scrolling, never both. A dot that
  finds it there goes through the same statements and leaves it on the screen.
- `PaperRefined`: `Spec => ImplementsPaper`. Two lemmas connect screen and paper:
  a character written to a cell is written to its place on the paper (`PaperPut`;
  no two places share a cell), and scrolling appends a blank line (`PaperScroll`).
  `TextInv` says how far `terminal_put_char` has come since the paper was last
  shown: before the wrap the character is on the paper and the cursor one column
  on; before the scrolling it is on the next line, or past the last one. The last
  statement of every path is one step of the paper. Once a dot has cut into a
  character (`torn`) nothing is claimed until the screen is cleared.

`RtcDriverProofs` proves, for every size of the port registry and every set of
scripts:

- `HandlesSafe` (`HandlesOwned`), `PortsReturned` (`NoPortLeak`) and `SlotsSafe`
  (`SlotsKept`), from `PortInv`: a port that is held is held in the slot of its
  handle and nowhere else, from which step on to which step being said by
  `HasControl` and `HasData`; and the slot `request_port` has chosen is still the
  first free one when it is taken, whatever the handler did in between. The last
  part is the heart of it. The handler leaves `in_use` of all slots as it found
  them (`HandlerLeaves`), so the first free slot stays the first; it may write a
  port number into that slot, but then it is the control port's, which is also
  what the main thread has written; and while the main thread is opening the data
  port, the control port is in use and the handler gives up at once.
- `IndexSafe` (`IndexIntact`): until the driver is published, what the handler
  selects it selects through ports of its own, which it cannot have while the main
  thread holds them.
- `ScriptAssumption`, that a driver is closed before the next is opened, is needed:
  there is one pair of handles.

It goes on from there to what the registers hold, for every set of
scripts that publish the driver last (`PublishedLast`, as `kernel_main` does; after
that the handler shares the ports, see Observations):

- `RaisedHandled` (`HandledWhenRaised`), from `RaiseInv`: PIE is set only between
  registration and removal of the handler, also through the read and write back of
  register B by a driver that is initialised again.
- `TimeSafe` (`TimesWhole`), from `WholeInv`: in an attempt that no update has
  reached, the registers transferred so far are the same on both sides, and the
  second test lets only such attempts through.

`InterruptsProofs` proves, for every set of lines and every firmware, whatever masks
and vectors it left behind:

- `GateSafe` (`ArrivesAtItsGate`), `ServiceSafe` (`NothingLeftInService`) and
  `EndsOwn` (`EndsOnlyItsOwn`), from `IntInv`. `SetupInv` follows the forty steps of
  `kernel_main`: from `pic_init` until `pic_remap` is done each chip has its lines
  masked or is waiting for an initialisation word, so nothing arrives at a vector it
  is not programmed for. `EarlyInv` is about the time before: what is in service or
  being handled then belongs to lines the firmware left open, and the reset of its
  chip clears what no end-of-interrupt has. `FrameInv` is about handlers: they do
  not nest, and what is in service still has its end-of-interrupt ahead of it on the
  list of the one that runs.

`InterruptStubProofs` proves, for every set of vectors, stub addresses and register
contents:

- `TablesSafe` (`TablesFaithful`), from `TableInv`, what the tables hold by the
  progress of their set-up, and the arithmetic that splits an address into the two
  halves of a gate and puts it together again;
- `ContextSafe` (`HandlerContext`) and `ReturnsSafe` (`ReturnsIntact`), from `StubInv`:
  at each of its instructions, what a stub has pushed, which segments are the
  kernel's and which are restored. `ReturnsSafe` assumes that no vector of the set
  has both an error code and a handler that returns; for those that have, run
  `entry_error_code` shows that it fails.

`TextProofs` proves, for words of any multiple of four bits, every set of formats and
arguments and every size of the buffer:

- `WordsReadBack` (`NumeralsRight`), `LargerLarger` (`LargerReadsLarger`) and
  `BuffersSuffice` (`FitsBuffer`), from what `Digits` of a number are worth, read as
  a numeral, and how many there are;
- `MessagesExpand` (`CutExpansion`), from `TextInv`: at every turn of the loops what
  has been produced, followed by the expansion of what is left of the format, is the
  expansion of the whole format, and the buffer holds as much of it as fits.

Both need induction over numbers and texts. The module therefore begins with
induction and recursion for sets and functions (`SetInduction`, `Recursion`), from
the library's fact that the order of the natural numbers is well-founded.

`OutputProofs` proves about `Serial`, for all texts, every FIFO of two characters or
more and everything the firmware may have left enabled:

- `TextOnLine` (`LineCarriesText`): line, shift register and FIFO together hold what
  has been sent, and there is room for a dot between a test and the write after it;
- `Silence` (`PortStaysSilent`): the port asks for no interrupt once it is set up.

Assumptions: the named `ASSUME`s of the modules, which TLC evaluates in every run.
`AlignmentAssumption` says that alignments are powers of two, as the mask in
`allocate` requires, and `RequestAssumption` that a request is smaller than the
address at which the heap begins, so that no address computed from the end of a
segment goes below zero; `malloc` is asked for tens of bytes and the kernel ends
above one megabyte. The runs also evaluate `SleepsApart` and `PublishedLast` on their
instances.

Model-checked only:

- liveness (`TasksFinish`, `WakeupsFire`, `ClockRuns`, `RtcServed`, `AllSent`),
  which is beyond the installed provers;
- the refinement `ImplementsHeap`: the segments of the linked list are what can be
  reached along it, and a proof would need the shape of the list (sorted, without
  cycles) after every one of its updates. `HeapProofs` is about `Heap`, to which
  the run ties the list.

## Observations

Besides the three violations, modelling brought up the following. No run reports
them: the calls `kernel_main` makes today do not lead there, or a property names
the case and states what still holds.

- `async_executor.c:123`: the comment has the executor halt when no task is ready;
  `has_ready_tasks` is set by pending tasks, so it spins while one sleeps.
- `rtc.c:57`: with two sleepers at a time, an interrupt between the read of the
  list head and the store of the new one can free the entry the new one then
  points to. `AsyncExecutor` records it as the fault `dangling_entry`.
- `rtc.c:394`: the cleanup function of an RTC future frees what the executor frees
  again; nobody creates one.
- `async_executor.c:198`: targets wrap around with the 32-bit tick counter, after
  194 days; a sleep across the wrap ends at once.
- `rtc.c:127`: once the driver is the system clock's, the handler selects register
  C through the same ports, and a time read by the main thread could contain it.
  `IndexIntact` is stated for the time before; after it, `kernel_main` reads none.
- `logger.c:54`: the first log call executes `sti` before IDT and PIC are set up. A
  line that the firmware left open then arrives without an IDT, or at its firmware
  vector, which for line 5 is that of the general protection fault.
  `ArrivesAtItsGate` says that no other line goes astray, and none after `pic_init`.
- `logger.c:36`: `logger_buffer_pop` runs without the guard. A handler that logged in
  the middle of it could have its message dropped from the count, or make the pop
  skip one (`Spoils`).
- `rtc.c:28`: without memory for the monotonic clock its ticks read 0, and the loop
  of `sleep_seconds` (`rtc.c:355`) never ends; `TasksFinish` states it.
- `memory.c:112`: when the kernel ends in the last 15 bytes of its region, the size
  of the initial segment wraps around to four gigabytes. `allocate` computes block
  addresses from the segment's end, which wraps back, and finds that nothing fits
  (`WrapOnlyAtBoot`).
- `io.c:52`: the repository's `README.md:32` announces an "Async serial driver with
  interrupt-driven I/O operations", `async_executor.c:236` waits for an interrupt, and
  `kernel.c:171` registers and unmasks IRQ 4; but `init_serial` disables the UART's
  interrupts and nothing enables them (`Silence`). The serial future progresses
  because the executor polls it in every round.
- `io.c:73`: loopback mode is left without waiting for the test byte, which may come
  out on the line (`LineCarriesText`).
- `terminal.c:40`: a dot between the step to a new line and the scrolling lands
  on the line below the screen, which is still video memory (`OnScreen`).
- `terminal.c`, `put_u64`: numbers above 32 bits are written as two decimal halves,
  which is not their value, but keeps their order (`LargerReadsLarger`).
- `async_executor.c:39`: when `executor_spawn` gets no memory the future is leaked; `NoLeak`
  names it as its one exception.

## Not modelled

- `test.c`, `libc.c`: counters of passed tests, `memset`, `memcpy`, `panic`;
  straight-line code without shared state. The screen `panic` clears is that of
  `Terminal`.
- Wording of console messages, `print_gdt_info`, `print_idt_info`,
  `debug_print_free_list`: output only.
- `boot.s`, `exit_qemu`: a stack pointer and a call, a constant and a halt.
- `merge_adjacent` of `memory.c`, which nobody calls.
- Widths: addresses do not wrap around at 2^32 (the size of the initial segment
  may), and tick counters are not run up to their width.
- Compositions of more than two parts: handler and main thread meet in each
  module through what that part shares; the heap inside the executor is a set of
  live objects, the RTC line inside `Interrupts` one line among others.
