------------------------------- MODULE Logger -------------------------------
(***************************************************************************)
(* The logger (logger.c): a ring buffer filled under an interrupt guard    *)
(* and drained by logger_service without one.  A push is cut at every      *)
(* store to the ring, a pop at every load and store, for the build does    *)
(* not optimise and a handler can run between the two halves of count--.   *)
(* An interrupt handler that logs is one step, because the guard it takes  *)
(* keeps interrupts off until its entry is in.                             *)
(***************************************************************************)
EXTENDS Integers, Sequences

CONSTANTS
  LOG_BUFFER_SIZE,  \* 64 in the code
  Levels,           \* LogLevel, DEBUG = 0 first
  Modules           \* who logs; with the level, all that is kept of an entry

ASSUME LoggerAssumption ==
  /\ LOG_BUFFER_SIZE \in Nat \ {0}
  /\ Levels \subseteq Nat /\ 1 \in Levels

LogEntry == [level : Levels, module : Modules]
NoEntry == [level |-> 0, module |-> "none"]   \* a slot never written

VARIABLES
  iflag,                    \* EFLAGS.IF
  interrupt_guard_counter,
  section,                  \* the main thread is inside a guard of its own
  buffer, head, tail, count,
  default_level,
  pc,                       \* where the main thread is
  entry,                    \* its local LogEntry
  loaded,                   \* the cursor it has in a register, inside a pop
  printed,                  \* the entry printed last, if any
  raced                     \* a handler has pushed into a pop that it spoils

guard == <<iflag, interrupt_guard_counter>>
ring  == <<buffer, head, tail, count>>
vars  == <<guard, section, ring, default_level, pc, entry, loaded, printed, raced>>

Slots == 0 .. LOG_BUFFER_SIZE - 1

Succ(i) == (i + 1) % LOG_BUFFER_SIZE

(* Mutant: one entry too many.                                              *)
logger_buffer_is_full_OffByOne == count > LOG_BUFFER_SIZE

logger_buffer_is_full == count >= LOG_BUFFER_SIZE
logger_buffer_is_empty == count = 0

(* logger_init, with interrupts still off as the boot code left them.       *)
Init ==
  /\ iflag = FALSE /\ interrupt_guard_counter = 0 /\ section = FALSE
  /\ buffer = [i \in Slots |-> NoEntry] /\ head = 0 /\ tail = 0 /\ count = 0
  /\ default_level = 1                        \* LOG_LEVEL_INFO
  /\ pc = "idle" /\ entry = NoEntry /\ loaded = 0 /\ printed = <<>>
  /\ raced = FALSE

-----------------------------------------------------------------------------
interrupt_guard_acquire ==
  /\ iflag' = FALSE
  /\ interrupt_guard_counter' = interrupt_guard_counter + 1

(* Mutant: every release enables interrupts.                                *)
interrupt_guard_release_Eager ==
  /\ interrupt_guard_counter' = interrupt_guard_counter - 1
  /\ iflag' = TRUE

(* sti when the outermost guard goes, whatever IF was when it was taken.    *)
interrupt_guard_release ==
  /\ interrupt_guard_counter' = interrupt_guard_counter - 1
  /\ iflag' = (iflag \/ interrupt_guard_counter' = 0)

(* The main thread brackets code of its own with the guard.                 *)
enter_section ==
  /\ pc = "idle" /\ ~ section /\ section' = TRUE
  /\ interrupt_guard_acquire
  /\ UNCHANGED <<ring, default_level, pc, entry, loaded, printed, raced>>

leave_section ==
  /\ pc = "idle" /\ section /\ section' = FALSE
  /\ interrupt_guard_release
  /\ UNCHANGED <<ring, default_level, pc, entry, loaded, printed, raced>>

logger_set_module_level ==
  /\ pc = "idle"
  /\ default_level' \in Levels
  /\ UNCHANGED <<guard, section, ring, pc, entry, loaded, printed, raced>>

(* logger_log, logger_debug, logger_info, logger_warning, logger_error: the *)
(* level test, the guard, the entry built on the stack.                     *)
logger_log ==
  /\ pc = "idle"
  /\ entry' \in {e \in LogEntry : e.level >= default_level}
  /\ interrupt_guard_acquire
  /\ pc' = "evict"
  /\ UNCHANGED <<section, ring, default_level, loaded, printed, raced>>

(* Mutant: the oldest entry is uncounted and still the first to be read.    *)
push_evict_KeepsHead ==
  /\ pc = "evict" /\ pc' = "store"
  /\ count' = IF logger_buffer_is_full THEN count - 1 ELSE count
  /\ UNCHANGED <<guard, section, buffer, head, tail, default_level, entry, loaded, printed, raced>>

(* logger_buffer_push: make room, store, advance, count.                    *)
push_evict ==
  /\ pc = "evict" /\ pc' = "store"
  /\ head' = IF logger_buffer_is_full THEN Succ(head) ELSE head
  /\ count' = IF logger_buffer_is_full THEN count - 1 ELSE count
  /\ UNCHANGED <<guard, section, buffer, tail, default_level, entry, loaded, printed, raced>>

push_store ==
  /\ pc = "store" /\ pc' = "advance"
  /\ buffer' = [buffer EXCEPT ![tail] = entry]
  /\ UNCHANGED <<guard, section, head, tail, count, default_level, entry, loaded, printed, raced>>

push_advance ==
  /\ pc = "advance" /\ pc' = "count"
  /\ tail' = Succ(tail)
  /\ UNCHANGED <<guard, section, buffer, head, count, default_level, entry, loaded, printed, raced>>

push_count ==
  /\ pc = "count" /\ pc' = "release"
  /\ count' = count + 1
  /\ UNCHANGED <<guard, section, buffer, head, tail, default_level, entry, loaded, printed, raced>>

logger_log_return ==
  /\ pc = "release" /\ pc' = "idle"
  /\ interrupt_guard_release
  /\ UNCHANGED <<section, ring, default_level, entry, loaded, printed, raced>>

(* logger_service calls logger_buffer_pop until it fails.                   *)
logger_service ==
  /\ pc = "idle" /\ pc' = "pop"
  /\ UNCHANGED <<guard, section, ring, default_level, entry, loaded, printed, raced>>

pop_empty ==
  /\ pc = "pop" /\ logger_buffer_is_empty /\ pc' = "idle"
  /\ UNCHANGED <<guard, section, ring, default_level, entry, loaded, printed, raced>>

(* logger_buffer_pop found the ring not empty.                              *)
pop_test ==
  /\ pc = "pop" /\ ~ logger_buffer_is_empty /\ pc' = "pop_level"
  /\ UNCHANGED <<guard, section, ring, default_level, entry, loaded, printed, raced>>

(* The copy of the entry, from the slot that head named when it began.      *)
pop_level ==
  /\ pc = "pop_level" /\ pc' = "pop_module"
  /\ loaded' = head
  /\ entry' = [entry EXCEPT !.level = buffer[head].level]
  /\ UNCHANGED <<guard, section, ring, default_level, printed, raced>>

pop_module ==
  /\ pc = "pop_module" /\ pc' = "pop_head"
  /\ entry' = [entry EXCEPT !.module = buffer[loaded].module]
  /\ UNCHANGED <<guard, section, ring, default_level, loaded, printed, raced>>

(* head = (head + 1) % LOG_BUFFER_SIZE, the load and the store.             *)
pop_head ==
  /\ pc = "pop_head" /\ pc' = "pop_head_store"
  /\ loaded' = head
  /\ UNCHANGED <<guard, section, ring, default_level, entry, printed, raced>>

pop_head_store ==
  /\ pc = "pop_head_store" /\ pc' = "pop_count"
  /\ head' = Succ(loaded)
  /\ UNCHANGED <<guard, section, buffer, tail, count, default_level, entry, loaded, printed, raced>>

(* count--, the load and the store.                                         *)
pop_count ==
  /\ pc = "pop_count" /\ pc' = "pop_count_store"
  /\ loaded' = count
  /\ UNCHANGED <<guard, section, ring, default_level, entry, printed, raced>>

(* The entry is off the ring; it is printed and the loop goes on.           *)
pop_count_store ==
  /\ pc = "pop_count_store" /\ pc' = "pop"
  /\ count' = loaded - 1
  /\ printed' = <<entry>> /\ loaded' = 0
  /\ UNCHANGED <<guard, section, buffer, head, tail, default_level, entry, raced>>

-----------------------------------------------------------------------------
(* Where a push spoils the pop it interrupts: one that evicts the oldest    *)
(* entry takes the one that is being popped or the one behind it, and one   *)
(* between the halves of count-- is not counted.                            *)
Spoils ==
  \/ pc \in {"pop_module", "pop_head", "pop_head_store", "pop_count"} /\ logger_buffer_is_full
  \/ pc = "pop_count_store"

(* A registered interrupt handler logs, wherever interrupts are on: the     *)
(* guard, the whole push and the release; iret restores the IF of the       *)
(* interrupted code.                                                        *)
interrupt_log ==
  /\ iflag
  /\ \E e \in LogEntry :
       /\ e.level >= default_level
       /\ buffer' = [buffer EXCEPT ![tail] = e]
  /\ head' = IF logger_buffer_is_full THEN Succ(head) ELSE head
  /\ tail' = Succ(tail)
  /\ count' = IF logger_buffer_is_full THEN count ELSE count + 1
  /\ raced' = (raced \/ Spoils)
  /\ UNCHANGED <<guard, section, default_level, pc, entry, loaded, printed>>

Next ==
  \/ enter_section \/ leave_section \/ logger_set_module_level
  \/ logger_log \/ push_evict \/ push_store \/ push_advance \/ push_count
  \/ logger_log_return
  \/ logger_service \/ pop_empty \/ pop_test \/ pop_level \/ pop_module
  \/ pop_head \/ pop_head_store \/ pop_count \/ pop_count_store
  \/ interrupt_log

Spec == Init /\ [][Next]_vars

-----------------------------------------------------------------------------
(* Every variable keeps its type; the indices stay inside the ring.         *)
TypeOK ==
  /\ iflag \in BOOLEAN /\ section \in BOOLEAN /\ interrupt_guard_counter \in 0 .. 2
  /\ buffer \in [Slots -> LogEntry \cup {NoEntry}]
  /\ head \in Slots /\ tail \in Slots /\ count \in 0 .. LOG_BUFFER_SIZE
  /\ loaded \in 0 .. LOG_BUFFER_SIZE
  /\ default_level \in Levels /\ raced \in BOOLEAN
  /\ pc \in {"idle", "evict", "store", "advance", "count", "release",
             "pop", "pop_level", "pop_module", "pop_head", "pop_head_store",
             "pop_count", "pop_count_store"}
  /\ entry \in [level : Levels \cup {0}, module : Modules \cup {"none"}]

(* Entries between head and tail that count does not know of yet or still   *)
(* counts, in the middle of a push or a pop.                                *)
Uncounted ==
  CASE pc = "count" -> 1
    [] pc \in {"pop_count", "pop_count_store"} -> -1
    [] OTHER -> 0

(* The three cursors of the ring agree after every statement of push and    *)
(* pop, wherever a handler pushes, except that a push into the windows of   *)
(* Spoils may put them out of step.  Even then every index stays inside     *)
(* the buffer and count within its size.                                    *)
RingConsistent ==
  /\ head \in Slots /\ tail \in Slots /\ count \in 0 .. LOG_BUFFER_SIZE
  /\ ~ raced => tail = (head + count + Uncounted) % LOG_BUFFER_SIZE

(* A guarded region is never entered by a handler: neither the push of the  *)
(* logger nor a region of the caller's own that logs inside its guard.      *)
GuardHolds ==
  section \/ pc \in {"evict", "store", "advance", "count", "release"} =>
    ~ iflag /\ interrupt_guard_counter > 0

-----------------------------------------------------------------------------
RingSeq(from, n) == [i \in 1 .. n |-> buffer[(from + i - 1) % LOG_BUFFER_SIZE]]

(* A push takes effect when it has made room, a pop when it has its copy.   *)
Popped == {"pop_head", "pop_head_store", "pop_count", "pop_count_store"}

Pending ==
  CASE pc \in {"store", "advance", "count"}         -> Append(RingSeq(head, count), entry)
    [] pc \in {"pop_head", "pop_head_store"}        -> RingSeq(Succ(head), count - 1)
    [] pc \in {"pop_count", "pop_count_store"}      -> RingSeq(head, count - 1)
    [] OTHER                                        -> RingSeq(head, count)

Last == IF pc \in Popped THEN <<entry>> ELSE printed

Queue == INSTANCE LogQueue WITH
  Entries <- LogEntry, Capacity <- LOG_BUFFER_SIZE, pending <- Pending, last <- Last

(* The ring is a queue that forgets its oldest entry: messages are printed  *)
(* whole and in the order they were logged, and only a full ring loses one, *)
(* the oldest.  It is one until a handler pushes into a window of Spoils,   *)
(* where logger_buffer_pop has nothing to keep it out.                      *)
ImplementsQueue == Queue!QueueInit /\ [][raced' \/ Queue!QueueNext]_(Queue!QueueVars)
=============================================================================
