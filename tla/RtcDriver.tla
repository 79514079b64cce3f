----------------------------- MODULE RtcDriver -----------------------------
(***************************************************************************)
(* The RTC driver (rtc.c) on top of the port manager (port_manager.c): the *)
(* CMOS registers behind an index and a data port, the guarded reading and *)
(* writing of the time, and the life of the periodic interrupt, which the  *)
(* handler of kernel.c acknowledges through the same two ports.            *)
(*                                                                         *)
(* The main thread makes the calls of script.  It is cut at every port     *)
(* access and at every access to the port registry; the handler is one     *)
(* step.  A byte is the set of its bits that are 1.                        *)
(***************************************************************************)
EXTENDS Integers, Sequences

CONSTANTS
  Scripts,            \* sequences of calls the main thread may make
  MAX_TRACKED_PORTS,  \* slots of the port registry (64 in the code)
  MaxUpdates          \* bound: once-a-second updates of the time

ASSUME RtcAssumption ==
  /\ Scripts \subseteq Seq({"init", "read", "write", "enable", "disable", "close", "publish"})
  /\ MAX_TRACKED_PORTS \in Nat \ {0} /\ MaxUpdates \in Nat

(* Drivers are opened one at a time; there is one pair of handles.          *)
ASSUME ScriptAssumption ==
  \A s \in Scripts : \A i, j \in DOMAIN s :
    i < j /\ s[i] = "init" /\ s[j] = "init" => \E k \in i .. j : s[k] = "close"

Slots == 1 .. MAX_TRACKED_PORTS

CMOS_CONTROL_PORT == 112
CMOS_DATA_PORT == 113
OtherPort(i) == 1000 + i       \* what the serial port and the PIC hold

TimeRegs == {"seconds", "minutes", "hours"}

VARIABLES
  script,             \* the calls of the main thread, in order
  op, step,           \* call of script, step of that call
  selected,           \* the index port is written, the data port not accessed
  slot,               \* local of request_port: the slot found free
  value, time_data,   \* locals: the byte read last, the three time bytes
  control_port,       \* handles of the driver, 0 for NULL
  data_port,
  rtc_open,           \* the RTCDriver exists
  system_rtc_instance,\* it is the system clock's
  registry,           \* port_registry
  handler,            \* vector 72 has its handler
  ticks,              \* system_tick_count, modulo 2
  index,              \* hardware: the register selected
  rate, reg_b, pf,    \* hardware: rate bits of A, register B, flag PF of C
  time, uip, updates, \* hardware: the time, the update in progress, updates so far
  irr, unmasked       \* PIC: request latched, IRQ 8 unmasked

calls  == <<script, op, step>>
locals == <<selected, slot, value, time_data>>
driver == <<control_port, data_port, rtc_open, system_rtc_instance>>
cmos   == <<index, rate, reg_b, pf>>
clock  == <<time, uip, updates>>
pic    == <<handler, irr, unmasked>>
vars   == <<calls, locals, driver, registry, ticks, cmos, clock, pic>>

-----------------------------------------------------------------------------
(* The calls as sequences of steps.                                         *)

Do(what) == [do |-> what, reg |-> "none"]
Read(r)  == [do |-> "read", reg |-> r]
Write(r) == [do |-> "write", reg |-> r]
Wait     == [do |-> "wait", reg |-> "A"]
Retest   == [do |-> "retest", reg |-> "A"]

set_data_format == <<Read("B"), Write("B")>>

init_rtc == <<Do("request_control"), Do("claim_control"), Do("use_control"),
              Do("request_data"), Do("claim_data"), Do("use_data"), Do("malloc")>>
            \o set_data_format

(* Mutant: the second test is forgotten.                                    *)
update_guarded_op_NoRetest(op_func) == <<Wait>> \o op_func

update_guarded_op(op_func) == <<Wait>> \o op_func \o <<Retest>>

read_time_guarded_op  == <<Read("seconds"), Read("minutes"), Read("hours")>>
write_time_guarded_op == <<Write("seconds"), Write("minutes"), Write("hours")>>

read_rtc_time  == update_guarded_op(read_time_guarded_op)
write_rtc_time == <<Do("arguments")>> \o update_guarded_op(write_time_guarded_op)

(* Mutant: IRQ 8 stays masked.                                              *)
enable_rtc_interrupts_Masked ==
  <<Do("register"), Read("A"), Write("A"), Read("B"), Write("B")>>

enable_rtc_interrupts ==
  <<Do("register"), Read("A"), Write("A"), Read("B"), Write("B"), Do("unmask")>>

(* Mutant: the handler goes before the interrupt.                           *)
disable_rtc_interrupts_HandlerFirst == <<Do("unregister"), Read("B"), Write("B")>>

disable_rtc_interrupts == <<Read("B"), Write("B"), Do("unregister")>>

(* The end of a test: both ports, then the driver.                          *)
close_driver == <<Do("release_control"), Do("release_data"), Do("free")>>

Steps(call) ==
  CASE call = "init"    -> init_rtc
    [] call = "read"    -> read_rtc_time
    [] call = "write"   -> write_rtc_time
    [] call = "enable"  -> enable_rtc_interrupts
    [] call = "disable" -> disable_rtc_interrupts
    [] call = "close"   -> close_driver
    [] call = "publish" -> <<Do("publish")>>

(* The calls kernel.c makes: its two RTC tests, and the system clock.       *)
rtc_basic_init == <<"init", "read", "write", "read", "close">>
rtc_interrupt_registration == <<"init", "enable", "disable", "close">>
system_clock == <<"init", "publish", "enable">>

Running == op <= Len(script)
Now == Steps(script[op])[step]
At(what) == Running /\ (script[op] = "init" \/ rtc_open) /\ Now.do = what

(* The next step of the call, or the next call.                             *)
Advance ==
  /\ UNCHANGED script
  /\ IF step < Len(Steps(script[op]))
     THEN step' = step + 1 /\ op' = op
     ELSE step' = 1 /\ op' = op + 1

(* The caller got NULL from init_rtc or has none: the call does nothing.    *)
GiveUp == step' = 1 /\ op' = op + 1 /\ UNCHANGED script

Init ==
  /\ script \in Scripts /\ op = 1 /\ step = 1 /\ selected = FALSE /\ slot = 0 /\ value = {}
  /\ time_data = [r \in TimeRegs |-> {}]
  /\ control_port = 0 /\ data_port = 0 /\ rtc_open = FALSE /\ system_rtc_instance = FALSE
  /\ \E held \in 0 .. MAX_TRACKED_PORTS :
       registry = [i \in Slots |-> [port |-> IF i <= held THEN OtherPort(i) ELSE 0,
                                    in_use |-> i <= held]]
  /\ handler = FALSE /\ ticks = 0
  /\ index = "A" /\ rate = {1, 2} /\ reg_b = {1} /\ pf \in BOOLEAN
  /\ time \in [TimeRegs -> {{}, {0}}] /\ uip = "idle" /\ updates = 0
  /\ irr = FALSE /\ unmasked = FALSE

-----------------------------------------------------------------------------
(* The port manager.                                                        *)

is_port_in_use(r, port) == \E i \in Slots : r[i].in_use /\ r[i].port = port

(* Mutant: slots in use are not skipped.                                    *)
FreeSlot_Any(r) == 1

(* The first unused slot, 0 if there is none.                               *)
FreeSlot(r) ==
  LET unused == {i \in Slots : ~ r[i].in_use}
  IN  IF unused = {} THEN 0 ELSE CHOOSE i \in unused : \A j \in unused : i <= j

(* Mutant: whoever asks gets the port.                                      *)
request_fails_TableOnly(r, port) == FreeSlot(r) = 0

request_fails(r, port) == is_port_in_use(r, port) \/ FreeSlot(r) = 0

release_port(r, handle) == [r EXCEPT ![handle].in_use = FALSE]

(* The steps of request_port: find a slot, write the port, take the slot.   *)
request_port(what, port) ==
  /\ At(what) /\ ~ request_fails(registry, port)
  /\ slot' = FreeSlot(registry)
  /\ Advance
  /\ UNCHANGED <<selected, value, time_data, driver, registry, ticks, cmos, clock, pic>>

claim_port(what, port) ==
  /\ At(what)
  /\ registry' = [registry EXCEPT ![slot].port = port]
  /\ Advance
  /\ UNCHANGED <<locals, driver, ticks, cmos, clock, pic>>

use_control ==
  /\ At("use_control")
  /\ registry' = [registry EXCEPT ![slot].in_use = TRUE]
  /\ control_port' = slot
  /\ Advance
  /\ UNCHANGED <<locals, data_port, rtc_open, system_rtc_instance, ticks, cmos, clock, pic>>

use_data ==
  /\ At("use_data")
  /\ registry' = [registry EXCEPT ![slot].in_use = TRUE]
  /\ data_port' = slot
  /\ Advance
  /\ UNCHANGED <<locals, control_port, rtc_open, system_rtc_instance, ticks, cmos, clock, pic>>

-----------------------------------------------------------------------------
(* init_rtc and the end of a driver.                                        *)

(* Mutant: the error paths return without releasing anything.               *)
Abandon_Leaks(r) == r

(* The ports init_rtc has acquired so far are released on its error paths,  *)
(* both at once: a handler between the two releases finds the data port     *)
(* taken, and changes nothing but the port number of an unused slot.        *)
Abandon(r) ==
  [i \in Slots |->
    IF i \in {control_port, data_port} THEN [r[i] EXCEPT !.in_use = FALSE] ELSE r[i]]

init_rtc_fails ==
  /\ \/ At("request_control") /\ request_fails(registry, CMOS_CONTROL_PORT)
     \/ At("request_data") /\ request_fails(registry, CMOS_DATA_PORT)
     \/ At("malloc")
  /\ registry' = Abandon(registry)
  /\ control_port' = 0 /\ data_port' = 0
  /\ GiveUp
  /\ UNCHANGED <<locals, rtc_open, system_rtc_instance, ticks, cmos, clock, pic>>

init_rtc_malloc ==
  /\ At("malloc") /\ rtc_open' = TRUE
  /\ Advance
  /\ UNCHANGED <<locals, control_port, data_port, system_rtc_instance, registry,
                 ticks, cmos, clock, pic>>

release_handle(what, handle) ==
  /\ At(what)
  /\ registry' = release_port(registry, handle)
  /\ Advance
  /\ UNCHANGED <<locals, driver, ticks, cmos, clock, pic>>

free_driver ==
  /\ At("free") /\ rtc_open' = FALSE /\ control_port' = 0 /\ data_port' = 0
  /\ Advance
  /\ UNCHANGED <<locals, system_rtc_instance, registry, ticks, cmos, clock, pic>>

(* system_rtc_instance = init_rtc()                                         *)
publish ==
  /\ At("publish") /\ system_rtc_instance' = TRUE
  /\ Advance
  /\ UNCHANGED <<locals, control_port, data_port, rtc_open, registry, ticks, cmos, clock, pic>>

skip_call ==
  /\ Running /\ script[op] # "init" /\ ~ rtc_open
  /\ GiveUp
  /\ UNCHANGED <<locals, driver, registry, ticks, cmos, clock, pic>>

(* write_rtc_time copies its arguments.                                     *)
write_arguments ==
  /\ At("arguments")
  /\ time_data' \in [TimeRegs -> {{}, {0}}]
  /\ Advance
  /\ UNCHANGED <<selected, slot, value, driver, registry, ticks, cmos, clock, pic>>

-----------------------------------------------------------------------------
(* Register accesses: the index port, then the data port, which reaches the *)
(* register selected at that moment.                                        *)

Content(r) ==
  CASE r = "A" -> (IF uip = "idle" THEN {} ELSE {7}) \cup {5} \cup rate
    [] r = "B" -> reg_b
    [] r = "C" -> IF pf THEN {6} \cup (IF 6 \in reg_b THEN {7} ELSE {}) ELSE {}
    [] OTHER   -> time[r]

(* The interrupt line is PF and PIE; the PIC latches its rising edge and    *)
(* forgets it when the line falls again.                                    *)
Line(b, flag) == 6 \in b /\ flag
Latched(b, flag) == Line(b, flag) /\ (irr \/ ~ Line(reg_b, pf))

select_register ==
  /\ \E what \in {"read", "write", "wait", "retest"} : At(what)
  /\ ~ selected /\ selected' = TRUE
  /\ index' = Now.reg
  /\ UNCHANGED <<calls, slot, value, time_data, driver, registry, ticks, rate,
                 reg_b, pf, clock, pic>>

(* Reading register C clears its flags.                                     *)
ReadData ==
  /\ selected /\ selected' = FALSE
  /\ pf' = (pf /\ index # "C")
  /\ irr' = Latched(reg_b, pf')
  /\ UNCHANGED <<slot, driver, registry, ticks, index, rate, reg_b, clock, handler, unmasked>>

read_cmos_register ==
  /\ At("read") /\ ReadData
  /\ value' = Content(index)
  /\ time_data' = IF Now.reg \in TimeRegs
                  THEN [time_data EXCEPT ![Now.reg] = Content(index)] ELSE time_data
  /\ Advance

(* update_in_progress before the operation: once more while it says so.     *)
wait_for_update ==
  /\ At("wait") /\ ReadData
  /\ IF 7 \in Content(index) THEN UNCHANGED calls ELSE Advance
  /\ UNCHANGED <<value, time_data>>

(* update_in_progress after it: all over again if an update has begun.      *)
retest_update ==
  /\ At("retest") /\ ReadData
  /\ IF 7 \in Content(index)
     THEN UNCHANGED <<script, op>> /\ step' = (IF script[op] = "write" THEN 2 ELSE 1)
     ELSE Advance
  /\ UNCHANGED <<value, time_data>>

(* What each call writes: 24 hours and binary; 256 Hz; PIE set or cleared.  *)
NewContent(call, r) ==
  CASE r = "A"                          -> (value \cap (4 .. 7)) \cup {3}
    [] r = "B" /\ call = "init"         -> value \cup {1, 2}
    [] r = "B" /\ call = "enable"       -> value \cup {6}
    [] r = "B" /\ call = "disable"      -> value \ {6}
    [] OTHER                            -> time_data[r]

write_cmos_register ==
  /\ At("write") /\ selected /\ selected' = FALSE
  /\ LET byte == NewContent(script[op], Now.reg)
     IN  /\ rate' = IF index = "A" THEN byte \cap (0 .. 3) ELSE rate
         /\ reg_b' = IF index = "B" THEN byte ELSE reg_b
         /\ time' = IF index \in TimeRegs THEN [time EXCEPT ![index] = byte] ELSE time
  /\ pf' = pf /\ irr' = Latched(reg_b', pf)
  /\ Advance
  /\ UNCHANGED <<slot, value, time_data, driver, registry, ticks, index, uip, updates,
                 handler, unmasked>>

register_handler ==
  /\ At("register") /\ handler' = TRUE
  /\ Advance
  /\ UNCHANGED <<locals, driver, registry, ticks, cmos, clock, irr, unmasked>>

unregister_handler ==
  /\ At("unregister") /\ handler' = FALSE
  /\ Advance
  /\ UNCHANGED <<locals, driver, registry, ticks, cmos, clock, irr, unmasked>>

pic_unmask_irq ==
  /\ At("unmask") /\ unmasked' = TRUE
  /\ Advance
  /\ UNCHANGED <<locals, driver, registry, ticks, cmos, clock, handler, irr>>

-----------------------------------------------------------------------------
(* acknowledge_rtc_interrupt: the registry as it leaves it, and whether it  *)
(* got both ports.  It releases what it got, but the slots keep the ports   *)
(* it wrote into them.                                                      *)
acknowledge_rtc_interrupt ==
  LET c  == FreeSlot(registry)
      r1 == [registry EXCEPT ![c] = [port |-> CMOS_CONTROL_PORT, in_use |-> TRUE]]
      d  == FreeSlot(r1)
      r2 == [r1 EXCEPT ![d].port = CMOS_DATA_PORT]
  IN  IF request_fails(registry, CMOS_CONTROL_PORT)
      THEN [done |-> FALSE, registry |-> registry]
      ELSE IF request_fails(r1, CMOS_DATA_PORT)
      THEN [done |-> FALSE, registry |-> release_port(r1, c)]
      ELSE [done |-> TRUE, registry |-> release_port(r2, c)]

Acknowledges == handler /\ (system_rtc_instance \/ acknowledge_rtc_interrupt.done)

(* The interrupt: without a handler the dispatcher only ends it.  The       *)
(* handler counts the tick and reads register C through the system's driver *)
(* or through ports of its own.                                             *)
rtc_interrupt_handler ==
  /\ irr /\ unmasked /\ irr' = FALSE
  /\ ticks' = IF handler THEN 1 - ticks ELSE ticks
  /\ index' = IF Acknowledges THEN "C" ELSE index
  /\ pf' = (pf /\ ~ Acknowledges)
  /\ registry' = IF handler /\ ~ system_rtc_instance
                 THEN acknowledge_rtc_interrupt.registry ELSE registry
  /\ UNCHANGED <<calls, locals, driver, rate, reg_b, clock, handler, unmasked>>

(* The RTC sets PF at its rate whether or not the interrupt is enabled.     *)
periodic_event ==
  /\ ~ pf /\ rate # {} /\ pf' = TRUE
  /\ irr' = Latched(reg_b, TRUE)
  /\ UNCHANGED <<calls, locals, driver, registry, ticks, index, rate, reg_b, clock, handler, unmasked>>

(* Once a second the time is advanced.  UIP is set before and cleared after *)
(* it, more than two milliseconds later.                                    *)
update_begins ==
  /\ uip = "idle" /\ updates < MaxUpdates
  /\ uip' = "pending" /\ updates' = updates + 1
  /\ UNCHANGED <<calls, locals, driver, registry, ticks, cmos, time, pic>>

update_time ==
  /\ uip = "pending" /\ uip' = "done"
  /\ time' = [r \in TimeRegs |->
       IF \/ r = "seconds"
          \/ r = "minutes" /\ time["seconds"] # {}
          \/ r = "hours" /\ time["seconds"] # {} /\ time["minutes"] # {}
       THEN {0} \ time[r] ELSE time[r]]
  /\ UNCHANGED <<calls, locals, driver, registry, ticks, cmos, updates, pic>>

(* The main thread is between the two tests of update_guarded_op.           *)
InAttempt ==
  Running /\ script[op] \in {"read", "write"} /\ Now.do \in {"read", "write", "retest"}

(* Reading or writing three registers takes a few microseconds: an update   *)
(* that begins during an attempt does not end before it.                    *)
update_ends ==
  /\ uip = "done" /\ ~ InAttempt
  /\ uip' = "idle"
  /\ UNCHANGED <<calls, locals, driver, registry, ticks, cmos, time, updates, pic>>

-----------------------------------------------------------------------------
Main ==
  \/ request_port("request_control", CMOS_CONTROL_PORT)
  \/ request_port("request_data", CMOS_DATA_PORT)
  \/ claim_port("claim_control", CMOS_CONTROL_PORT)
  \/ claim_port("claim_data", CMOS_DATA_PORT)
  \/ use_control \/ use_data
  \/ init_rtc_fails \/ init_rtc_malloc \/ skip_call
  \/ release_handle("release_control", control_port)
  \/ release_handle("release_data", data_port)
  \/ free_driver \/ publish \/ write_arguments
  \/ select_register \/ read_cmos_register \/ write_cmos_register
  \/ wait_for_update \/ retest_update
  \/ register_handler \/ unregister_handler \/ pic_unmask_irq

Next ==
  \/ Main \/ rtc_interrupt_handler
  \/ periodic_event \/ update_begins \/ update_time \/ update_ends

Spec == Init /\ [][Next]_vars

(* The main thread runs, interrupts are taken, the RTC works.               *)
FairSpec ==
  /\ Spec
  /\ WF_vars(Main) /\ WF_vars(rtc_interrupt_handler)
  /\ WF_vars(periodic_event) /\ WF_vars(update_time) /\ WF_vars(update_ends)

-----------------------------------------------------------------------------
(* kernel_main publishes the driver last: afterwards the time is no longer  *)
(* read or written through it, and its interrupt stays on.                  *)
PublishedLast ==
  \A s \in Scripts : \A i, j \in DOMAIN s :
    i < j /\ s[i] = "publish" => s[j] \notin {"read", "write", "disable"}

(* Between its two port accesses the main thread's choice of a register     *)
(* stands: until the driver is the system's, the handler needs ports of its *)
(* own and stays away from those a driver holds.                            *)
IndexIntact == selected /\ ~ system_rtc_instance => index = Now.reg

Closing == Running /\ script[op] = "close" /\ step > 1

(* While a driver is open its handles are slots in use that name its ports, *)
(* although the handler may write into a slot that request_port has chosen  *)
(* and not yet taken.                                                       *)
HandlesOwned ==
  rtc_open /\ ~ Closing =>
    /\ registry[control_port] = [port |-> CMOS_CONTROL_PORT, in_use |-> TRUE]
    /\ registry[data_port] = [port |-> CMOS_DATA_PORT, in_use |-> TRUE]

(* When no driver is open, or being opened, its ports are free again,       *)
(* whichever step of init_rtc has failed.                                   *)
NoPortLeak ==
  ~ rtc_open /\ step = 1 =>
    /\ ~ is_port_in_use(registry, CMOS_CONTROL_PORT)
    /\ ~ is_port_in_use(registry, CMOS_DATA_PORT)

(* A port in use is never given away: neither init_rtc nor the handler      *)
(* overwrites the slot of another owner.                                    *)
SlotsKept ==
  [][\A i \in Slots : registry[i].in_use => registry'[i].port = registry[i].port]_vars

Returns(call) == Running /\ script[op] = call /\ rtc_open /\ op' = op + 1

(* The time read_rtc_time returns is the time of one moment, never pieces   *)
(* of two, and when write_rtc_time returns the clock shows what was         *)
(* written: an update between the two tests makes either start over.        *)
TimesWhole ==
  [][/\ Returns("read") => time_data' = time
     /\ Returns("write") => time' = time_data]_vars

(* Nobody is interrupted for nothing: while the line can rise a handler is  *)
(* registered, since enabling registers it first and disabling last.        *)
HandledWhenRaised == [][rtc_interrupt_handler => handler]_vars

(* Once the system clock is running it keeps running: an interrupt that the *)
(* handler could not acknowledge before, because a test held the ports,     *)
(* does not silence the RTC for good.                                       *)
ClockRuns ==
  []<>(~ Running /\ system_rtc_instance) => []<><<ticks' # ticks>>_ticks
=============================================================================
