-------------------------- MODULE RtcDriverProofs ---------------------------
(***************************************************************************)
(* Who owns a port, for every size of the registry and every sequence of   *)
(* calls: the handler requests and releases ports between any two steps of *)
(* request_port, init_rtc and of the closing of a driver.  From that, that *)
(* every access reaches the register it means.  Then what the registers of *)
(* the clock hold while the driver works on them: when its interrupt can   *)
(* come, and that the time is read and written whole.                      *)
(***************************************************************************)
EXTENDS RtcDriver, WellFoundedInduction, TLAPS

Calls == {"init", "read", "write", "enable", "disable", "close", "publish"}

(* A script is a sequence of calls.                                         *)
LEMMA ScriptType == Scripts \subseteq Seq(Calls)
BY RtcAssumption DEF Calls

(* Slots are positive numbers; 0 is the handle NULL.                        *)
LEMMA SlotsInt == \A i \in Slots : i \in Nat /\ i # 0
BY RtcAssumption DEF Slots

-----------------------------------------------------------------------------
(* The steps of the calls.                                                  *)

(* The steps of each call, written out.                                     *)
LEMMA InitSteps ==
  /\ Len(init_rtc) = 9
  /\ init_rtc[1].do = "request_control" /\ init_rtc[2].do = "claim_control"
  /\ init_rtc[3].do = "use_control" /\ init_rtc[4].do = "request_data"
  /\ init_rtc[5].do = "claim_data" /\ init_rtc[6].do = "use_data"
  /\ init_rtc[7].do = "malloc" /\ init_rtc[8].do = "read" /\ init_rtc[9].do = "write"
<1> DEFINE front == <<Do("request_control"), Do("claim_control"), Do("use_control"),
                      Do("request_data"), Do("claim_data"), Do("use_data"), Do("malloc")>>
<1>1. init_rtc = front \o set_data_format
  BY DEF init_rtc
<1>2. Len(front) = 7 /\ Len(set_data_format) = 2
  BY DEF set_data_format
<1> QED
  BY <1>1, <1>2 DEF set_data_format, Do, Read, Write

LEMMA CloseSteps ==
  /\ Len(close_driver) = 3 /\ close_driver[1].do = "release_control"
  /\ close_driver[2].do = "release_data" /\ close_driver[3].do = "free"
BY DEF close_driver, Do

LEMMA ReadSteps ==
  /\ Len(read_rtc_time) = 5
  /\ \A k \in 1 .. 5 : read_rtc_time[k].do \in {"wait", "read", "retest"}
BY DEF read_rtc_time, update_guarded_op, read_time_guarded_op, Wait, Read, Retest

LEMMA WriteSteps ==
  /\ Len(write_rtc_time) = 6
  /\ \A k \in 1 .. 6 : write_rtc_time[k].do \in {"arguments", "wait", "write", "retest"}
BY DEF write_rtc_time, update_guarded_op, write_time_guarded_op, Wait, Write, Retest, Do

LEMMA OtherSteps ==
  /\ Len(enable_rtc_interrupts) = 6
  /\ \A k \in 1 .. 6 : enable_rtc_interrupts[k].do \in {"register", "read", "write", "unmask"}
  /\ Len(disable_rtc_interrupts) = 3
  /\ \A k \in 1 .. 3 : disable_rtc_interrupts[k].do \in {"read", "write", "unregister"}
BY DEF enable_rtc_interrupts, disable_rtc_interrupts, Read, Write, Do

(* The main thread is at a step of a call.                                  *)
Place ==
  /\ script \in Scripts /\ op \in Nat \ {0} /\ step \in Nat \ {0}
  /\ Running => step <= Len(Steps(script[op]))

(* The call being made is one of those that have steps.                     *)
LEMMA CallType ==
  ASSUME Place, Running
  PROVE  script[op] \in Calls
<1>1. script \in Seq(Calls)
  BY ScriptType DEF Place
<1> QED BY <1>1 DEF Place, Running

(* Steps that touch neither registry nor handles nor the driver.            *)
Quiet == {"read", "write", "wait", "retest", "arguments", "register", "unregister",
          "unmask", "publish"}

(* Where each step is found.                                                *)
LEMMA Where ==
  ASSUME Place
  PROVE  /\ At("request_control") => script[op] = "init" /\ step = 1
         /\ At("claim_control") => script[op] = "init" /\ step = 2
         /\ At("use_control") => script[op] = "init" /\ step = 3
         /\ At("request_data") => script[op] = "init" /\ step = 4
         /\ At("claim_data") => script[op] = "init" /\ step = 5
         /\ At("use_data") => script[op] = "init" /\ step = 6
         /\ At("malloc") => script[op] = "init" /\ step = 7
         /\ At("release_control") => script[op] = "close" /\ step = 1
         /\ At("release_data") => script[op] = "close" /\ step = 2
         /\ At("free") => script[op] = "close" /\ step = 3
         /\ \A what \in Quiet : At(what) =>
              script[op] # "close" /\ (script[op] = "init" => step >= 8)
         /\ At("retest") => script[op] \in {"read", "write"}
<1> SUFFICES ASSUME Running
             PROVE  LET do == Now.do IN
         /\ do = "request_control" => script[op] = "init" /\ step = 1
         /\ do = "claim_control" => script[op] = "init" /\ step = 2
         /\ do = "use_control" => script[op] = "init" /\ step = 3
         /\ do = "request_data" => script[op] = "init" /\ step = 4
         /\ do = "claim_data" => script[op] = "init" /\ step = 5
         /\ do = "use_data" => script[op] = "init" /\ step = 6
         /\ do = "malloc" => script[op] = "init" /\ step = 7
         /\ do = "release_control" => script[op] = "close" /\ step = 1
         /\ do = "release_data" => script[op] = "close" /\ step = 2
         /\ do = "free" => script[op] = "close" /\ step = 3
         /\ do \in Quiet => script[op] # "close" /\ (script[op] = "init" => step >= 8)
         /\ do = "retest" => script[op] \in {"read", "write"}
  BY DEF At
<1>1. script[op] \in Calls
  BY CallType
<1>2. step \in 1 .. Len(Steps(script[op])) /\ Now = Steps(script[op])[step]
  BY DEF Place, Now
<1>3. CASE script[op] = "init"
  <2>1. Now = init_rtc[step] /\ step \in 1 .. 9
    BY <1>2, <1>3, InitSteps, Zenon DEF Steps
  <2> QED BY <2>1, <1>3, InitSteps DEF Quiet
<1>4. CASE script[op] = "close"
  <2>1. Now = close_driver[step] /\ step \in 1 .. 3
    BY <1>2, <1>4, CloseSteps, Zenon DEF Steps
  <2> QED BY <2>1, <1>4, CloseSteps DEF Quiet
<1>5. CASE script[op] = "read"
  <2>1. Now.do \in {"wait", "read", "retest"}
    BY <1>2, <1>5, ReadSteps, Zenon DEF Steps
  <2> QED BY <2>1, <1>5
<1>6. CASE script[op] = "write"
  <2>1. Now.do \in {"arguments", "wait", "write", "retest"}
    BY <1>2, <1>6, WriteSteps, Zenon DEF Steps
  <2> QED BY <2>1, <1>6
<1>7. CASE script[op] = "enable"
  <2>1. Now.do \in {"register", "read", "write", "unmask"}
    BY <1>2, <1>7, OtherSteps, Zenon DEF Steps
  <2> QED BY <2>1, <1>7
<1>8. CASE script[op] = "disable"
  <2>1. Now.do \in {"read", "write", "unregister"}
    BY <1>2, <1>8, OtherSteps, Zenon DEF Steps
  <2> QED BY <2>1, <1>8
<1>9. CASE script[op] = "publish"
  <2>1. Now.do = "publish"
    BY <1>2, <1>9 DEF Steps, Do
  <2> QED BY <2>1, <1>9
<1> QED BY <1>1, <1>3, <1>4, <1>5, <1>6, <1>7, <1>8, <1>9 DEF Calls

(* Every call has a first step, and the next step of a call is one of its   *)
(* steps.                                                                   *)
LEMMA LenSteps ==
  ASSUME NEW call \in Calls
  PROVE  /\ Len(Steps(call)) \in Nat \ {0}
         /\ call = "init" => Len(Steps(call)) = 9
         /\ call = "close" => Len(Steps(call)) = 3
         /\ call = "read" => Len(Steps(call)) = 5
         /\ call = "write" => Len(Steps(call)) = 6
<1>1. call = "publish" => Len(Steps(call)) = 1
  BY DEF Steps
<1>2. /\ call = "init" => Steps(call) = init_rtc
      /\ call = "close" => Steps(call) = close_driver
      /\ call = "read" => Steps(call) = read_rtc_time
      /\ call = "write" => Steps(call) = write_rtc_time
      /\ call = "enable" => Steps(call) = enable_rtc_interrupts
      /\ call = "disable" => Steps(call) = disable_rtc_interrupts
  BY DEF Steps
<1>3. call = "init" => Len(Steps(call)) = 9
  BY <1>2, InitSteps
<1>4. call = "close" => Len(Steps(call)) = 3
  BY <1>2, CloseSteps
<1>5. call = "read" => Len(Steps(call)) = 5
  BY <1>2, ReadSteps
<1>6. call = "write" => Len(Steps(call)) = 6
  BY <1>2, WriteSteps
<1>7. call = "enable" => Len(Steps(call)) = 6
  BY <1>2, OtherSteps
<1>8. call = "disable" => Len(Steps(call)) = 3
  BY <1>2, OtherSteps
<1> HIDE DEF Steps
<1>9. Len(Steps(call)) \in {1, 3, 5, 6, 9}
  BY <1>1, <1>3, <1>4, <1>5, <1>6, <1>7, <1>8 DEF Calls
<1>10. \A n \in {1, 3, 5, 6, 9} : n \in Nat \ {0}
  OBVIOUS
<1> QED BY <1>3, <1>4, <1>5, <1>6, <1>9, <1>10, Zenon

(* The next step of a call, and the first of the next call, are steps.      *)
LEMMA PlaceStep ==
  ASSUME Place, Running, script' = script,
         \/ op' = op /\ step' \in Nat \ {0} /\ step' <= Len(Steps(script[op]))
         \/ op' = op + 1 /\ step' = 1
  PROVE  Place'
<1>1. op' \in Nat \ {0} /\ step' \in Nat \ {0} /\ script' \in Scripts
  BY DEF Place
<1>2. CASE op' = op /\ step' <= Len(Steps(script[op]))
  BY <1>1, <1>2 DEF Place
<1>3. CASE op' = op + 1 /\ step' = 1
  <2> SUFFICES ASSUME Running' PROVE step' <= Len(Steps(script'[op']))
    BY <1>1 DEF Place
  <2>1. script'[op'] \in Calls
    <3>1. script' \in Seq(Calls)
      BY <1>1, ScriptType
    <3> QED BY <3>1, <1>1 DEF Running
  <2> QED BY <2>1, <1>3, LenSteps
<1> QED BY <1>2, <1>3

(* What Advance does.                                                       *)
LEMMA AdvanceStep ==
  ASSUME Place, Running, Advance
  PROVE  /\ script' = script
         /\ \/ op' = op /\ step' = step + 1 /\ step < Len(Steps(script[op]))
            \/ op' = op + 1 /\ step' = 1 /\ step = Len(Steps(script[op]))
         /\ Place'
<1>1. script[op] \in Calls
  BY CallType
<1>2. Len(Steps(script[op])) \in Nat \ {0}
  BY <1>1, LenSteps
<1>3. /\ script' = script
      /\ \/ op' = op /\ step' = step + 1 /\ step < Len(Steps(script[op]))
         \/ op' = op + 1 /\ step' = 1 /\ step = Len(Steps(script[op]))
  BY <1>2 DEF Advance, Place
<1>4. Place'
  BY <1>2, <1>3, PlaceStep DEF Place
<1> QED BY <1>3, <1>4

-----------------------------------------------------------------------------
(* The port manager.                                                        *)

Registry == [Slots -> [port : Nat, in_use : BOOLEAN]]

(* A set of numbers that is not empty has a least element, since < is       *)
(* well-founded.                                                            *)
LEMMA LeastBy ==
  ASSUME NEW R, IsWellFoundedOn(R, Nat), R = {ss \in Nat \X Nat : ss[1] < ss[2]},
         NEW S \in SUBSET Nat, S # {}
  PROVE  \E i \in S : \A j \in S : i <= j
<1>1. PICK x \in S : \A y \in S : ~ (<<y, x>> \in R)
  BY WFMin, Zenon
<1>2. \A y \in S : ~ (y < x)
  BY <1>1, Zenon
<1> QED BY <1>1, <1>2

LEMMA LeastNumber ==
  ASSUME NEW S \in SUBSET Nat, S # {}
  PROVE  \E i \in S : \A j \in S : i <= j
<1>1. \E R : IsWellFoundedOn(R, Nat) /\ R = {ss \in Nat \X Nat : ss[1] < ss[2]}
  BY NatLessThanWellFounded, Zenon DEF OpToRel
<1> QED BY <1>1, LeastBy

(* A free slot is found if there is one.                                    *)
LEMMA FreeSlotFound ==
  ASSUME NEW r \in Registry, FreeSlot(r) # 0
  PROVE  FreeSlot(r) \in Slots /\ ~ r[FreeSlot(r)].in_use
<1> DEFINE S == {i \in Slots : ~ r[i].in_use}
<1>1. S # {}
  BY DEF FreeSlot
<1>2. S \in SUBSET Nat
  BY SlotsInt
<1>3. \E i \in S : \A j \in S : i <= j
  BY <1>1, <1>2, LeastNumber, Zenon
<1>4. FreeSlot(r) \in S
  BY <1>1, <1>3 DEF FreeSlot
<1> QED BY <1>4

(* It depends on nothing but the slots in use.                              *)
LEMMA FreeSlotSame ==
  ASSUME NEW r \in Registry, NEW q \in Registry,
         \A i \in Slots : r[i].in_use = q[i].in_use
  PROVE  FreeSlot(r) = FreeSlot(q)
<1>1. {i \in Slots : ~ r[i].in_use} = {i \in Slots : ~ q[i].in_use}
  OBVIOUS
<1> DEFINE Least(U) == IF U = {} THEN 0 ELSE CHOOSE i \in U : \A j \in U : i <= j
<1>2. /\ FreeSlot(r) = Least({i \in Slots : ~ r[i].in_use})
      /\ FreeSlot(q) = Least({i \in Slots : ~ q[i].in_use})
  BY DEF FreeSlot
<1> HIDE DEF Least
<1> QED BY <1>1, <1>2, Zenon

(* The stores into a slot.                                                  *)
LEMMA MarkSlot ==
  ASSUME NEW r \in Registry, NEW h \in Slots, NEW b \in BOOLEAN
  PROVE  LET q == [r EXCEPT ![h].in_use = b]
         IN  /\ q \in Registry /\ q[h].port = r[h].port /\ q[h].in_use = b
             /\ \A i \in Slots : i # h => q[i] = r[i]
<1> DEFINE q == [r EXCEPT ![h].in_use = b]
<1>1. r[h] \in [port : Nat, in_use : BOOLEAN]
  BY DEF Registry
<1>2. q[h] = [port |-> r[h].port, in_use |-> b]
  BY <1>1 DEF Registry
<1>3. \A i \in Slots : i # h => q[i] = r[i]
  BY DEF Registry
<1>4. q \in Registry
  BY <1>1 DEF Registry
<1> HIDE DEF q
<1>5. q[h].port = r[h].port /\ q[h].in_use = b
  BY <1>2
<1> QED BY <1>3, <1>4, <1>5 DEF q

(* The store of a port number.                                              *)
LEMMA WritePort ==
  ASSUME NEW r \in Registry, NEW h \in Slots, NEW p \in Nat
  PROVE  LET q == [r EXCEPT ![h].port = p]
         IN  /\ q \in Registry /\ q[h].port = p /\ q[h].in_use = r[h].in_use
             /\ \A i \in Slots : i # h => q[i] = r[i]
<1> DEFINE q == [r EXCEPT ![h].port = p]
<1>1. r[h] \in [port : Nat, in_use : BOOLEAN]
  BY DEF Registry
<1>2. q[h] = [port |-> p, in_use |-> r[h].in_use]
  BY <1>1 DEF Registry
<1>3. \A i \in Slots : i # h => q[i] = r[i]
  BY DEF Registry
<1>4. q \in Registry
  BY <1>1 DEF Registry
<1> HIDE DEF q
<1>5. q[h].port = p /\ q[h].in_use = r[h].in_use
  BY <1>2
<1> QED BY <1>3, <1>4, <1>5 DEF q

(* The handler leaves the slots in use alone, and of the others it changes  *)
(* only the port.  If the control port is free, so that main thread and     *)
(* handler may have chosen the same slot, it writes the control port there. *)
LEMMA HandlerLeaves ==
  ASSUME registry \in Registry
  PROVE  LET r == acknowledge_rtc_interrupt.registry
         IN  /\ r \in Registry
             /\ \A i \in Slots : r[i].in_use = registry[i].in_use
             /\ \A i \in Slots : registry[i].in_use => r[i] = registry[i]
             /\ ~ is_port_in_use(registry, CMOS_CONTROL_PORT) /\ FreeSlot(registry) # 0 =>
                  r[FreeSlot(registry)].port = CMOS_CONTROL_PORT
             /\ is_port_in_use(registry, CMOS_CONTROL_PORT) => r = registry
<1> DEFINE c  == FreeSlot(registry)
           r1 == [registry EXCEPT ![c] = [port |-> CMOS_CONTROL_PORT, in_use |-> TRUE]]
           d  == FreeSlot(r1)
           r2 == [r1 EXCEPT ![d].port = CMOS_DATA_PORT]
           ack == acknowledge_rtc_interrupt
<1>1. CASE request_fails(registry, CMOS_CONTROL_PORT)
  <2>1. ack.registry = registry
    BY <1>1 DEF acknowledge_rtc_interrupt
  <2> QED BY <2>1, <1>1 DEF request_fails
<1>2. CASE ~ request_fails(registry, CMOS_CONTROL_PORT)
  <2>1. c \in Slots /\ ~ registry[c].in_use
    BY <1>2, FreeSlotFound DEF request_fails
  <2>2. /\ r1 \in Registry /\ r1[c].port = CMOS_CONTROL_PORT /\ r1[c].in_use = TRUE
        /\ \A i \in Slots : i # c => r1[i] = registry[i]
    BY <2>1 DEF Registry, CMOS_CONTROL_PORT
  <2>3. ~ is_port_in_use(registry, CMOS_CONTROL_PORT)
    BY <1>2 DEF request_fails
  <2>4. PICK q \in Registry :
          /\ ack.registry = q /\ q[c].port = CMOS_CONTROL_PORT /\ q[c].in_use = FALSE
          /\ \A i \in Slots : i # c => q[i].in_use = registry[i].in_use
          /\ \A i \in Slots : i # c /\ registry[i].in_use => q[i] = registry[i]
    <3>1. CASE request_fails(r1, CMOS_DATA_PORT)
      <4> DEFINE q == [r1 EXCEPT ![c].in_use = FALSE]
      <4>1. ack.registry = q
        BY <1>2, <3>1 DEF acknowledge_rtc_interrupt, release_port
      <4> HIDE DEF r1, c
      <4>2. /\ q \in Registry /\ q[c].port = r1[c].port /\ q[c].in_use = FALSE
            /\ \A i \in Slots : i # c => q[i] = r1[i]
        BY <2>1, <2>2, MarkSlot, Zenon
      <4> HIDE DEF q, ack
      <4>3. q[c].port = CMOS_CONTROL_PORT
        BY <2>2, <4>2
      <4>4. \A i \in Slots : i # c => q[i] = registry[i]
        BY <2>2, <4>2
      <4>5. q \in Registry
        BY <4>2
      <4> USE <4>5
      <4> WITNESS q \in Registry
      <4> QED BY <4>1, <4>2, <4>3, <4>4
    <3>2. CASE ~ request_fails(r1, CMOS_DATA_PORT)
      <4> DEFINE q == [r2 EXCEPT ![c].in_use = FALSE]
      <4>1. ack.registry = q
        BY <1>2, <3>2 DEF acknowledge_rtc_interrupt, release_port
      <4> HIDE DEF r1, c
      <4>2. d \in Slots /\ ~ r1[d].in_use /\ d # c
        BY <2>2, <3>2, FreeSlotFound DEF request_fails
      <4> HIDE DEF d
      <4>3. /\ r2 \in Registry /\ r2[d].in_use = r1[d].in_use
            /\ \A i \in Slots : i # d => r2[i] = r1[i]
        BY <2>2, <4>2, WritePort DEF CMOS_DATA_PORT
      <4> HIDE DEF r2
      <4>4. /\ q \in Registry /\ q[c].port = r2[c].port /\ q[c].in_use = FALSE
            /\ \A i \in Slots : i # c => q[i] = r2[i]
        BY <2>1, <4>3, MarkSlot, Zenon
      <4> HIDE DEF q, ack
      <4>5. q[c].port = CMOS_CONTROL_PORT
        BY <2>1, <2>2, <4>2, <4>3, <4>4
      <4>6. \A i \in Slots : i # c => q[i].in_use = registry[i].in_use
        BY <2>2, <4>2, <4>3, <4>4
      <4>7. \A i \in Slots : i # c /\ registry[i].in_use => q[i] = registry[i]
        BY <2>2, <4>2, <4>3, <4>4
      <4>8. q \in Registry
        BY <4>4
      <4> USE <4>8
      <4> WITNESS q \in Registry
      <4> QED BY <4>1, <4>4, <4>5, <4>6, <4>7
    <3> QED BY <3>1, <3>2, Zenon
  <2> HIDE DEF c, r1, d, r2, ack
  <2>5. \A i \in Slots : q[i].in_use = registry[i].in_use
    <3>1. registry[c].in_use = FALSE
      <4>1. registry[c] \in [port : Nat, in_use : BOOLEAN]
        BY <2>1 DEF Registry
      <4> QED BY <2>1, <4>1
    <3> QED BY <2>4, <3>1, Zenon
  <2>6. \A i \in Slots : registry[i].in_use => q[i] = registry[i]
    BY <2>1, <2>4
  <2> QED BY <2>3, <2>4, <2>5, <2>6 DEF c, ack
<1> QED BY <1>1, <1>2

-----------------------------------------------------------------------------
(* The invariant.                                                           *)

InInit == Running /\ script[op] = "init"

(* From which step on to which step a port is held.                         *)
HasControl == (rtc_open /\ ~ Closing) \/ (InInit /\ step >= 4)
HasData    == (rtc_open /\ ~ (Closing /\ step > 2)) \/ (InInit /\ step >= 7)

(* The driver exists from the allocation in init_rtc on, and was opened by  *)
(* a call that no closing call follows.                                     *)
Opened ==
  /\ rtc_open \in BOOLEAN
  /\ InInit /\ step >= 8 => rtc_open
  /\ InInit /\ rtc_open => step >= 8
  /\ rtc_open => \E i \in 1 .. op :
       /\ i \in DOMAIN script /\ script[i] = "init"
       /\ \A k \in DOMAIN script : i <= k /\ k < op => script[k] # "close"

(* A port held is held in the slot of its handle and nowhere else.          *)
OwnsControl ==
  /\ HasControl => /\ control_port \in Slots /\ registry[control_port].in_use
                   /\ registry[control_port].port = CMOS_CONTROL_PORT
  /\ \A i \in Slots : registry[i].in_use /\ registry[i].port = CMOS_CONTROL_PORT =>
       HasControl /\ i = control_port
  /\ ~ HasControl /\ ~ rtc_open => control_port = 0

OwnsData ==
  /\ HasData => /\ data_port \in Slots /\ registry[data_port].in_use
                /\ registry[data_port].port = CMOS_DATA_PORT
  /\ \A i \in Slots : registry[i].in_use /\ registry[i].port = CMOS_DATA_PORT =>
       HasData /\ i = data_port
  /\ ~ HasData /\ ~ rtc_open => data_port = 0

(* The slot request_port has chosen is still the first free one, and once   *)
(* the port is written there, it stays there.                               *)
Chosen ==
  InInit /\ step \in {2, 3, 5, 6} =>
    /\ slot \in Slots /\ slot = FreeSlot(registry) /\ ~ registry[slot].in_use
    /\ step = 3 => registry[slot].port = CMOS_CONTROL_PORT
    /\ step = 6 => registry[slot].port = CMOS_DATA_PORT

PortInv ==
  /\ Place /\ registry \in Registry
  /\ Opened /\ OwnsControl /\ OwnsData /\ Chosen

(* The invariant holds at first: others hold no CMOS port.                  *)
LEMMA PortInit == Init => PortInv
<1> SUFFICES ASSUME Init PROVE PortInv
  OBVIOUS
<1>1. /\ script \in Scripts /\ op = 1 /\ step = 1 /\ rtc_open = FALSE
      /\ control_port = 0 /\ data_port = 0
  BY DEF Init
<1>2. Place
  <2> SUFFICES ASSUME Running PROVE 1 <= Len(Steps(script[1]))
    BY <1>1 DEF Place
  <2>1. script[1] \in Calls
    BY <1>1, ScriptType DEF Running
  <2> QED BY <2>1, LenSteps
<1>3. PICK held \in 0 .. MAX_TRACKED_PORTS :
        registry = [i \in Slots |-> [port |-> IF i <= held THEN OtherPort(i) ELSE 0,
                                     in_use |-> i <= held]]
  BY DEF Init
<1>4. \A i \in Slots : OtherPort(i) \in Nat /\ OtherPort(i) \notin {112, 113}
  BY SlotsInt DEF OtherPort
<1>5. registry \in Registry
  <2>1. \A i \in Slots : [port |-> IF i <= held THEN OtherPort(i) ELSE 0, in_use |-> i <= held]
                         \in [port : Nat, in_use : BOOLEAN]
    <3> TAKE i \in Slots
    <3>1. (IF i <= held THEN OtherPort(i) ELSE 0) \in Nat
      BY <1>4
    <3>2. CASE i <= held
      BY <3>1, <3>2
    <3>3. CASE ~ (i <= held)
      BY <3>1, <3>3
    <3> QED BY <3>2, <3>3
  <2> QED BY <1>3, <2>1 DEF Registry
<1>6. \A i \in Slots : registry[i].port \notin {112, 113}
  BY <1>3, <1>4
<1>7. ~ HasControl /\ ~ HasData
  BY <1>1 DEF HasControl, HasData
<1>8. OwnsControl /\ OwnsData
  BY <1>1, <1>6, <1>7 DEF OwnsControl, OwnsData, CMOS_CONTROL_PORT, CMOS_DATA_PORT
<1>9. Opened
  <2>1. ~ (step >= 8)
    BY <1>1
  <2>2. ~ rtc_open /\ rtc_open \in BOOLEAN
    BY <1>1, Zenon
  <2> QED BY <2>1, <2>2, Zenon DEF Opened
<1>10. Chosen
  BY <1>1 DEF Chosen
<1> QED BY <1>2, <1>5, <1>8, <1>9, <1>10 DEF PortInv

(* What the invariant is about.                                             *)
ports == <<registry, control_port, data_port, rtc_open, slot>>

(* A call that follows another one finds no driver open if it opens one.    *)
LEMMA OpenedNext ==
  ASSUME Place, Opened, Running, Place', script' = script, op' = op + 1, step' = 1,
         rtc_open' \in BOOLEAN, rtc_open' => rtc_open /\ script[op] # "close"
  PROVE  Opened'
<1>1. ASSUME rtc_open'
      PROVE  \E i \in 1 .. op :
               /\ i \in DOMAIN script /\ script[i] = "init"
               /\ \A k \in DOMAIN script : i <= k /\ k < op' => script[k] # "close"
  <2>1. PICK i \in 1 .. op :
               /\ i \in DOMAIN script /\ script[i] = "init"
               /\ \A k \in DOMAIN script : i <= k /\ k < op => script[k] # "close"
    BY <1>1 DEF Opened
  <2>2. ASSUME NEW k \in DOMAIN script, i <= k, k < op' PROVE script[k] # "close"
    <3>1. k \in Nat /\ op \in Nat
      BY ScriptType DEF Place
    <3>2. k < op \/ k = op
      BY <2>2, <3>1
    <3> QED BY <1>1, <2>1, <2>2, <3>2
  <2> QED BY <2>1, <2>2
<1>2. ASSUME rtc_open', InInit' PROVE FALSE
  <2>1. PICK i \in 1 .. op :
               /\ i \in DOMAIN script /\ script[i] = "init"
               /\ \A k \in DOMAIN script : i <= k /\ k < op' => script[k] # "close"
    BY <1>1, <1>2
  <2>2. script \in Seq(Calls) /\ op \in Nat /\ i \in Nat
    BY ScriptType DEF Place
  <2>3. op + 1 \in DOMAIN script /\ script[op + 1] = "init" /\ i < op + 1
    BY <1>2, <2>2 DEF InInit, Running
  <2>4. PICK k \in i .. op + 1 : script[k] = "close"
    BY <2>1, <2>3, ScriptAssumption DEF Place
  <2>5. k \in DOMAIN script /\ k < op + 1
    <3>1. k # op + 1
      BY <2>3, <2>4
    <3> QED BY <2>2, <2>3, <2>4, <3>1
  <2> QED BY <2>1, <2>4, <2>5
<1>3. op \in Nat
  BY DEF Place
<1> QED BY <1>1, <1>2, <1>3 DEF Opened

(* A step that leaves ports and driver alone leaves them with their owners. *)
LEMMA QuietStep ==
  ASSUME PortInv, Running, UNCHANGED ports, script' = script, Place',
         script[op] # "close", script[op] = "init" => step >= 8,
         script[op] = "init" \/ rtc_open,
         \/ op' = op /\ (script[op] = "init" => step' >= 8)
         \/ op' = op + 1 /\ step' = 1
  PROVE  PortInv'
<1>1. Place /\ Opened /\ step \in Nat /\ step' \in Nat /\ op \in Nat
  BY DEF PortInv, Place
<1>2. rtc_open
  BY <1>1 DEF Opened, InInit
<1>3. Opened'
  <2>1. CASE op' = op /\ (script[op] = "init" => step' >= 8)
    <3>1. Running' /\ (InInit' => step' >= 8)
      BY <2>1 DEF Running, InInit
    <3>2. rtc_open' = rtc_open
      BY DEF ports
    <3> QED BY <1>1, <1>2, <2>1, <3>1, <3>2 DEF Opened
  <2>2. CASE op' = op + 1 /\ step' = 1
    <3>1. rtc_open' = rtc_open
      BY DEF ports
    <3>2. rtc_open \in BOOLEAN
      BY <1>1 DEF Opened
    <3> QED BY <1>1, <2>2, <3>1, <3>2, OpenedNext
  <2> QED BY <2>1, <2>2
<1>4. HasControl /\ HasData
  BY <1>2 DEF HasControl, HasData, Closing
<1>5. HasControl' /\ HasData'
  <2>1. ~ Closing'
    BY DEF Closing
  <2> QED BY <1>2, <2>1 DEF HasControl, HasData, ports
<1>6. Chosen'
  <2>1. InInit' => step' \notin {2, 3, 5, 6}
    BY <1>1 DEF InInit
  <2> QED BY <2>1 DEF Chosen
<1>7. OwnsControl' /\ OwnsData'
  BY <1>4, <1>5 DEF PortInv, OwnsControl, OwnsData, ports
<1>8. registry' \in Registry
  BY DEF PortInv, ports
<1> QED BY <1>3, <1>6, <1>7, <1>8 DEF PortInv

(* Steps that change neither ports nor calls.                               *)
LEMMA StillStep ==
  ASSUME PortInv, UNCHANGED <<ports, calls>>
  PROVE  PortInv'
<1>1. UNCHANGED <<script, op, step, registry, control_port, data_port, rtc_open, slot>>
  BY DEF ports, calls
<1> QED BY <1>1 DEF PortInv, Place, Running, Opened, InInit, OwnsControl, OwnsData, HasControl,
       HasData, Closing, Chosen

(* The steps of init_rtc before its last.                                   *)
LEMMA InitAdvance ==
  ASSUME Place, Running, Advance, script[op] = "init", step \in 1 .. 8
  PROVE  script' = script /\ op' = op /\ step' = step + 1 /\ Place'
<1>1. Len(Steps(script[op])) = 9
  <2>1. script[op] \in Calls
    BY CallType
  <2> QED BY <2>1, LenSteps
<1>2. step # 9
  OBVIOUS
<1>3. step # Len(Steps(script[op]))
  BY <1>1, <1>2, Zenon
<1> QED BY <1>3, AdvanceStep

(* request_port finds a slot and changes nothing yet.                       *)
LEMMA RequestStep ==
  ASSUME PortInv,
         \/ request_port("request_control", CMOS_CONTROL_PORT)
         \/ request_port("request_data", CMOS_DATA_PORT)
  PROVE  PortInv'
<1>1. /\ script[op] = "init" /\ step \in {1, 4} /\ Running
      /\ slot' = FreeSlot(registry) /\ FreeSlot(registry) # 0 /\ Advance
      /\ UNCHANGED <<registry, control_port, data_port, rtc_open>>
  BY Where DEF PortInv, request_port, request_fails, driver, At
<1>2. slot' \in Slots /\ ~ registry[slot'].in_use
  BY <1>1, FreeSlotFound DEF PortInv
<1>3. script' = script /\ op' = op /\ step' = step + 1 /\ Place'
  BY <1>1, InitAdvance DEF PortInv
<1>4. InInit /\ InInit' /\ ~ Closing /\ ~ Closing'
  BY <1>1, <1>3 DEF InInit, Running, Closing
<1>5. ~ rtc_open /\ ~ rtc_open'
  BY <1>1, <1>4 DEF PortInv, Opened
<1>6. HasControl' = HasControl /\ HasData' = HasData
  BY <1>1, <1>3, <1>4, <1>5 DEF HasControl, HasData
<1>7. Opened'
  <2>1. ~ (step' >= 8) /\ rtc_open' \in BOOLEAN
    BY <1>1, <1>3 DEF PortInv, Opened
  <2> QED BY <1>5, <2>1, Zenon DEF Opened
<1>8. OwnsControl' /\ OwnsData'
  BY <1>1, <1>6 DEF PortInv, OwnsControl, OwnsData
<1>9. Chosen'
  BY <1>1, <1>2, <1>3 DEF Chosen
<1> QED BY <1>1, <1>3, <1>7, <1>8, <1>9 DEF PortInv

(* Writing the port into a slot that is not in use changes no owner.        *)
LEMMA ClaimStep ==
  ASSUME PortInv,
         \/ claim_port("claim_control", CMOS_CONTROL_PORT)
         \/ claim_port("claim_data", CMOS_DATA_PORT)
  PROVE  PortInv'
<1>1. PICK p \in Nat :
      /\ script[op] = "init" /\ Running /\ Advance
      /\ registry' = [registry EXCEPT ![slot].port = p]
      /\ UNCHANGED <<slot, control_port, data_port, rtc_open>>
      /\ \/ step = 2 /\ p = CMOS_CONTROL_PORT
         \/ step = 5 /\ p = CMOS_DATA_PORT
  BY Where DEF PortInv, claim_port, driver, locals, At, CMOS_CONTROL_PORT, CMOS_DATA_PORT
<1>2. script' = script /\ op' = op /\ step' = step + 1 /\ Place'
  BY <1>1, InitAdvance DEF PortInv
<1>3. InInit /\ InInit' /\ ~ Closing /\ ~ Closing'
  BY <1>1, <1>2 DEF InInit, Running, Closing
<1>4. slot \in Slots /\ slot = FreeSlot(registry) /\ ~ registry[slot].in_use
  BY <1>1, <1>3 DEF PortInv, Chosen
<1>5. /\ registry \in Registry /\ registry' \in Registry /\ registry'[slot].port = p
      /\ registry'[slot].in_use = registry[slot].in_use
      /\ \A i \in Slots : i # slot => registry'[i] = registry[i]
  <2> DEFINE q == [registry EXCEPT ![slot].port = p]
  <2>1. registry \in Registry
    BY DEF PortInv
  <2>2. /\ q \in Registry /\ q[slot].port = p /\ q[slot].in_use = registry[slot].in_use
        /\ \A i \in Slots : i # slot => q[i] = registry[i]
    BY <1>4, <2>1, WritePort
  <2>3. registry' = q
    BY <1>1
  <2> HIDE DEF q
  <2> QED BY <2>1, <2>2, <2>3
<1>6. FreeSlot(registry') = FreeSlot(registry)
  <2>1. \A i \in Slots : registry'[i].in_use = registry[i].in_use
    BY <1>5
  <2> QED BY <1>5, <2>1, FreeSlotSame
<1>7. ~ rtc_open /\ ~ rtc_open'
  BY <1>1, <1>3 DEF PortInv, Opened
<1>8. HasControl' = HasControl /\ HasData' = HasData
  BY <1>1, <1>2, <1>3, <1>7 DEF HasControl, HasData
<1>9. Opened'
  <2>1. ~ (step' >= 8) /\ rtc_open' \in BOOLEAN
    BY <1>1, <1>2 DEF PortInv, Opened
  <2> QED BY <1>7, <2>1, Zenon DEF Opened
<1>10. \A i \in Slots : registry[i].in_use \/ registry'[i].in_use =>
         i # slot /\ registry'[i] = registry[i]
  BY <1>4, <1>5
<1>11. OwnsControl'
  BY <1>1, <1>7, <1>8, <1>10 DEF PortInv, OwnsControl
<1>12. OwnsData'
  BY <1>1, <1>7, <1>8, <1>10 DEF PortInv, OwnsData
<1>13. Chosen'
  BY <1>1, <1>2, <1>4, <1>5, <1>6 DEF Chosen
<1> QED BY <1>2, <1>5, <1>9, <1>11, <1>12, <1>13 DEF PortInv

(* Taking the slot makes its port's owner.                                  *)
LEMMA UseControlStep ==
  ASSUME PortInv, use_control
  PROVE  PortInv'
<1>1. /\ script[op] = "init" /\ step = 3 /\ Running /\ Advance
      /\ registry' = [registry EXCEPT ![slot].in_use = TRUE] /\ control_port' = slot
      /\ UNCHANGED <<slot, data_port, rtc_open>>
  BY Where DEF PortInv, use_control, locals, At
<1>2. script' = script /\ op' = op /\ step' = 4 /\ Place'
  BY <1>1, InitAdvance DEF PortInv
<1>3. InInit /\ InInit' /\ ~ Closing /\ ~ Closing'
  BY <1>1, <1>2 DEF InInit, Running, Closing
<1>4. /\ slot \in Slots /\ ~ registry[slot].in_use
      /\ registry[slot].port = CMOS_CONTROL_PORT
  BY <1>1, <1>3 DEF PortInv, Chosen
<1>5. /\ registry' \in Registry /\ registry'[slot].port = CMOS_CONTROL_PORT
      /\ registry'[slot].in_use
      /\ \A i \in Slots : i # slot => registry'[i] = registry[i]
  <2> DEFINE q == [registry EXCEPT ![slot].in_use = TRUE]
  <2>1. registry \in Registry
    BY DEF PortInv
  <2>2. /\ q \in Registry /\ q[slot].port = registry[slot].port /\ q[slot].in_use = TRUE
        /\ \A i \in Slots : i # slot => q[i] = registry[i]
    BY <1>4, <2>1, MarkSlot, Zenon
  <2>3. registry' = q
    BY <1>1
  <2> HIDE DEF q
  <2> QED BY <1>4, <2>2, <2>3
<1>6. ~ rtc_open /\ ~ rtc_open' /\ rtc_open' \in BOOLEAN
  BY <1>1, <1>3 DEF PortInv, Opened
<1>7. ~ HasControl /\ HasControl' /\ ~ HasData /\ ~ HasData'
  BY <1>1, <1>2, <1>3, <1>6 DEF HasControl, HasData
<1>8. Opened'
  <2>1. ~ (step' >= 8)
    BY <1>2
  <2> QED BY <1>6, <2>1, Zenon DEF Opened
<1>9. OwnsControl'
  BY <1>1, <1>4, <1>5, <1>6, <1>7 DEF PortInv, OwnsControl
<1>10. OwnsData'
  <2>1. CMOS_CONTROL_PORT # CMOS_DATA_PORT
    BY DEF CMOS_CONTROL_PORT, CMOS_DATA_PORT
  <2>2. \A i \in Slots : ~ (registry'[i].in_use /\ registry'[i].port = CMOS_DATA_PORT)
    BY <1>5, <1>7, <2>1 DEF PortInv, OwnsData
  <2>3. data_port' = 0
    BY <1>1, <1>6, <1>7 DEF PortInv, OwnsData
  <2> QED BY <1>7, <2>2, <2>3 DEF OwnsData
<1>11. Chosen'
  BY <1>2 DEF Chosen
<1> QED BY <1>2, <1>5, <1>8, <1>9, <1>10, <1>11 DEF PortInv

(* The same for the data port, while the control port is held.              *)
LEMMA UseDataStep ==
  ASSUME PortInv, use_data
  PROVE  PortInv'
<1>1. /\ script[op] = "init" /\ step = 6 /\ Running /\ Advance
      /\ registry' = [registry EXCEPT ![slot].in_use = TRUE] /\ data_port' = slot
      /\ UNCHANGED <<slot, control_port, rtc_open>>
  BY Where DEF PortInv, use_data, locals, At
<1>2. script' = script /\ op' = op /\ step' = 7 /\ Place'
  BY <1>1, InitAdvance DEF PortInv
<1>3. InInit /\ InInit' /\ ~ Closing /\ ~ Closing'
  BY <1>1, <1>2 DEF InInit, Running, Closing
<1>4. /\ slot \in Slots /\ ~ registry[slot].in_use
      /\ registry[slot].port = CMOS_DATA_PORT
  BY <1>1, <1>3 DEF PortInv, Chosen
<1>5. /\ registry' \in Registry /\ registry'[slot].port = CMOS_DATA_PORT
      /\ registry'[slot].in_use
      /\ \A i \in Slots : i # slot => registry'[i] = registry[i]
  <2> DEFINE q == [registry EXCEPT ![slot].in_use = TRUE]
  <2>1. registry \in Registry
    BY DEF PortInv
  <2>2. /\ q \in Registry /\ q[slot].port = registry[slot].port /\ q[slot].in_use = TRUE
        /\ \A i \in Slots : i # slot => q[i] = registry[i]
    BY <1>4, <2>1, MarkSlot, Zenon
  <2>3. registry' = q
    BY <1>1
  <2> HIDE DEF q
  <2> QED BY <1>4, <2>2, <2>3
<1>6. ~ rtc_open /\ ~ rtc_open' /\ rtc_open' \in BOOLEAN
  BY <1>1, <1>3 DEF PortInv, Opened
<1>7. HasControl /\ HasControl' /\ ~ HasData /\ HasData'
  BY <1>1, <1>2, <1>3, <1>6 DEF HasControl, HasData
<1>8. Opened'
  <2>1. ~ (step' >= 8)
    BY <1>2
  <2> QED BY <1>6, <2>1, Zenon DEF Opened
<1>9. OwnsData'
  BY <1>1, <1>4, <1>5, <1>6, <1>7 DEF PortInv, OwnsData
<1>10. OwnsControl'
  <2>1. CMOS_CONTROL_PORT # CMOS_DATA_PORT
    BY DEF CMOS_CONTROL_PORT, CMOS_DATA_PORT
  <2>2. control_port # slot
    BY <1>4, <1>7 DEF PortInv, OwnsControl
  <2>3. \A i \in Slots : registry'[i].in_use /\ registry'[i].port = CMOS_CONTROL_PORT =>
          i = control_port
    BY <1>5, <2>1 DEF PortInv, OwnsControl
  <2> QED BY <1>1, <1>5, <1>7, <2>2, <2>3 DEF PortInv, OwnsControl
<1>11. Chosen'
  BY <1>2 DEF Chosen
<1> QED BY <1>2, <1>5, <1>8, <1>9, <1>10, <1>11 DEF PortInv

(* The error paths of init_rtc release what it holds.                       *)
LEMMA FailStep ==
  ASSUME PortInv, init_rtc_fails
  PROVE  PortInv'
<1>1. /\ script[op] = "init" /\ step \in {1, 4, 7} /\ Running
      /\ registry' = Abandon(registry) /\ control_port' = 0 /\ data_port' = 0
      /\ step' = 1 /\ op' = op + 1 /\ script' = script /\ rtc_open' = rtc_open
  BY Where DEF PortInv, init_rtc_fails, GiveUp, At
<1>2. Place /\ Opened /\ Place'
  BY <1>1, PlaceStep DEF PortInv
<1>3. InInit /\ ~ rtc_open /\ ~ rtc_open' /\ rtc_open' \in BOOLEAN
  BY <1>1, <1>2 DEF Opened, InInit
<1>4. Opened'
  BY <1>1, <1>2, <1>3, OpenedNext
<1>5. ~ HasControl' /\ ~ HasData'
  BY <1>1, <1>3 DEF HasControl, HasData
<1>6. /\ registry \in Registry /\ registry' \in Registry
      /\ \A i \in Slots : i \in {control_port, data_port} => ~ registry'[i].in_use
      /\ \A i \in Slots : i \notin {control_port, data_port} => registry'[i] = registry[i]
  <2> DEFINE q == [i \in Slots |-> IF i \in {control_port, data_port}
                                   THEN [registry[i] EXCEPT !.in_use = FALSE]
                                   ELSE registry[i]]
  <2>1. registry \in Registry /\ registry' = q
    BY <1>1 DEF PortInv, Abandon
  <2>2. \A i \in Slots : registry[i] \in [port : Nat, in_use : BOOLEAN]
    BY <2>1 DEF Registry
  <2>3. \A i \in Slots : /\ q[i] \in [port : Nat, in_use : BOOLEAN]
                         /\ i \in {control_port, data_port} => ~ q[i].in_use
                         /\ i \notin {control_port, data_port} => q[i] = registry[i]
    BY <2>2, Zenon
  <2>4. q \in Registry
    BY <2>2, Zenon DEF Registry
  <2> HIDE DEF q
  <2> QED BY <2>1, <2>3, <2>4
<1>7. OwnsControl'
  <2>1. \A i \in Slots : ~ (registry'[i].in_use /\ registry'[i].port = CMOS_CONTROL_PORT)
    BY <1>6 DEF PortInv, OwnsControl
  <2> QED BY <1>1, <1>5, <2>1 DEF OwnsControl
<1>8. OwnsData'
  <2>1. \A i \in Slots : ~ (registry'[i].in_use /\ registry'[i].port = CMOS_DATA_PORT)
    BY <1>6 DEF PortInv, OwnsData
  <2> QED BY <1>1, <1>5, <2>1 DEF OwnsData
<1>9. Chosen'
  BY <1>1 DEF Chosen
<1> QED BY <1>2, <1>4, <1>6, <1>7, <1>8, <1>9 DEF PortInv

(* The driver comes into being with both ports held.                        *)
LEMMA MallocStep ==
  ASSUME PortInv, init_rtc_malloc
  PROVE  PortInv'
<1>1. /\ script[op] = "init" /\ step = 7 /\ Running /\ Advance /\ rtc_open' = TRUE
      /\ UNCHANGED <<registry, control_port, data_port>>
  BY Where DEF PortInv, init_rtc_malloc, At
<1>2. script' = script /\ op' = op /\ step' = 8 /\ Place'
  BY <1>1, InitAdvance DEF PortInv
<1>3. InInit /\ InInit' /\ ~ Closing /\ ~ Closing'
  BY <1>1, <1>2 DEF InInit, Running, Closing
<1>4. HasControl /\ HasControl' /\ HasData /\ HasData'
  BY <1>1, <1>2, <1>3 DEF HasControl, HasData
<1>5. OwnsControl' /\ OwnsData'
  BY <1>1, <1>4 DEF PortInv, OwnsControl, OwnsData
<1>6. Opened'
  <2>1. op \in 1 .. op /\ op \in DOMAIN script /\ \A k \in DOMAIN script : ~ (op <= k /\ k < op)
    BY <1>1, ScriptType DEF PortInv, Place, Running
  <2>2. step' >= 8 /\ rtc_open' \in BOOLEAN
    BY <1>1, <1>2
  <2> QED BY <1>1, <1>2, <2>1, <2>2 DEF Opened
<1>7. Chosen'
  BY <1>2 DEF Chosen
<1> QED BY <1>1, <1>2, <1>5, <1>6, <1>7 DEF PortInv

(* The steps of the closing call before its last.                           *)
LEMMA CloseAdvance ==
  ASSUME Place, Running, Advance, script[op] = "close", step \in {1, 2}
  PROVE  script' = script /\ op' = op /\ step' = step + 1 /\ Place'
<1>1. Len(Steps(script[op])) = 3
  <2>1. script[op] \in Calls
    BY CallType
  <2> QED BY <2>1, LenSteps
<1>2. step # 3
  OBVIOUS
<1>3. step # Len(Steps(script[op]))
  BY <1>1, <1>2, Zenon
<1> QED BY <1>3, AdvanceStep

(* The control port goes first; the data port stays held.                   *)
LEMMA ReleaseControlStep ==
  ASSUME PortInv, release_handle("release_control", control_port)
  PROVE  PortInv'
<1>1. /\ script[op] = "close" /\ step = 1 /\ Running /\ Advance /\ rtc_open
      /\ registry' = [registry EXCEPT ![control_port].in_use = FALSE]
      /\ UNCHANGED <<control_port, data_port, rtc_open>>
  BY Where DEF PortInv, release_handle, release_port, At, driver
<1>2. script' = script /\ op' = op /\ step' = 2 /\ Place'
  BY <1>1, CloseAdvance DEF PortInv
<1>3. ~ InInit /\ ~ InInit' /\ ~ Closing /\ Closing' /\ ~ (step' > 2)
  BY <1>1, <1>2 DEF InInit, Closing, Running
<1>4. HasControl /\ HasData /\ ~ HasControl' /\ HasData'
  BY <1>1, <1>3 DEF HasControl, HasData
<1>5. /\ control_port \in Slots /\ registry[control_port].port = CMOS_CONTROL_PORT
      /\ data_port \in Slots /\ registry[data_port].port = CMOS_DATA_PORT
      /\ registry \in Registry
  BY <1>4 DEF PortInv, OwnsControl, OwnsData
<1>6. /\ registry' \in Registry /\ registry'[control_port].port = CMOS_CONTROL_PORT
      /\ registry'[control_port].in_use = FALSE
      /\ \A i \in Slots : i # control_port => registry'[i] = registry[i]
  <2> DEFINE q == [registry EXCEPT ![control_port].in_use = FALSE]
  <2>1. /\ q \in Registry /\ q[control_port].port = registry[control_port].port /\ q[control_port].in_use = FALSE
        /\ \A i \in Slots : i # control_port => q[i] = registry[i]
    <3>1. FALSE \in BOOLEAN
      OBVIOUS
    <3> QED BY <1>5, <3>1, MarkSlot, Zenon
  <2>2. registry' = q
    BY <1>1
  <2> HIDE DEF q
  <2> QED BY <1>5, <2>1, <2>2
<1>7. OwnsControl'
  BY <1>1, <1>4, <1>5, <1>6 DEF PortInv, OwnsControl
<1>8. OwnsData'
  <2>1. data_port # control_port
    BY <1>5 DEF CMOS_CONTROL_PORT, CMOS_DATA_PORT
  <2> QED BY <1>1, <1>4, <1>5, <1>6, <2>1 DEF PortInv, OwnsData
<1>9. Opened'
  <2>1. Opened /\ script' = script /\ op' = op /\ rtc_open' = rtc_open
    BY <1>1, <1>2 DEF PortInv
  <2> QED BY <1>3, <2>1, Zenon DEF Opened
<1>10. Chosen'
  BY <1>3 DEF Chosen
<1> QED BY <1>2, <1>6, <1>7, <1>8, <1>9, <1>10 DEF PortInv

(* Then the data port goes.                                                 *)
LEMMA ReleaseDataStep ==
  ASSUME PortInv, release_handle("release_data", data_port)
  PROVE  PortInv'
<1>1. /\ script[op] = "close" /\ step = 2 /\ Running /\ Advance /\ rtc_open
      /\ registry' = [registry EXCEPT ![data_port].in_use = FALSE]
      /\ UNCHANGED <<control_port, data_port, rtc_open>>
  BY Where DEF PortInv, release_handle, release_port, At, driver
<1>2. script' = script /\ op' = op /\ step' = 3 /\ Place'
  BY <1>1, CloseAdvance DEF PortInv
<1>3. ~ InInit /\ ~ InInit' /\ Closing /\ Closing' /\ ~ (step > 2) /\ step' > 2
  BY <1>1, <1>2 DEF InInit, Closing, Running
<1>4. ~ HasControl /\ HasData /\ ~ HasControl' /\ ~ HasData'
  BY <1>1, <1>3 DEF HasControl, HasData
<1>5. /\ data_port \in Slots /\ registry[data_port].port = CMOS_DATA_PORT
      /\ registry \in Registry
  BY <1>4 DEF PortInv, OwnsData
<1>6. /\ registry' \in Registry /\ registry'[data_port].port = CMOS_DATA_PORT
      /\ registry'[data_port].in_use = FALSE
      /\ \A i \in Slots : i # data_port => registry'[i] = registry[i]
  <2> DEFINE q == [registry EXCEPT ![data_port].in_use = FALSE]
  <2>1. /\ q \in Registry /\ q[data_port].port = registry[data_port].port /\ q[data_port].in_use = FALSE
        /\ \A i \in Slots : i # data_port => q[i] = registry[i]
    <3>1. FALSE \in BOOLEAN
      OBVIOUS
    <3> QED BY <1>5, <3>1, MarkSlot, Zenon
  <2>2. registry' = q
    BY <1>1
  <2> HIDE DEF q
  <2> QED BY <1>5, <2>1, <2>2
<1>7. OwnsControl'
  BY <1>1, <1>4, <1>5, <1>6 DEF PortInv, OwnsControl
<1>8. OwnsData'
  BY <1>1, <1>4, <1>5, <1>6 DEF PortInv, OwnsData
<1>9. Opened'
  <2>1. Opened /\ script' = script /\ op' = op /\ rtc_open' = rtc_open
    BY <1>1, <1>2 DEF PortInv
  <2> QED BY <1>3, <2>1, Zenon DEF Opened
<1>10. Chosen'
  BY <1>3 DEF Chosen
<1> QED BY <1>2, <1>6, <1>7, <1>8, <1>9, <1>10 DEF PortInv

(* Between calls without a driver both ports are free.                      *)
LEMMA ClosedStep ==
  ASSUME PortInv, Running, ~ HasControl, ~ HasData, registry' = registry,
         control_port' = 0, data_port' = 0, rtc_open' = FALSE,
         script' = script, op' = op + 1, step' = 1
  PROVE  PortInv'
<1>1. Place'
  BY PlaceStep DEF PortInv
<1>2. Opened'
  BY <1>1, OpenedNext, Zenon DEF PortInv
<1>3. ~ HasControl' /\ ~ HasData'
  BY DEF HasControl, HasData
<1>4. OwnsControl' /\ OwnsData'
  BY <1>3 DEF PortInv, OwnsControl, OwnsData
<1>5. Chosen'
  BY DEF Chosen
<1> QED BY <1>1, <1>2, <1>4, <1>5 DEF PortInv

(* The driver goes when both ports are released.                            *)
LEMMA FreeStep ==
  ASSUME PortInv, free_driver
  PROVE  PortInv'
<1>1. /\ script[op] = "close" /\ step = 3 /\ Running /\ Advance
      /\ registry' = registry /\ control_port' = 0 /\ data_port' = 0 /\ rtc_open' = FALSE
  BY Where DEF PortInv, free_driver, At
<1>2. Len(Steps(script[op])) = 3
  <2>1. script[op] \in Calls
    BY <1>1, CallType DEF PortInv
  <2> QED BY <1>1, <2>1, LenSteps
<1>3. ~ (step < Len(Steps(script[op])))
  <2>1. ~ (step < 3)
    BY <1>1
  <2> QED BY <1>2, <2>1, Zenon
<1>4. script' = script /\ op' = op + 1 /\ step' = 1
  BY <1>1, <1>3, AdvanceStep DEF PortInv
<1>5. ~ HasControl /\ ~ HasData
  BY <1>1 DEF HasControl, HasData, Closing, InInit
<1> QED BY <1>1, <1>4, <1>5, ClosedStep, Zenon

(* A call without a driver finds both ports free and leaves them so.        *)
LEMMA SkipStep ==
  ASSUME PortInv, skip_call
  PROVE  PortInv'
<1>1. /\ script[op] # "init" /\ ~ rtc_open /\ Running /\ rtc_open' = rtc_open
      /\ registry' = registry /\ control_port' = control_port /\ data_port' = data_port
      /\ script' = script /\ op' = op + 1 /\ step' = 1
  BY DEF skip_call, GiveUp, driver
<1>2. ~ HasControl /\ ~ HasData
  BY <1>1 DEF HasControl, HasData, InInit
<1>3. control_port' = 0 /\ data_port' = 0
  BY <1>1, <1>2 DEF PortInv, OwnsControl, OwnsData
<1>4. rtc_open' = FALSE
  BY <1>1 DEF PortInv, Opened
<1> QED BY <1>1, <1>2, <1>3, <1>4, ClosedStep, Zenon

(* The handler, between any two steps of the main thread.                   *)
LEMMA HandlerStep ==
  ASSUME PortInv, rtc_interrupt_handler
  PROVE  PortInv'
<1>1. UNCHANGED <<script, op, step, control_port, data_port, rtc_open, slot>>
  BY DEF rtc_interrupt_handler, calls, locals, driver
<1>2. registry' \in {registry, acknowledge_rtc_interrupt.registry}
  BY DEF rtc_interrupt_handler
<1>3. CASE registry' = registry
  BY <1>1, <1>3, StillStep DEF ports, calls
<1>4. CASE registry' = acknowledge_rtc_interrupt.registry
  <2>1. /\ registry \in Registry /\ registry' \in Registry
        /\ \A i \in Slots : registry'[i].in_use = registry[i].in_use
        /\ \A i \in Slots : registry[i].in_use => registry'[i] = registry[i]
        /\ ~ is_port_in_use(registry, CMOS_CONTROL_PORT) /\ FreeSlot(registry) # 0 =>
             registry'[FreeSlot(registry)].port = CMOS_CONTROL_PORT
        /\ is_port_in_use(registry, CMOS_CONTROL_PORT) => registry' = registry
    BY <1>4, HandlerLeaves DEF PortInv
  <2>2. FreeSlot(registry') = FreeSlot(registry)
    BY <2>1, FreeSlotSame
  <2>3. /\ Place' /\ Opened' /\ InInit' = InInit
        /\ HasControl' = HasControl /\ HasData' = HasData
    BY <1>1 DEF PortInv, Place, Running, Opened, InInit, HasControl, HasData, Closing
  <2>4. OwnsControl'
    BY <1>1, <2>1, <2>3 DEF PortInv, OwnsControl
  <2>5. OwnsData'
    BY <1>1, <2>1, <2>3 DEF PortInv, OwnsData
  <2>6. Chosen'
    <3> SUFFICES ASSUME InInit, step \in {2, 3, 5, 6}
                 PROVE  /\ slot \in Slots /\ slot = FreeSlot(registry') /\ ~ registry'[slot].in_use
                        /\ step = 3 => registry'[slot].port = CMOS_CONTROL_PORT
                        /\ step = 6 => registry'[slot].port = CMOS_DATA_PORT
      BY <1>1, <2>3 DEF Chosen
    <3>1. /\ slot \in Slots /\ slot = FreeSlot(registry) /\ ~ registry[slot].in_use
          /\ step = 6 => registry[slot].port = CMOS_DATA_PORT
      BY DEF PortInv, Chosen
    <3>2. slot # 0
      BY <3>1, SlotsInt
    <3>3. ASSUME step = 3 PROVE registry'[slot].port = CMOS_CONTROL_PORT
      <4>1. ~ HasControl
        BY <3>3 DEF PortInv, Opened, HasControl
      <4>2. ~ is_port_in_use(registry, CMOS_CONTROL_PORT)
        BY <4>1 DEF PortInv, OwnsControl, is_port_in_use
      <4> QED BY <2>1, <3>1, <3>2, <4>2
    <3>4. ASSUME step = 6 PROVE registry' = registry
      <4>1. HasControl
        BY <3>4 DEF HasControl
      <4>2. is_port_in_use(registry, CMOS_CONTROL_PORT)
        BY <4>1 DEF PortInv, OwnsControl, is_port_in_use
      <4> QED BY <2>1, <4>2
    <3> QED BY <2>1, <2>2, <3>1, <3>3, <3>4
  <2> QED BY <2>1, <2>3, <2>4, <2>5, <2>6 DEF PortInv
<1> QED BY <1>2, <1>3, <1>4

(* The steps of the other calls.                                            *)
LEMMA AdvanceQuietly ==
  ASSUME PortInv, NEW what \in Quiet, At(what), Advance, UNCHANGED ports
  PROVE  PortInv'
<1>1. /\ script[op] # "close" /\ (script[op] = "init" => step >= 8)
      /\ Running /\ (script[op] = "init" \/ rtc_open)
  BY Where DEF PortInv, At
<1>2. /\ script' = script /\ Place'
      /\ \/ op' = op /\ step' = step + 1
         \/ op' = op + 1 /\ step' = 1
  BY <1>1, AdvanceStep DEF PortInv
<1>3. step \in Nat
  BY DEF PortInv, Place
<1>4. script[op] = "init" => step + 1 >= 8
  BY <1>1, <1>3
<1> QED BY <1>1, <1>2, <1>4, QuietStep

(* A guarded operation that starts over stays within its call.              *)
LEMMA RetestStep ==
  ASSUME PortInv, retest_update
  PROVE  PortInv'
<1>1. At("retest") /\ UNCHANGED ports
  BY DEF retest_update, ReadData, ports, driver
<1>2. CASE Advance
  BY <1>1, <1>2, AdvanceQuietly DEF Quiet
<1>3. CASE UNCHANGED <<script, op>> /\ step' = IF script[op] = "write" THEN 2 ELSE 1
  <2>1. script[op] \in {"read", "write"} /\ Running /\ rtc_open
    BY <1>1, Where DEF PortInv, At
  <2>2. step' \in Nat \ {0} /\ step' <= 2
    BY <1>3
  <2>3. Len(Steps(script[op])) \in {5, 6}
    <3>1. script[op] \in Calls
      BY <2>1, CallType DEF PortInv
    <3> QED BY <2>1, <3>1, LenSteps
  <2>4. step' <= Len(Steps(script[op]))
    <3> DEFINE n == Len(Steps(script[op]))
    <3>1. n \in {5, 6}
      BY <2>3
    <3> HIDE DEF n
    <3>2. step' <= n
      BY <2>2, <3>1
    <3> QED BY <3>2 DEF n
  <2>5. Place'
    BY <1>3, <2>1, <2>2, <2>4, PlaceStep DEF PortInv
  <2> QED BY <1>1, <1>3, <2>1, <2>5, QuietStep
<1> QED BY <1>2, <1>3 DEF retest_update

(* Every step of the main thread keeps the invariant.                       *)
LEMMA MainStep ==
  ASSUME PortInv, Main
  PROVE  PortInv'
<1>1. CASE \/ request_port("request_control", CMOS_CONTROL_PORT)
           \/ request_port("request_data", CMOS_DATA_PORT)
  BY <1>1, RequestStep
<1>2. CASE \/ claim_port("claim_control", CMOS_CONTROL_PORT)
           \/ claim_port("claim_data", CMOS_DATA_PORT)
  BY <1>2, ClaimStep
<1>3. CASE use_control
  BY <1>3, UseControlStep
<1>4. CASE use_data
  BY <1>4, UseDataStep
<1>5. CASE init_rtc_fails
  BY <1>5, FailStep
<1>6. CASE init_rtc_malloc
  BY <1>6, MallocStep
<1>7. CASE skip_call
  BY <1>7, SkipStep
<1>8. CASE release_handle("release_control", control_port)
  BY <1>8, ReleaseControlStep
<1>9. CASE release_handle("release_data", data_port)
  BY <1>9, ReleaseDataStep
<1>10. CASE free_driver
  BY <1>10, FreeStep
<1>11. CASE publish
  BY <1>11, AdvanceQuietly DEF publish, Quiet, ports, locals
<1>12. CASE write_arguments
  BY <1>12, AdvanceQuietly DEF write_arguments, Quiet, ports, driver
<1>13. CASE select_register
  BY <1>13, StillStep DEF select_register, ports, driver
<1>14. CASE read_cmos_register
  BY <1>14, AdvanceQuietly DEF read_cmos_register, ReadData, Quiet, ports, driver
<1>15. CASE write_cmos_register
  BY <1>15, AdvanceQuietly DEF write_cmos_register, Quiet, ports, driver
<1>16. CASE wait_for_update
  <2>1. At("wait") /\ UNCHANGED ports
    BY <1>16 DEF wait_for_update, ReadData, ports, driver
  <2>2. UNCHANGED calls \/ Advance
    BY <1>16 DEF wait_for_update
  <2> QED BY <2>1, <2>2, StillStep, AdvanceQuietly DEF Quiet
<1>17. CASE retest_update
  BY <1>17, RetestStep
<1>18. CASE register_handler
  BY <1>18, AdvanceQuietly DEF register_handler, Quiet, ports, driver, locals
<1>19. CASE unregister_handler
  BY <1>19, AdvanceQuietly DEF unregister_handler, Quiet, ports, driver, locals
<1>20. CASE pic_unmask_irq
  BY <1>20, AdvanceQuietly DEF pic_unmask_irq, Quiet, ports, driver, locals
<1> QED BY <1>1, <1>2, <1>3, <1>4, <1>5, <1>6, <1>7, <1>8, <1>9, <1>10, <1>11, <1>12, <1>13,
           <1>14, <1>15, <1>16, <1>17, <1>18, <1>19, <1>20 DEF Main

(* So does every step.                                                      *)
LEMMA PortStep == PortInv /\ [Next]_vars => PortInv'
<1> SUFFICES ASSUME PortInv, [Next]_vars PROVE PortInv'
  OBVIOUS
<1>1. CASE Main
  BY <1>1, MainStep
<1>2. CASE rtc_interrupt_handler
  BY <1>2, HandlerStep
<1>3. CASE periodic_event \/ update_begins \/ update_time \/ update_ends
  BY <1>3, StillStep, Zenon DEF periodic_event, update_begins, update_time, update_ends,
     ports, driver, locals
<1>4. CASE UNCHANGED vars
  BY <1>4, StillStep DEF vars, ports, driver, locals
<1> QED BY <1>1, <1>2, <1>3, <1>4 DEF Next

(* The invariant holds throughout.                                          *)
LEMMA PortSafe == Spec => []PortInv
  BY PortInit, PortStep, PTL DEF Spec

-----------------------------------------------------------------------------
(* While a driver is open its handles are slots in use that name its ports, *)
(* for any number of slots and any scripts that open one driver at a time.  *)
THEOREM HandlesSafe == Spec => []HandlesOwned
<1>1. PortInv => HandlesOwned
  <2> SUFFICES ASSUME PortInv, rtc_open, ~ Closing
               PROVE  /\ registry[control_port] = [port |-> CMOS_CONTROL_PORT, in_use |-> TRUE]
                      /\ registry[data_port] = [port |-> CMOS_DATA_PORT, in_use |-> TRUE]
    BY DEF HandlesOwned
  <2>1. HasControl /\ HasData
    BY DEF HasControl, HasData
  <2>2. \A i \in Slots : registry[i] \in [port : Nat, in_use : BOOLEAN]
    BY DEF PortInv, Registry
  <2>3. \A e \in [port : Nat, in_use : BOOLEAN] :
          e.in_use => e = [port |-> e.port, in_use |-> TRUE]
    OBVIOUS
  <2>4. /\ control_port \in Slots /\ registry[control_port].in_use
        /\ registry[control_port].port = CMOS_CONTROL_PORT
    BY <2>1 DEF PortInv, OwnsControl
  <2>5. /\ data_port \in Slots /\ registry[data_port].in_use
        /\ registry[data_port].port = CMOS_DATA_PORT
    BY <2>1 DEF PortInv, OwnsData
  <2>6. registry[control_port] = [port |-> CMOS_CONTROL_PORT, in_use |-> TRUE]
    BY <2>2, <2>3, <2>4, Zenon
  <2>7. registry[data_port] = [port |-> CMOS_DATA_PORT, in_use |-> TRUE]
    BY <2>2, <2>3, <2>5, Zenon
  <2> QED BY <2>6, <2>7
<1> QED BY <1>1, PortSafe, PTL

(* Without a driver, and before one is being opened, both CMOS ports are    *)
(* free, whichever way the calls before have ended.                         *)
THEOREM PortsReturned == Spec => []NoPortLeak
<1>1. PortInv => NoPortLeak
  <2> SUFFICES ASSUME PortInv, ~ rtc_open, step = 1
               PROVE  /\ ~ is_port_in_use(registry, CMOS_CONTROL_PORT)
                      /\ ~ is_port_in_use(registry, CMOS_DATA_PORT)
    BY DEF NoPortLeak
  <2>1. ~ HasControl /\ ~ HasData
    BY DEF HasControl, HasData
  <2> QED BY <2>1 DEF PortInv, OwnsControl, OwnsData, is_port_in_use
<1> QED BY <1>1, PortSafe, PTL

(* No step changes the port of a slot that is in use, neither of the main   *)
(* thread nor of the handler that interrupts it.                            *)
THEOREM SlotsSafe == Spec => SlotsKept
<1> DEFINE Kept == \A i \in Slots : registry[i].in_use => registry'[i].port = registry[i].port
<1>1. PortInv /\ [Next]_vars => [Kept]_vars
  <2> SUFFICES ASSUME PortInv, Next PROVE Kept
    OBVIOUS
  <2>1. registry \in Registry
    BY DEF PortInv
  <2>2. CASE registry' = registry
    BY <2>2
  <2>3. CASE \/ claim_port("claim_control", CMOS_CONTROL_PORT)
             \/ claim_port("claim_data", CMOS_DATA_PORT)
    <3>1. PICK p \in {CMOS_CONTROL_PORT, CMOS_DATA_PORT} :
            registry' = [registry EXCEPT ![slot].port = p]
      BY <2>3 DEF claim_port
    <3>2. Running /\ script[op] = "init" /\ step \in {2, 5}
      BY <2>3, Where DEF PortInv, claim_port, At
    <3>3. slot \in Slots /\ ~ registry[slot].in_use
      BY <3>2 DEF PortInv, Chosen, InInit
    <3>4. p \in Nat
      BY DEF CMOS_CONTROL_PORT, CMOS_DATA_PORT
    <3>5. \A i \in Slots : i # slot => registry'[i] = registry[i]
      BY <2>1, <3>1, <3>3, <3>4, WritePort
    <3> QED BY <3>3, <3>5
  <2>4. CASE \E h, b : registry' = [registry EXCEPT ![h].in_use = b] /\ b \in BOOLEAN
    <3>1. PICK h, b : registry' = [registry EXCEPT ![h].in_use = b] /\ b \in BOOLEAN
      BY <2>4, Zenon
    <3>2. CASE h \in Slots
      <4>1. /\ registry'[h].port = registry[h].port
            /\ \A i \in Slots : i # h => registry'[i] = registry[i]
        BY <2>1, <3>1, <3>2, MarkSlot
      <4> QED BY <4>1
    <3>3. CASE h \notin Slots
      BY <2>1, <3>1, <3>3 DEF Registry
    <3> QED BY <3>2, <3>3
  <2>5. CASE init_rtc_fails
    <3>1. registry' = [i \in Slots |-> IF i \in {control_port, data_port}
                                       THEN [registry[i] EXCEPT !.in_use = FALSE]
                                       ELSE registry[i]]
      BY <2>5 DEF init_rtc_fails, Abandon
    <3>2. \A i \in Slots : registry[i] \in [port : Nat, in_use : BOOLEAN]
      BY <2>1 DEF Registry
    <3>3. \A e \in [port : Nat, in_use : BOOLEAN] : [e EXCEPT !.in_use = FALSE].port = e.port
      OBVIOUS
    <3> QED BY <3>1, <3>2, <3>3
  <2>6. CASE rtc_interrupt_handler
    <3>1. registry' \in {registry, acknowledge_rtc_interrupt.registry}
      BY <2>6 DEF rtc_interrupt_handler
    <3> QED BY <2>1, <3>1, HandlerLeaves
  <2>7. use_control \/ use_data \/ release_handle("release_control", control_port)
          \/ release_handle("release_data", data_port) =>
          \E h, b : registry' = [registry EXCEPT ![h].in_use = b] /\ b \in BOOLEAN
    BY Zenon DEF use_control, use_data, release_handle, release_port
  <2>8. \/ request_port("request_control", CMOS_CONTROL_PORT)
        \/ request_port("request_data", CMOS_DATA_PORT)
        \/ init_rtc_malloc \/ skip_call \/ free_driver \/ publish \/ write_arguments
        \/ select_register \/ read_cmos_register \/ write_cmos_register
        \/ wait_for_update \/ retest_update
        \/ register_handler \/ unregister_handler \/ pic_unmask_irq
        \/ periodic_event \/ update_begins \/ update_time \/ update_ends
        => registry' = registry
    BY Zenon DEF request_port, init_rtc_malloc, skip_call, free_driver, publish, write_arguments,
       select_register, read_cmos_register, write_cmos_register, ReadData, wait_for_update,
       retest_update, register_handler, unregister_handler, pic_unmask_irq, periodic_event,
       update_begins, update_time, update_ends
  <2> HIDE DEF Kept
  <2> QED BY <2>2, <2>3, <2>4, <2>5, <2>6, <2>7, <2>8 DEF Next, Main
<1> QED BY <1>1, PortSafe, PTL DEF Spec, SlotsKept

-----------------------------------------------------------------------------
(* The registers: which one an access reaches, what the main thread writes, *)
(* when the interrupt line can rise.                                        *)

Accesses == {"read", "write", "wait", "retest"}
Regs     == {"A", "B", "C"} \cup TimeRegs
Byte     == SUBSET (0 .. 7)

(* Only a handler that acknowledges through the system's driver can come    *)
(* between the two halves of an access.                                     *)
SelectInv ==
  /\ selected \in BOOLEAN /\ system_rtc_instance \in BOOLEAN /\ handler \in BOOLEAN
  /\ selected => /\ Running /\ (script[op] = "init" \/ rtc_open) /\ Now.do \in Accesses
                 /\ ~ (system_rtc_instance /\ handler) => index = Now.reg

AccessInv == PortInv /\ SelectInv

(* A step that is no access finds no access half done.                      *)
LEMMA NotSelected ==
  ASSUME SelectInv, NEW what, what \notin Accesses, At(what)
  PROVE  selected = FALSE
BY DEF SelectInv, At

LEMMA UnselectedStep ==
  ASSUME SelectInv, selected' = FALSE, handler' \in BOOLEAN, system_rtc_instance' \in BOOLEAN
  PROVE  SelectInv'
BY Zenon DEF SelectInv

LEMMA SameAccess ==
  ASSUME SelectInv, UNCHANGED <<calls, selected, rtc_open, system_rtc_instance, handler>>,
         selected /\ ~ (system_rtc_instance /\ handler) => index' = index
  PROVE  SelectInv'
<1>1. UNCHANGED <<script, op, step, selected, rtc_open, system_rtc_instance, handler>>
  BY DEF calls
<1>2. Now' = Now /\ Running' = Running
  BY <1>1 DEF Now, Running
<1>3. selected' \in BOOLEAN /\ system_rtc_instance' \in BOOLEAN /\ handler' \in BOOLEAN
  BY <1>1 DEF SelectInv
<1>4. ASSUME selected'
      PROVE  /\ Running' /\ (script'[op'] = "init" \/ rtc_open') /\ Now'.do \in Accesses
             /\ ~ (system_rtc_instance' /\ handler') => index' = Now'.reg
  BY <1>1, <1>2, <1>4 DEF SelectInv
<1> QED
  BY <1>3, <1>4 DEF SelectInv

(* The handler leaves the selected register alone unless the driver is the  *)
(* system's: a driver whose access is half done holds the ports.            *)
LEMMA HandlerSelect ==
  ASSUME PortInv, SelectInv, rtc_interrupt_handler
  PROVE  SelectInv'
<1>1. UNCHANGED <<calls, selected, rtc_open, system_rtc_instance, handler>>
  BY DEF rtc_interrupt_handler, locals, driver
<1>2. ASSUME selected, ~ (system_rtc_instance /\ handler)
      PROVE  index' = index
  <2>1. Place /\ Running /\ (script[op] = "init" \/ rtc_open) /\ Now.do \in Quiet
    BY <1>2 DEF SelectInv, PortInv, Accesses, Quiet
  <2>2. script[op] # "close" /\ (script[op] = "init" => step >= 8)
    BY <2>1, Where DEF At
  <2>3. rtc_open /\ ~ Closing
    BY <2>1, <2>2 DEF PortInv, Opened, InInit, Closing
  <2>4. is_port_in_use(registry, CMOS_CONTROL_PORT)
    BY <2>3 DEF PortInv, OwnsControl, HasControl, is_port_in_use
  <2>5. acknowledge_rtc_interrupt.done = FALSE
    BY <2>4 DEF acknowledge_rtc_interrupt, request_fails
  <2>6. ~ Acknowledges
    BY <1>2, <2>5 DEF Acknowledges
  <2> QED
    BY <2>6 DEF rtc_interrupt_handler
<1> QED
  BY <1>1, <1>2, SameAccess

LEMMA SelectStep ==
  ASSUME PortInv, SelectInv, [Next]_vars
  PROVE  SelectInv'
<1>0. handler \in BOOLEAN /\ system_rtc_instance \in BOOLEAN
  BY DEF SelectInv
<1>1. CASE \/ request_port("request_control", CMOS_CONTROL_PORT)
           \/ request_port("request_data", CMOS_DATA_PORT)
  BY <1>0, <1>1, NotSelected, UnselectedStep, Zenon DEF request_port, driver, pic, Accesses
<1>2. CASE \/ claim_port("claim_control", CMOS_CONTROL_PORT)
           \/ claim_port("claim_data", CMOS_DATA_PORT)
  BY <1>0, <1>2, NotSelected, UnselectedStep, Zenon DEF claim_port, driver, pic, locals, Accesses
<1>3. CASE use_control \/ use_data
  BY <1>0, <1>3, NotSelected, UnselectedStep, Zenon
     DEF use_control, use_data, driver, pic, locals, Accesses
<1>4. CASE init_rtc_fails \/ init_rtc_malloc
  BY <1>0, <1>4, NotSelected, UnselectedStep, Zenon
     DEF init_rtc_fails, init_rtc_malloc, driver, pic, locals, Accesses
<1>5. CASE skip_call
  <2>1. selected = FALSE
    BY <1>5 DEF skip_call, SelectInv
  <2> QED
    BY <1>0, <1>5, <2>1, UnselectedStep, Zenon DEF skip_call, driver, pic, locals
<1>6. CASE \/ release_handle("release_control", control_port)
           \/ release_handle("release_data", data_port)
  BY <1>0, <1>6, NotSelected, UnselectedStep, Zenon DEF release_handle, driver, pic, locals, Accesses
<1>7. CASE free_driver \/ publish \/ write_arguments
  BY <1>0, <1>7, NotSelected, UnselectedStep, Zenon
     DEF free_driver, publish, write_arguments, driver, pic, locals, Accesses
<1>8. CASE select_register
  <2>1. /\ UNCHANGED <<calls, rtc_open, system_rtc_instance, handler>>
        /\ selected' = TRUE /\ index' = Now.reg
        /\ Running /\ (script[op] = "init" \/ rtc_open) /\ Now.do \in Accesses
    BY <1>8 DEF select_register, driver, pic, At, Accesses
  <2>2. UNCHANGED <<script, op, step>>
    BY <2>1 DEF calls
  <2>3. Now' = Now /\ Running' = Running
    BY <2>2 DEF Now, Running
  <2> QED
    BY <1>0, <2>1, <2>2, <2>3 DEF SelectInv
<1>9. CASE read_cmos_register \/ wait_for_update \/ retest_update
  BY <1>0, <1>9, UnselectedStep, Zenon
     DEF read_cmos_register, wait_for_update, retest_update, ReadData, driver
<1>10. CASE write_cmos_register
  BY <1>0, <1>10, UnselectedStep, Zenon DEF write_cmos_register, driver
<1>11. CASE register_handler \/ unregister_handler \/ pic_unmask_irq
  BY <1>0, <1>11, NotSelected, UnselectedStep, Zenon
     DEF register_handler, unregister_handler, pic_unmask_irq, driver, locals, Accesses
<1>12. CASE rtc_interrupt_handler
  BY <1>12, HandlerSelect
<1>13. CASE periodic_event \/ update_begins \/ update_time \/ update_ends \/ UNCHANGED vars
  BY <1>13, SameAccess, Zenon
     DEF periodic_event, update_begins, update_time, update_ends, vars, driver, locals, pic, cmos
<1> QED
  BY <1>1, <1>2, <1>3, <1>4, <1>5, <1>6, <1>7, <1>8, <1>9, <1>10, <1>11, <1>12, <1>13
     DEF Next, Main

LEMMA AccessSafe == Spec => []AccessInv
<1>1. Init => AccessInv
  BY PortInit, Zenon DEF Init, AccessInv, SelectInv
<1>2. AccessInv /\ [Next]_vars => AccessInv'
  BY PortStep, SelectStep DEF AccessInv
<1> QED
  BY <1>1, <1>2, PTL DEF Spec

(* IndexIntact: the handler comes between the index port and the data port  *)
(* as often as it likes; until the driver is published it cannot get at the *)
(* ports the driver holds.                                                  *)
THEOREM IndexSafe == Spec => []IndexIntact
<1>1. AccessInv => IndexIntact
  BY DEF AccessInv, SelectInv, IndexIntact
<1> QED
  BY <1>1, AccessSafe, PTL

-----------------------------------------------------------------------------
(* The registers of the clock.                                              *)

(* The driver is published by an earlier call of the script.                *)
PublishInv ==
  system_rtc_instance => \E i \in DOMAIN script : i < op /\ script[i] = "publish"

CmosType ==
  /\ index \in Regs /\ uip \in {"idle", "pending", "done"}
  /\ value \in Byte /\ rate \in Byte /\ reg_b \in Byte
  /\ time \in [TimeRegs -> Byte] /\ time_data \in [TimeRegs -> Byte]

(* The line can rise only while the handler is registered.                  *)
RaiseInv ==
  /\ irr => 6 \in reg_b
  /\ 6 \in reg_b => handler
  /\ Running /\ script[op] = "enable" /\ step > 1 => handler
  /\ Running /\ script[op] = "disable" /\ step > 2 => 6 \notin reg_b
  /\ InInit /\ step = 9 /\ 6 \in value => handler

(* In an attempt that no update has reached, what was transferred so far is *)
(* the same on both sides.                                                  *)
Same(r) == time_data[r] = time[r]
WholeInv ==
  Running /\ uip # "done" =>
    /\ script[op] = "read" =>
         (step > 2 => Same("seconds")) /\ (step > 3 => Same("minutes")) /\ (step > 4 => Same("hours"))
    /\ script[op] = "write" =>
         (step > 3 => Same("seconds")) /\ (step > 4 => Same("minutes")) /\ (step > 5 => Same("hours"))

RegisterInv == AccessInv /\ PublishInv /\ CmosType /\ RaiseInv /\ WholeInv

(* The accesses of each call.                                               *)
LEMMA AccessSteps ==
  /\ Steps("init")[8] = Read("B") /\ Steps("init")[9] = Write("B")
  /\ Steps("read")[1] = Wait /\ Steps("read")[2] = Read("seconds")
  /\ Steps("read")[3] = Read("minutes") /\ Steps("read")[4] = Read("hours")
  /\ Steps("read")[5] = Retest
  /\ Steps("write")[1] = Do("arguments") /\ Steps("write")[2] = Wait
  /\ Steps("write")[3] = Write("seconds") /\ Steps("write")[4] = Write("minutes")
  /\ Steps("write")[5] = Write("hours") /\ Steps("write")[6] = Retest
  /\ Steps("enable")[1] = Do("register") /\ Steps("enable")[2] = Read("A")
  /\ Steps("enable")[3] = Write("A") /\ Steps("enable")[4] = Read("B")
  /\ Steps("enable")[5] = Write("B") /\ Steps("enable")[6] = Do("unmask")
  /\ Steps("disable")[1] = Read("B") /\ Steps("disable")[2] = Write("B")
  /\ Steps("disable")[3] = Do("unregister")
<1>1. Steps("init") = init_rtc /\ Steps("read") = read_rtc_time /\ Steps("write") = write_rtc_time
      /\ Steps("enable") = enable_rtc_interrupts /\ Steps("disable") = disable_rtc_interrupts
  BY DEF Steps
<1>2. init_rtc[8] = Read("B") /\ init_rtc[9] = Write("B")
  BY DEF init_rtc, set_data_format
<1>3. /\ read_rtc_time[1] = Wait /\ read_rtc_time[2] = Read("seconds")
      /\ read_rtc_time[3] = Read("minutes") /\ read_rtc_time[4] = Read("hours")
      /\ read_rtc_time[5] = Retest
  BY DEF read_rtc_time, update_guarded_op, read_time_guarded_op
<1>4. /\ write_rtc_time[1] = Do("arguments") /\ write_rtc_time[2] = Wait
      /\ write_rtc_time[3] = Write("seconds") /\ write_rtc_time[4] = Write("minutes")
      /\ write_rtc_time[5] = Write("hours") /\ write_rtc_time[6] = Retest
  BY DEF write_rtc_time, update_guarded_op, write_time_guarded_op
<1>5. /\ enable_rtc_interrupts[1] = Do("register") /\ enable_rtc_interrupts[2] = Read("A")
      /\ enable_rtc_interrupts[3] = Write("A") /\ enable_rtc_interrupts[4] = Read("B")
      /\ enable_rtc_interrupts[5] = Write("B") /\ enable_rtc_interrupts[6] = Do("unmask")
  BY DEF enable_rtc_interrupts
<1>6. /\ disable_rtc_interrupts[1] = Read("B") /\ disable_rtc_interrupts[2] = Write("B")
      /\ disable_rtc_interrupts[3] = Do("unregister")
  BY DEF disable_rtc_interrupts
<1> QED
  BY <1>1, <1>2, <1>3, <1>4, <1>5, <1>6

(* Where the main thread is, and what it is about to do there.              *)
LEMMA Table ==
  ASSUME Place, Running
  PROVE  /\ script[op] \in Calls /\ Now = Steps(script[op])[step]
         /\ script[op] = "init" => step \in 1 .. 9
         /\ script[op] = "read" => step \in 1 .. 5
         /\ script[op] = "write" => step \in 1 .. 6
         /\ script[op] = "enable" => step \in 1 .. 6
         /\ script[op] = "disable" => step \in 1 .. 3
<1>1. script[op] \in Calls /\ Now = Steps(script[op])[step]
  BY CallType DEF Now
<1>2. step \in 1 .. Len(Steps(script[op]))
  BY DEF Place
<1>3. /\ script[op] = "init" => Len(Steps(script[op])) = 9
      /\ script[op] = "read" => Len(Steps(script[op])) = 5
      /\ script[op] = "write" => Len(Steps(script[op])) = 6
  BY <1>1, LenSteps
<1>4. script[op] = "enable" => Len(Steps(script[op])) = 6
  BY OtherSteps DEF Steps
<1>5. script[op] = "disable" => Len(Steps(script[op])) = 3
  BY OtherSteps DEF Steps
<1> QED
  BY <1>1, <1>2, <1>3, <1>4, <1>5

(* The accesses: in which calls, at which steps, and to which registers.    *)
Doing(call, k, r) == script[op] = call /\ step = k /\ Now.reg = r

LEMMA AccessTable ==
  ASSUME Place, Running
  PROVE  /\ Now.do = "read" =>
              \/ Doing("init", 8, "B") \/ Doing("disable", 1, "B")
              \/ Doing("enable", 2, "A") \/ Doing("enable", 4, "B")
              \/ Doing("read", 2, "seconds") \/ Doing("read", 3, "minutes") \/ Doing("read", 4, "hours")
         /\ Now.do = "write" =>
              \/ Doing("init", 9, "B") \/ Doing("disable", 2, "B")
              \/ Doing("enable", 3, "A") \/ Doing("enable", 5, "B")
              \/ Doing("write", 3, "seconds") \/ Doing("write", 4, "minutes") \/ Doing("write", 5, "hours")
         /\ Now.do = "wait" => Doing("read", 1, "A") \/ Doing("write", 2, "A")
         /\ Now.do = "retest" => Doing("read", 5, "A") \/ Doing("write", 6, "A")
         /\ Now.do = "register" => script[op] = "enable" /\ step = 1
         /\ Now.do = "unmask" => script[op] = "enable" /\ step = 6
         /\ Now.do = "unregister" => script[op] = "disable" /\ step = 3
         /\ Now.do = "arguments" => script[op] = "write" /\ step = 1
         /\ Now.do = "publish" => script[op] = "publish" /\ step = 1
<1>1. script[op] \in Calls /\ Now = Steps(script[op])[step]
  BY Table
<1>2. CASE script[op] = "init"
  <2>1. step \in 1 .. 9
    BY <1>2, Table
  <2>2. step \in 1 .. 7 => Now.do \notin {"read", "write", "wait", "retest", "register",
                                         "unmask", "unregister", "arguments", "publish"}
    BY <1>1, <1>2, InitSteps DEF Steps
  <2>3. step = 8 => Now.do = "read" /\ Now.reg = "B"
    BY <1>1, <1>2, AccessSteps DEF Read
  <2>4. step = 9 => Now.do = "write" /\ Now.reg = "B"
    BY <1>1, <1>2, AccessSteps DEF Write
  <2>5. step \in 1 .. 7 \/ step = 8 \/ step = 9
    BY <2>1
  <2> QED
    BY <1>2, <2>2, <2>3, <2>4, <2>5 DEF Doing
<1>3. CASE script[op] = "read"
  <2>1. step \in 1 .. 5
    BY <1>3, Table
  <2>2. /\ step = 1 => Now.do = "wait" /\ Now.reg = "A"
        /\ step = 5 => Now.do = "retest" /\ Now.reg = "A"
    BY <1>1, <1>3, AccessSteps DEF Wait, Retest
  <2>3. /\ step = 2 => Now.do = "read" /\ Now.reg = "seconds"
        /\ step = 3 => Now.do = "read" /\ Now.reg = "minutes"
        /\ step = 4 => Now.do = "read" /\ Now.reg = "hours"
    BY <1>1, <1>3, AccessSteps DEF Read
  <2>4. step = 1 \/ step = 2 \/ step = 3 \/ step = 4 \/ step = 5
    BY <2>1
  <2> QED
    BY <1>3, <2>2, <2>3, <2>4 DEF Doing
<1>4. CASE script[op] = "write"
  <2>1. step \in 1 .. 6
    BY <1>4, Table
  <2>2. /\ step = 2 => Now.do = "wait" /\ Now.reg = "A"
        /\ step = 6 => Now.do = "retest" /\ Now.reg = "A"
        /\ step = 1 => Now.do = "arguments"
    <3>1. step = 2 => Now = Wait
      BY <1>1, <1>4, AccessSteps, Zenon
    <3>2. step = 6 => Now = Retest
      BY <1>1, <1>4, AccessSteps, Zenon
    <3>3. step = 1 => Now = Do("arguments")
      BY <1>1, <1>4, AccessSteps, Zenon
    <3> QED
      BY <3>1, <3>2, <3>3 DEF Wait, Retest, Do
  <2>3. /\ step = 3 => Now.do = "write" /\ Now.reg = "seconds"
        /\ step = 4 => Now.do = "write" /\ Now.reg = "minutes"
        /\ step = 5 => Now.do = "write" /\ Now.reg = "hours"
    <3>1. step = 3 => Now = Write("seconds")
      BY <1>1, <1>4, AccessSteps, Zenon
    <3>2. step = 4 => Now = Write("minutes")
      BY <1>1, <1>4, AccessSteps, Zenon
    <3>3. step = 5 => Now = Write("hours")
      BY <1>1, <1>4, AccessSteps, Zenon
    <3> QED
      BY <3>1, <3>2, <3>3 DEF Write
  <2>4. step = 1 \/ step = 2 \/ step = 3 \/ step = 4 \/ step = 5 \/ step = 6
    BY <2>1
  <2> QED
    BY <1>4, <2>2, <2>3, <2>4 DEF Doing
<1>5. CASE script[op] = "enable"
  <2>1. step \in 1 .. 6
    BY <1>5, Table
  <2>2. /\ step = 1 => Now.do = "register"
        /\ step = 6 => Now.do = "unmask"
    BY <1>1, <1>5, AccessSteps DEF Do
  <2>3. /\ step = 2 => Now.do = "read" /\ Now.reg = "A"
        /\ step = 3 => Now.do = "write" /\ Now.reg = "A"
        /\ step = 4 => Now.do = "read" /\ Now.reg = "B"
        /\ step = 5 => Now.do = "write" /\ Now.reg = "B"
    BY <1>1, <1>5, AccessSteps DEF Read, Write
  <2>4. step = 1 \/ step = 2 \/ step = 3 \/ step = 4 \/ step = 5 \/ step = 6
    BY <2>1
  <2> QED
    BY <1>5, <2>2, <2>3, <2>4 DEF Doing
<1>6. CASE script[op] = "disable"
  <2>1. step \in 1 .. 3
    BY <1>6, Table
  <2>2. /\ step = 1 => Now.do = "read" /\ Now.reg = "B"
        /\ step = 2 => Now.do = "write" /\ Now.reg = "B"
        /\ step = 3 => Now.do = "unregister"
    BY <1>1, <1>6, AccessSteps DEF Read, Write, Do
  <2>3. step = 1 \/ step = 2 \/ step = 3
    BY <2>1
  <2> QED
    BY <1>6, <2>2, <2>3 DEF Doing
<1>7. CASE script[op] \in {"close", "publish"}
  <2>1. script[op] = "publish" => Now.do = "publish" /\ step = 1
    <3>1. Len(Steps("publish")) = 1 /\ Steps("publish")[1] = Do("publish")
      BY DEF Steps
    <3>2. script[op] = "publish" => step = 1
      <4>1. step \in Nat \ {0} /\ step <= Len(Steps(script[op]))
        BY DEF Place
      <4>2. script[op] = "publish" => Len(Steps(script[op])) = 1
        BY <3>1
      <4>3. \A k \in Nat \ {0} : k <= 1 => k = 1
        OBVIOUS
      <4> QED
        BY <4>1, <4>2, <4>3, Zenon
    <3> QED
      BY <1>1, <3>1, <3>2 DEF Do
  <2>2. script[op] = "close" => Now.do \in {"release_control", "release_data", "free"}
    <3>1. script[op] = "close" => step \in 1 .. 3
      BY <1>1, LenSteps DEF Place
    <3> QED
      BY <1>1, <3>1, CloseSteps DEF Steps
  <2> QED
    BY <1>7, <2>1, <2>2
<1> QED
  BY <1>1, <1>2, <1>3, <1>4, <1>5, <1>6, <1>7, Zenon DEF Calls

-----------------------------------------------------------------------------
(* Time is read and written, and interrupts are turned off, before the      *)
(* driver is published.                                                     *)
LEMMA Unpublished ==
  ASSUME PublishedLast, Place, Running, PublishInv, script[op] \in {"read", "write", "disable"}
  PROVE  ~ system_rtc_instance
<1>1. script \in Scripts /\ script \in Seq(Calls) /\ op \in DOMAIN script
  BY ScriptType DEF Place, Running
<1> QED
  BY <1>1 DEF PublishedLast, PublishInv

LEMMA PublishKept ==
  ASSUME Place, PublishInv, script' = script, op' \in {op, op + 1},
         system_rtc_instance' = system_rtc_instance
  PROVE  PublishInv'
<1>1. op \in Nat /\ script \in Seq(Calls)
  BY ScriptType DEF Place
<1>2. ASSUME system_rtc_instance'
      PROVE  \E i \in DOMAIN script' : i < op' /\ script'[i] = "publish"
  <2>1. PICK i \in DOMAIN script : i < op /\ script[i] = "publish"
    BY <1>2 DEF PublishInv
  <2>2. i \in Int /\ i < op'
    BY <1>1, <2>1
  <2> QED
    BY <2>1, <2>2
<1> QED
  BY <1>2 DEF PublishInv

LEMMA ContentType ==
  ASSUME CmosType, NEW r \in Regs
  PROVE  Content(r) \in Byte
<1>1. {5} \in Byte /\ {7} \in Byte /\ {6} \in Byte /\ {} \in Byte
  BY DEF Byte
<1>2. \A x, y \in Byte : x \cup y \in Byte
  BY DEF Byte
<1>3. r = "A" => Content(r) \in Byte
  <2>1. Content("A") = (IF uip = "idle" THEN {} ELSE {7}) \cup {5} \cup rate
    BY DEF Content
  <2>2. (IF uip = "idle" THEN {} ELSE {7}) \cup {5} \in Byte
    BY <1>1, <1>2
  <2>3. rate \in Byte
    BY DEF CmosType
  <2> QED
    BY <1>2, <2>1, <2>2, <2>3, Zenon
<1>4. r = "B" => Content(r) \in Byte
  BY DEF Content, CmosType
<1>5. r = "C" => Content(r) \in Byte
  <2>1. Content("C") = IF pf THEN {6} \cup (IF 6 \in reg_b THEN {7} ELSE {}) ELSE {}
    BY DEF Content
  <2> QED
    BY <1>1, <1>2, <2>1
<1>6. r \in TimeRegs => Content(r) \in Byte
  BY DEF Content, CmosType, TimeRegs
<1> QED
  BY <1>3, <1>4, <1>5, <1>6 DEF Regs

(* Reading the seconds, minutes or hours, and the flag for an update.       *)
LEMMA ContentOf ==
  /\ \A r \in TimeRegs : Content(r) = time[r]
  /\ Content("B") = reg_b
  /\ 7 \notin Content("A") => uip = "idle"
BY DEF Content, TimeRegs

(* Steps that neither access a register nor concern the interrupt.          *)
LEMMA ElsewhereStep ==
  ASSUME RegisterInv, Running, AccessInv', PublishInv', UNCHANGED <<value, cmos, clock, pic>>,
         time_data' \in [TimeRegs -> Byte], script' = script,
         \/ op' = op + 1 /\ step' = 1
         \/ op' = op /\ script[op] \in {"init", "close"} /\ step' < 9
         \/ op' = op /\ script[op] = "write" /\ step' = 2
  PROVE  RegisterInv'
<1>1. UNCHANGED <<index, rate, reg_b, pf, time, uip, updates, handler, irr, unmasked>>
  BY DEF cmos, clock, pic
<1>2. CmosType'
  BY <1>1 DEF RegisterInv, CmosType
<1>3. step' \in Nat \ {0}
  BY DEF AccessInv, PortInv, Place
<1>4. RaiseInv'
  BY <1>1, <1>3 DEF RegisterInv, RaiseInv, InInit
<1>5. WholeInv'
  BY <1>3 DEF WholeInv
<1> QED
  BY <1>2, <1>4, <1>5 DEF RegisterInv

(* Selecting a register, and what the clock and the line do by themselves.  *)
LEMMA AsideStep ==
  ASSUME RegisterInv, AccessInv', UNCHANGED calls,
         UNCHANGED <<value, time_data, system_rtc_instance, rate, reg_b, handler>>,
         index' \in Regs, irr' => 6 \in reg_b,
         \/ UNCHANGED <<time, uip>>
         \/ uip' = "pending" /\ uip = "idle" /\ time' = time
         \/ uip' = "done" /\ time' \in [TimeRegs -> Byte]
         \/ uip' = "idle" /\ ~ InAttempt /\ time' = time
  PROVE  RegisterInv'
<1>1. UNCHANGED <<script, op, step>> /\ Running' = Running /\ InInit' = InInit
  BY DEF calls, Running, InInit
<1>2. CmosType'
  BY DEF RegisterInv, CmosType
<1>3. RaiseInv'
  BY <1>1 DEF RegisterInv, RaiseInv
<1>4. PublishInv'
  BY <1>1 DEF RegisterInv, PublishInv
<1>5. WholeInv'
  <2>1. CASE uip' # "done" /\ uip # "done" /\ time' = time
    BY <1>1, <2>1 DEF RegisterInv, WholeInv, Same
  <2>2. CASE uip' = "done"
    BY <2>2 DEF WholeInv
  <2>3. CASE uip' = "idle" /\ ~ InAttempt
    <3> SUFFICES ASSUME Running, script[op] \in {"read", "write"}
                 PROVE  WholeInv'
      BY <1>1 DEF WholeInv
    <3>1. Place /\ step \in Nat /\ Now = Steps(script[op])[step]
      BY Table DEF RegisterInv, AccessInv, PortInv, Place
    <3>2. Now.do \notin {"read", "write", "retest"}
      BY <2>3 DEF InAttempt
    <3>3. script[op] = "read" => step = 1
      <4>1. script[op] = "read" => step \in 1 .. 5
        BY <3>1, Table
      <4>2. /\ Read("seconds").do = "read" /\ Read("minutes").do = "read"
            /\ Read("hours").do = "read" /\ Retest.do = "retest"
        BY DEF Read, Retest
      <4>3. script[op] = "read" => step # 2 /\ step # 3 /\ step # 4 /\ step # 5
        BY <3>1, <3>2, <4>2, AccessSteps, Zenon
      <4> QED
        BY <4>1, <4>3
    <3>4. script[op] = "write" => step \in {1, 2}
      <4>1. script[op] = "write" => step \in 1 .. 6
        BY <3>1, Table
      <4>2. /\ Write("seconds").do = "write" /\ Write("minutes").do = "write"
            /\ Write("hours").do = "write" /\ Retest.do = "retest"
        BY DEF Write, Retest
      <4>3. script[op] = "write" => step # 3 /\ step # 4 /\ step # 5 /\ step # 6
        BY <3>1, <3>2, <4>2, AccessSteps, Zenon
      <4> QED
        BY <4>1, <4>3
    <3> QED
      BY <1>1, <3>3, <3>4 DEF WholeInv
  <2> QED
    BY <2>1, <2>2, <2>3 DEF RegisterInv, CmosType
<1> QED
  BY <1>2, <1>3, <1>4, <1>5 DEF RegisterInv

(* Enabling and disabling, as far as the registry of handlers and the mask. *)
LEMMA HandlerRegistryStep ==
  ASSUME RegisterInv, AccessInv', register_handler \/ unregister_handler \/ pic_unmask_irq
  PROVE  RegisterInv'
<1>1. /\ UNCHANGED <<locals, driver, cmos, clock, irr>> /\ Running /\ Advance
      /\ \/ (Now.do = "register" /\ handler' = TRUE)
         \/ (Now.do = "unmask" /\ handler' = handler)
         \/ (Now.do = "unregister" /\ handler' = FALSE)
  BY DEF register_handler, unregister_handler, pic_unmask_irq, At
<1>2. UNCHANGED <<value, time_data, system_rtc_instance, index, rate, reg_b, time, uip, irr>>
  BY <1>1 DEF locals, driver, cmos, clock
<1>3. Place /\ Place' /\ step \in Nat
  BY DEF RegisterInv, AccessInv, PortInv, Place
<1>4. /\ script' = script
      /\ \/ op' = op /\ step' = step + 1
         \/ op' = op + 1 /\ step' = 1
  BY <1>1, <1>3, AdvanceStep
<1>5. /\ Now.do = "register" => script[op] = "enable" /\ step = 1
      /\ Now.do = "unmask" => script[op] = "enable" /\ step = 6
      /\ Now.do = "unregister" => script[op] = "disable" /\ step = 3
  BY <1>1, <1>3, AccessTable
<1>6. CmosType'
  BY <1>2 DEF RegisterInv, CmosType
<1>7. PublishInv'
  BY <1>2, <1>3, <1>4, PublishKept DEF RegisterInv
<1>8. WholeInv'
  BY <1>1, <1>4, <1>5 DEF WholeInv
<1>9. RaiseInv'
  <2>1. CASE Now.do = "register"
    BY <1>1, <1>2, <1>4, <1>5, <2>1 DEF RegisterInv, RaiseInv, InInit
  <2>2. CASE Now.do = "unmask"
    BY <1>1, <1>2, <1>4, <1>5, <2>2 DEF RegisterInv, RaiseInv, InInit
  <2>3. CASE Now.do = "unregister"
    <3>1. 6 \notin reg_b
      BY <1>1, <1>5, <2>3 DEF RegisterInv, RaiseInv
    <3>2. Running' /\ op' = op => script'[op'] = "disable"
      BY <1>4, <1>5, <2>3
    <3> QED
      BY <1>2, <1>4, <3>1, <3>2 DEF RegisterInv, RaiseInv, InInit
  <2> QED
    BY <1>1, <2>1, <2>2, <2>3
<1> QED
  BY <1>6, <1>7, <1>8, <1>9 DEF RegisterInv

(* What holds of the second half of every access.                           *)
LEMMA AccessFacts ==
  ASSUME PublishedLast, RegisterInv, NEW what \in Accesses, At(what), selected
  PROVE  /\ Place /\ step \in Nat /\ Running /\ Now.do = what
         /\ script[op] \in {"read", "write", "disable"} => index = Now.reg
         /\ ~ handler => index = Now.reg
<1>1. Place /\ step \in Nat /\ Running /\ Now.do = what
  BY DEF RegisterInv, AccessInv, PortInv, Place, At
<1>2. ~ (system_rtc_instance /\ handler) => index = Now.reg
  BY DEF RegisterInv, AccessInv, SelectInv
<1>3. script[op] \in {"read", "write", "disable"} => ~ system_rtc_instance
  BY <1>1, Unpublished DEF RegisterInv
<1> QED
  BY <1>1, <1>2, <1>3

(* The data port is read: nothing but the flags of C changes.               *)
LEMMA DataRead ==
  ASSUME RegisterInv, ReadData
  PROVE  /\ selected /\ (irr' => 6 \in reg_b)
         /\ UNCHANGED <<system_rtc_instance, index, rate, reg_b, time, uip, handler>>
BY Zenon DEF ReadData, driver, clock, Latched, Line

LEMMA ReadStep ==
  ASSUME PublishedLast, RegisterInv, AccessInv', read_cmos_register
  PROVE  RegisterInv'
<1>1. /\ At("read") /\ ReadData /\ Advance /\ value' = Content(index)
      /\ time_data' = IF Now.reg \in TimeRegs
                      THEN [time_data EXCEPT ![Now.reg] = Content(index)] ELSE time_data
  BY DEF read_cmos_register
<1>2. /\ selected /\ (irr' => 6 \in reg_b)
      /\ UNCHANGED <<system_rtc_instance, index, rate, reg_b, time, uip, handler>>
  BY <1>1, DataRead
<1>3. /\ Place /\ step \in Nat /\ Running /\ Now.do = "read"
      /\ script[op] \in {"read", "write", "disable"} => index = Now.reg
      /\ ~ handler => index = Now.reg
  BY <1>1, <1>2, AccessFacts DEF Accesses
<1>4. /\ script' = script
      /\ \/ op' = op /\ step' = step + 1
         \/ op' = op + 1 /\ step' = 1
  BY <1>1, <1>3, AdvanceStep
<1>5. \/ Doing("init", 8, "B") \/ Doing("disable", 1, "B")
      \/ Doing("enable", 2, "A") \/ Doing("enable", 4, "B")
      \/ Doing("read", 2, "seconds") \/ Doing("read", 3, "minutes") \/ Doing("read", 4, "hours")
  BY <1>3, AccessTable
<1>6. Content(index) \in Byte
  BY ContentType DEF RegisterInv, CmosType
<1>7. time_data' \in [TimeRegs -> Byte]
  BY <1>1, <1>6 DEF RegisterInv, CmosType
<1>8. CmosType'
  BY <1>1, <1>2, <1>6, <1>7 DEF RegisterInv, CmosType
<1>9. PublishInv'
  BY <1>2, <1>3, <1>4, PublishKept DEF RegisterInv
<1>10. RaiseInv'
  <2>1. Doing("init", 8, "B") /\ ~ handler => 6 \notin value'
    <3>1. Doing("init", 8, "B") /\ ~ handler => value' = reg_b
      BY <1>1, <1>3, ContentOf DEF Doing
    <3> QED
      BY <3>1 DEF RegisterInv, RaiseInv
  <2>2. script[op] = "enable" => handler
    BY <1>3, <1>5 DEF RegisterInv, RaiseInv, Doing
  <2>3. script[op] = "disable" => step = 1
    BY <1>5 DEF Doing
  <2>4. script[op] = "init" => step = 8 /\ Doing("init", 8, "B")
    BY <1>5 DEF Doing
  <2> QED
    BY <1>2, <1>3, <1>4, <2>1, <2>2, <2>3, <2>4 DEF RegisterInv, RaiseInv, InInit
<1>11. WholeInv'
  <2> SUFFICES ASSUME op' = op, step' = step + 1, Running', uip # "done", script[op] \in {"read", "write"}
               PROVE  WholeInv'
    BY <1>2, <1>4 DEF WholeInv
  <2>1. script[op] = "read" /\ index = Now.reg
    BY <1>3, <1>5 DEF Doing
  <2>2. Now.reg \in TimeRegs
    BY <1>5, <2>1 DEF Doing, TimeRegs
  <2>3. time_data' = [time_data EXCEPT ![Now.reg] = time[Now.reg]]
    BY <1>1, <2>1, <2>2, ContentOf, Zenon
  <2>4. /\ \A r \in TimeRegs : Same(r) \/ r = Now.reg => time_data'[r] = time'[r]
    BY <1>2, <2>2, <2>3 DEF Same, RegisterInv, CmosType
  <2>5. /\ step = 2 => Now.reg = "seconds"
        /\ step = 3 => Now.reg = "minutes"
        /\ step = 4 => Now.reg = "hours"
        /\ step \in {2, 3, 4}
    BY <1>5, <2>1 DEF Doing
  <2>6. (step > 2 => Same("seconds")) /\ (step > 3 => Same("minutes"))
    BY <1>3, <2>1 DEF RegisterInv, WholeInv
  <2>7. (step' > 2 => time_data'["seconds"] = time'["seconds"])
        /\ (step' > 3 => time_data'["minutes"] = time'["minutes"])
        /\ (step' > 4 => time_data'["hours"] = time'["hours"])
    BY <1>3, <2>4, <2>5, <2>6 DEF TimeRegs
  <2> QED
    BY <1>4, <2>1, <2>7 DEF WholeInv, Same
<1> QED
  BY <1>8, <1>9, <1>10, <1>11 DEF RegisterInv

(* The two tests for an update.                                             *)
LEMMA TestStep ==
  ASSUME PublishedLast, RegisterInv, AccessInv', wait_for_update \/ retest_update
  PROVE  RegisterInv'
<1>1. PICK what \in {"wait", "retest"} :
        /\ At(what) /\ ReadData /\ UNCHANGED <<value, time_data>>
        /\ \/ UNCHANGED calls \/ Advance
           \/ (UNCHANGED <<script, op>> /\ step' = (IF script[op] = "write" THEN 2 ELSE 1)
               /\ what = "retest")
  BY DEF wait_for_update, retest_update
<1>2. /\ selected /\ (irr' => 6 \in reg_b)
      /\ UNCHANGED <<system_rtc_instance, index, rate, reg_b, time, uip, handler>>
  BY <1>1, DataRead
<1>3. Place /\ step \in Nat /\ Running /\ Now.do = what
  BY <1>1, <1>2, AccessFacts DEF Accesses
<1>4. /\ script' = script
      /\ \/ op' = op /\ step' = step + 1
         \/ op' = op + 1 /\ step' = 1
         \/ op' = op /\ step' = step
         \/ (op' = op /\ step' = (IF script[op] = "write" THEN 2 ELSE 1))
  BY <1>1, <1>3, AdvanceStep DEF calls
<1>5. /\ Doing("read", 1, "A") \/ Doing("write", 2, "A") \/ Doing("read", 5, "A") \/ Doing("write", 6, "A")
      /\ what = "wait" => Doing("read", 1, "A") \/ Doing("write", 2, "A")
  BY <1>1, <1>3, AccessTable
<1>6. step' = step + 1 /\ op' = op => Doing("read", 1, "A") \/ Doing("write", 2, "A")
  <2>1. Place'
    BY DEF AccessInv, PortInv
  <2>2. op' = op => (script[op] = "read" => step' \in 1 .. 5) /\ (script[op] = "write" => step' \in 1 .. 6)
    <3>1. op' = op => step' \in Nat \ {0} /\ step' <= Len(Steps(script[op]))
      BY <1>3, <1>4, <2>1 DEF Place, Running
    <3>2. (script[op] = "read" => Len(Steps(script[op])) = 5)
          /\ (script[op] = "write" => Len(Steps(script[op])) = 6)
      BY <1>3, CallType, LenSteps
    <3>3. \A k \in Nat \ {0} : (k <= 5 => k \in 1 .. 5) /\ (k <= 6 => k \in 1 .. 6)
      OBVIOUS
    <3> QED
      BY <3>1, <3>2, <3>3, Zenon
  <2> QED
    BY <1>3, <1>5, <2>2 DEF Doing
<1>7. CmosType'
  BY <1>1, <1>2 DEF RegisterInv, CmosType
<1>8. PublishInv'
  BY <1>2, <1>3, <1>4, PublishKept DEF RegisterInv
<1>9. script[op] \in {"read", "write"}
  BY <1>5 DEF Doing
<1>10. RaiseInv'
  BY <1>2, <1>4, <1>9 DEF RegisterInv, RaiseInv, InInit
<1>11. WholeInv'
  <2>1. CASE op' = op + 1 /\ step' = 1
    BY <2>1 DEF WholeInv
  <2>2. CASE op' = op /\ step' = step
    BY <1>1, <1>2, <1>3, <1>4, <2>2, Zenon DEF RegisterInv, WholeInv, Same
  <2>3. CASE op' = op /\ step' = step + 1
    BY <1>4, <1>6, <2>3 DEF WholeInv, Doing
  <2>4. CASE op' = op /\ step' = (IF script[op] = "write" THEN 2 ELSE 1)
    BY <1>4, <2>4 DEF WholeInv
  <2> QED
    BY <1>4, <2>1, <2>2, <2>3, <2>4
<1> QED
  BY <1>7, <1>8, <1>10, <1>11 DEF RegisterInv

LEMMA WriteStep ==
  ASSUME PublishedLast, RegisterInv, AccessInv', write_cmos_register
  PROVE  RegisterInv'
<1> DEFINE byte == NewContent(script[op], Now.reg)
<1>1. /\ At("write") /\ selected /\ Advance /\ irr' = Latched(reg_b', pf)
      /\ rate' = (IF index = "A" THEN byte \cap (0 .. 3) ELSE rate)
      /\ reg_b' = (IF index = "B" THEN byte ELSE reg_b)
      /\ time' = (IF index \in TimeRegs THEN [time EXCEPT ![index] = byte] ELSE time)
      /\ UNCHANGED <<value, time_data, system_rtc_instance, index, uip, handler>>
  BY DEF write_cmos_register, driver
<1>2. /\ Place /\ step \in Nat /\ Running /\ Now.do = "write"
      /\ script[op] \in {"read", "write", "disable"} => index = Now.reg
      /\ ~ handler => index = Now.reg
  BY <1>1, AccessFacts DEF Accesses
<1>3. /\ script' = script
      /\ \/ op' = op /\ step' = step + 1
         \/ op' = op + 1 /\ step' = 1
  BY <1>1, <1>2, AdvanceStep
<1>4. \/ Doing("init", 9, "B") \/ Doing("disable", 2, "B")
      \/ Doing("enable", 3, "A") \/ Doing("enable", 5, "B")
      \/ Doing("write", 3, "seconds") \/ Doing("write", 4, "minutes") \/ Doing("write", 5, "hours")
  BY <1>2, AccessTable
<1>5. /\ Doing("init", 9, "B") => byte = value \cup {1, 2}
      /\ Doing("disable", 2, "B") => byte = value \ {6}
      /\ Doing("enable", 3, "A") => byte = (value \cap (4 .. 7)) \cup {3}
      /\ Doing("enable", 5, "B") => byte = value \cup {6}
      /\ Doing("write", 3, "seconds") => byte = time_data["seconds"]
      /\ Doing("write", 4, "minutes") => byte = time_data["minutes"]
      /\ Doing("write", 5, "hours") => byte = time_data["hours"]
  BY DEF NewContent, Doing
<1>6. byte \in Byte
  <2>1. value \in Byte /\ \A r \in TimeRegs : time_data[r] \in Byte
    BY DEF RegisterInv, CmosType
  <2>2. /\ value \cup {1, 2} \in Byte /\ value \ {6} \in Byte /\ value \cup {6} \in Byte
        /\ (value \cap (4 .. 7)) \cup {3} \in Byte
    BY <2>1 DEF Byte
  <2> HIDE DEF byte
  <2> QED
    BY <1>4, <1>5, <2>1, <2>2 DEF TimeRegs
<1> HIDE DEF byte
<1>7. CmosType'
  <2>1. byte \cap (0 .. 3) \in Byte
    BY <1>6 DEF Byte
  <2> QED
    BY <1>1, <1>6, <2>1 DEF RegisterInv, CmosType
<1>8. PublishInv'
  BY <1>1, <1>2, <1>3, PublishKept DEF RegisterInv
<1>9. RaiseInv'
  <2>1. irr' => 6 \in reg_b'
    BY <1>1, Zenon DEF Latched, Line
  <2>2. ASSUME 6 \in reg_b', ~ handler
        PROVE  FALSE
    <3>1. index = Now.reg /\ 6 \notin reg_b
      BY <1>2, <2>2 DEF RegisterInv, RaiseInv
    <3>2. reg_b' = byte /\ index = "B"
      BY <1>1, <2>2, <3>1
    <3>3. CASE Doing("init", 9, "B")
      <4>1. script[op] = "init" /\ step = 9
        BY <3>3 DEF Doing
      <4>2. InInit
        BY <1>2, <4>1 DEF InInit
      <4> QED
        BY <1>2, <1>5, <2>2, <3>2, <3>3, <4>1, <4>2 DEF RegisterInv, RaiseInv
    <3>4. CASE Doing("disable", 2, "B")
      BY <1>5, <2>2, <3>2, <3>4
    <3>5. CASE Doing("enable", 5, "B") \/ Doing("enable", 3, "A")
      BY <1>2, <2>2, <3>5 DEF RegisterInv, RaiseInv, Doing
    <3> QED
      BY <1>4, <3>1, <3>2, <3>3, <3>4, <3>5 DEF Doing
  <2>3. script[op] = "disable" => 6 \notin reg_b'
    BY <1>1, <1>2, <1>4, <1>5 DEF Doing
  <2>4. script[op] = "enable" => handler
    BY <1>2, <1>4 DEF RegisterInv, RaiseInv, Doing
  <2>5. script[op] = "init" => step = 9
    BY <1>4 DEF Doing
  <2> QED
    BY <1>1, <1>2, <1>3, <2>1, <2>2, <2>3, <2>4, <2>5 DEF RaiseInv, InInit
<1>10. WholeInv'
  <2> SUFFICES ASSUME op' = op, step' = step + 1, Running', uip # "done", script[op] \in {"read", "write"}
               PROVE  WholeInv'
    BY <1>1, <1>3 DEF WholeInv
  <2>1. script[op] = "write" /\ index = Now.reg
    BY <1>2, <1>4 DEF Doing
  <2>2. index \in TimeRegs /\ byte = time_data[index]
    BY <1>4, <1>5, <2>1 DEF Doing, TimeRegs
  <2>3. time' = [time EXCEPT ![Now.reg] = time_data[Now.reg]]
    BY <1>1, <2>1, <2>2, Zenon
  <2>4. /\ \A r \in TimeRegs : Same(r) \/ r = Now.reg => time_data'[r] = time'[r]
    BY <1>1, <2>1, <2>2, <2>3 DEF Same, RegisterInv, CmosType
  <2>5. /\ step = 3 => Now.reg = "seconds"
        /\ step = 4 => Now.reg = "minutes"
        /\ step = 5 => Now.reg = "hours"
        /\ step \in {3, 4, 5}
    BY <1>4, <2>1 DEF Doing
  <2>6. (step > 3 => Same("seconds")) /\ (step > 4 => Same("minutes"))
    BY <1>2, <2>1 DEF RegisterInv, WholeInv
  <2>7. (step' > 3 => time_data'["seconds"] = time'["seconds"])
        /\ (step' > 4 => time_data'["minutes"] = time'["minutes"])
        /\ (step' > 5 => time_data'["hours"] = time'["hours"])
    BY <1>2, <2>4, <2>5, <2>6 DEF TimeRegs
  <2> QED
    BY <1>3, <2>1, <2>7 DEF WholeInv, Same
<1> QED
  BY <1>7, <1>8, <1>9, <1>10 DEF RegisterInv

(* The steps of init_rtc, of the end of a driver, and the arguments.        *)
LEMMA ElsewhereSteps ==
  ASSUME RegisterInv, AccessInv',
         \/ request_port("request_control", CMOS_CONTROL_PORT)
         \/ request_port("request_data", CMOS_DATA_PORT)
         \/ claim_port("claim_control", CMOS_CONTROL_PORT)
         \/ claim_port("claim_data", CMOS_DATA_PORT)
         \/ use_control \/ use_data
         \/ init_rtc_fails \/ init_rtc_malloc \/ skip_call
         \/ release_handle("release_control", control_port)
         \/ release_handle("release_data", data_port)
         \/ free_driver \/ publish \/ write_arguments
  PROVE  RegisterInv'
<1>1. Place /\ step \in Nat /\ op \in Nat
  BY DEF RegisterInv, AccessInv, PortInv, Place
<1>2. Running /\ UNCHANGED <<value, cmos, clock, pic>>
  BY DEF request_port, claim_port, use_control, use_data, init_rtc_fails, init_rtc_malloc,
         skip_call, release_handle, free_driver, publish, write_arguments, At, locals
<1>3. time_data' \in [TimeRegs -> Byte]
  <2>1. [TimeRegs -> {{}, {0}}] \subseteq [TimeRegs -> Byte]
    BY DEF Byte
  <2>2. time_data' = time_data \/ time_data' \in [TimeRegs -> {{}, {0}}]
    BY DEF request_port, claim_port, use_control, use_data, init_rtc_fails, init_rtc_malloc,
           skip_call, release_handle, free_driver, publish, write_arguments, locals
  <2> QED
    BY <2>1, <2>2 DEF RegisterInv, CmosType
<1>4. \/ /\ Advance
         /\ \/ script[op] = "init" /\ step <= 7
            \/ script[op] = "close"
            \/ script[op] = "write" /\ step = 1
            \/ At("publish")
      \/ GiveUp
  <2>1. \/ GiveUp
        \/ /\ Advance
           /\ \/ At("request_control") \/ At("request_data") \/ At("claim_control")
              \/ At("claim_data") \/ At("use_control") \/ At("use_data") \/ At("malloc")
              \/ At("release_control") \/ At("release_data") \/ At("free")
              \/ At("publish") \/ At("arguments")
    BY Zenon DEF request_port, claim_port, use_control, use_data, init_rtc_fails, init_rtc_malloc,
                 skip_call, release_handle, free_driver, publish, write_arguments
  <2>2. At("arguments") => script[op] = "write" /\ step = 1
    BY <1>1, <1>2, AccessTable, Zenon DEF At
  <2>3. step \in {1, 2, 3, 4, 5, 6, 7} => step <= 7
    BY <1>1
  <2> QED
    BY <1>1, <2>1, <2>2, <2>3, Where, Zenon
<1>5. At("publish") => script[op] = "publish" /\ step = 1 /\ Len(Steps(script[op])) = 1
  <2>1. Len(Steps("publish")) = 1
    BY DEF Steps
  <2> QED
    BY <1>1, <1>2, <2>1, AccessTable DEF At
<1>6. /\ script' = script
      /\ \/ op' = op + 1 /\ step' = 1
         \/ op' = op /\ script[op] \in {"init", "close"} /\ step' < 9
         \/ op' = op /\ script[op] = "write" /\ step' = 2
  <2>1. CASE GiveUp
    BY <2>1 DEF GiveUp
  <2>2. CASE Advance
    <3>1. /\ script' = script
          /\ \/ op' = op /\ step' = step + 1 /\ step < Len(Steps(script[op]))
             \/ op' = op + 1 /\ step' = 1
      BY <1>1, <1>2, <2>2, AdvanceStep
    <3>2. script[op] = "close" => Len(Steps(script[op])) = 3
      BY <1>1, <1>2, CallType, LenSteps
    <3>3. CASE op' = op + 1 /\ step' = 1
      BY <3>1, <3>3
    <3>4. CASE op' = op /\ step' = step + 1 /\ step < Len(Steps(script[op]))
      <4>1. script[op] = "close" => step < 3
        BY <3>2, <3>4, Zenon
      <4>2. step < 3 => step + 1 < 9
        BY <1>1
      <4>3. step <= 7 => step + 1 < 9
        BY <1>1
      <4>4. ~ At("publish")
        <5>1. step = 1 /\ Len(Steps(script[op])) = 1 => ~ (step < Len(Steps(script[op])))
          OBVIOUS
        <5> QED
          BY <1>5, <3>4, <5>1
      <4>5. step = 1 => step + 1 = 2
        OBVIOUS
      <4>6. CASE GiveUp
        BY <4>6 DEF GiveUp
      <4> QED
        BY <1>4, <3>1, <3>4, <4>1, <4>2, <4>3, <4>4, <4>5, <4>6
    <3> QED
      BY <3>1, <3>3, <3>4
  <2> QED
    BY <1>4, <2>1, <2>2
<1>7. PublishInv'
  <2>1. CASE publish
    <3>1. script[op] = "publish" /\ op' = op + 1 /\ script' = script
      <4>1. At("publish") /\ Advance
        BY <2>1 DEF publish
      <4>2. script[op] = "publish" /\ step = 1 /\ Len(Steps(script[op])) = 1
        BY <1>5, <4>1
      <4>3. ~ (step < Len(Steps(script[op])))
        <5>1. ~ (1 < 1)
          OBVIOUS
        <5> QED
          BY <4>2, <5>1, Zenon
      <4> QED
        BY <4>1, <4>2, <4>3 DEF Advance
    <3>2. op \in DOMAIN script /\ op < op + 1
      <4>1. script \in Seq(Calls)
        BY <1>1, ScriptType DEF Place
      <4> QED
        BY <1>1, <1>2, <4>1 DEF Running, Place
    <3> QED
      BY <3>1, <3>2 DEF PublishInv
  <2>2. CASE ~ publish
    <3>1. system_rtc_instance' = system_rtc_instance
      BY <2>2 DEF request_port, claim_port, use_control, use_data, init_rtc_fails, init_rtc_malloc,
           skip_call, release_handle, free_driver, write_arguments, driver
    <3>2. op' \in {op, op + 1}
      BY <1>6
    <3> QED
      BY <1>1, <1>6, <3>1, <3>2, PublishKept DEF RegisterInv
  <2> QED
    BY <2>1, <2>2
<1> QED
  BY <1>2, <1>3, <1>6, <1>7, ElsewhereStep

LEMMA RegisterStep ==
  ASSUME PublishedLast, RegisterInv, [Next]_vars
  PROVE  RegisterInv'
<1>1. AccessInv'
  BY PortStep, SelectStep DEF RegisterInv, AccessInv
<1>2. CASE read_cmos_register
  BY <1>1, <1>2, ReadStep
<1>3. CASE write_cmos_register
  BY <1>1, <1>3, WriteStep
<1>4. CASE wait_for_update \/ retest_update
  BY <1>1, <1>4, TestStep
<1>5. CASE register_handler \/ unregister_handler \/ pic_unmask_irq
  BY <1>1, <1>5, HandlerRegistryStep
<1>6. index \in Regs /\ (irr => 6 \in reg_b) /\ time \in [TimeRegs -> Byte]
  BY DEF RegisterInv, CmosType, RaiseInv
<1>7. CASE select_register
  <2>1. /\ UNCHANGED calls
        /\ UNCHANGED <<value, time_data, system_rtc_instance, rate, reg_b, handler>>
        /\ UNCHANGED <<time, uip>> /\ irr' = irr /\ index' = Now.reg /\ Running
        /\ Now.do \in Accesses
    BY <1>7 DEF select_register, driver, clock, pic, At, Accesses
  <2>2. Now.reg \in Regs
    <3>1. Place
      BY DEF RegisterInv, AccessInv, PortInv
    <3> QED
      BY <2>1, <3>1, AccessTable DEF Doing, Regs, TimeRegs, Accesses
  <2> QED
    BY <1>1, <1>6, <2>1, <2>2, AsideStep
<1>8. CASE rtc_interrupt_handler
  <2>1. /\ UNCHANGED calls
        /\ UNCHANGED <<value, time_data, system_rtc_instance, rate, reg_b, handler>>
        /\ UNCHANGED <<time, uip>> /\ irr' = FALSE /\ index' \in {index, "C"}
    BY <1>8 DEF rtc_interrupt_handler, driver, clock, locals
  <2>2. index' \in Regs
    BY <1>6, <2>1 DEF Regs
  <2> QED
    BY <1>1, <2>1, <2>2, AsideStep
<1>9. CASE periodic_event
  <2>1. /\ UNCHANGED calls
        /\ UNCHANGED <<value, time_data, system_rtc_instance, rate, reg_b, handler>>
        /\ UNCHANGED <<time, uip>> /\ irr' = Latched(reg_b, TRUE) /\ index' = index
    BY <1>9 DEF periodic_event, driver, clock, locals
  <2>2. irr' => 6 \in reg_b
    BY <2>1, Zenon DEF Latched, Line
  <2> QED
    BY <1>1, <1>6, <2>1, <2>2, AsideStep, Zenon
<1>10. CASE update_begins \/ update_time \/ update_ends
  <2>1. /\ UNCHANGED calls
        /\ UNCHANGED <<value, time_data, system_rtc_instance, rate, reg_b, handler>>
        /\ irr' = irr /\ index' = index
    BY <1>10 DEF update_begins, update_time, update_ends, driver, locals, cmos, pic
  <2>2. update_time => time' \in [TimeRegs -> Byte]
    <3>1. \A r \in TimeRegs : {0} \ time[r] \in Byte /\ time[r] \in Byte
      BY <1>6 DEF Byte
    <3> QED
      BY <3>1 DEF update_time
  <2>3. \/ uip' = "pending" /\ uip = "idle" /\ time' = time
        \/ uip' = "done" /\ time' \in [TimeRegs -> Byte]
        \/ uip' = "idle" /\ ~ InAttempt /\ time' = time
    BY <1>10, <2>2 DEF update_begins, update_time, update_ends
  <2> QED
    BY <1>1, <1>6, <2>1, <2>3, AsideStep
<1>11. CASE UNCHANGED vars
  <2>1. /\ UNCHANGED calls
        /\ UNCHANGED <<value, time_data, system_rtc_instance, rate, reg_b, handler>>
        /\ UNCHANGED <<time, uip>> /\ irr' = irr /\ index' = index
    BY <1>11 DEF vars, driver, clock, locals, cmos, pic
  <2> QED
    BY <1>1, <1>6, <2>1, AsideStep
<1> QED
  BY <1>1, <1>2, <1>3, <1>4, <1>5, <1>7, <1>8, <1>9, <1>10, <1>11, ElsewhereSteps DEF Next, Main

LEMMA RegisterInit == Init => RegisterInv
<1> SUFFICES ASSUME Init PROVE RegisterInv
  OBVIOUS
<1>1. AccessInv
  BY PortInit, Zenon DEF Init, AccessInv, SelectInv
<1>2. /\ op = 1 /\ step = 1 /\ value = {} /\ index = "A" /\ rate = {1, 2} /\ reg_b = {1}
      /\ time_data = [r \in TimeRegs |-> {}] /\ time \in [TimeRegs -> {{}, {0}}] /\ uip = "idle"
      /\ irr = FALSE /\ system_rtc_instance = FALSE
  BY DEF Init
<1>3. CmosType
  <2>1. value \in Byte /\ rate \in Byte /\ reg_b \in Byte
    BY <1>2 DEF Byte
  <2>2. time \in [TimeRegs -> Byte] /\ time_data \in [TimeRegs -> Byte]
    BY <1>2 DEF Byte
  <2> QED
    BY <1>2, <2>1, <2>2 DEF CmosType, Regs
<1>4. PublishInv /\ RaiseInv /\ WholeInv
  BY <1>2 DEF PublishInv, RaiseInv, WholeInv
<1> QED
  BY <1>1, <1>3, <1>4 DEF RegisterInv

LEMMA RegisterSafe ==
  ASSUME PublishedLast
  PROVE  Spec => []RegisterInv
BY RegisterInit, RegisterStep, PTL DEF Spec

(* HandledWhenRaised: the line is up only if PIE is set, and PIE is set     *)
(* only between the registration of the handler and its removal, whatever   *)
(* calls are made in whatever order before the driver is published.         *)
THEOREM RaisedHandled ==
  ASSUME PublishedLast
  PROVE  Spec => HandledWhenRaised
<1>1. RegisterInv => (rtc_interrupt_handler => handler)
  BY DEF RegisterInv, RaiseInv, rtc_interrupt_handler
<1> QED
  BY <1>1, RegisterSafe, PTL DEF HandledWhenRaised

(* A read or a write returns from the second test only.                     *)
LEMMA ReturnStep ==
  ASSUME PublishedLast, RegisterInv, [Next]_vars, NEW call \in {"read", "write"}, Returns(call)
  PROVE  time_data' = time_data /\ time' = time /\ time_data = time
<1>1. Running /\ script[op] = call /\ rtc_open /\ op' = op + 1 /\ Place /\ op \in Nat /\ step \in Nat
  BY DEF Returns, RegisterInv, AccessInv, PortInv, Place
<1>2. op' # op
  BY <1>1
<1>3. Main
  BY <1>2, Zenon DEF Next, rtc_interrupt_handler, periodic_event, update_begins, update_time,
              update_ends, vars, calls
<1>4. ~ skip_call /\ ~ init_rtc_fails
  <2>1. ~ skip_call
    BY <1>1 DEF skip_call
  <2>2. ~ init_rtc_fails
    BY <1>1, Where, Zenon DEF init_rtc_fails
  <2> QED
    BY <2>1, <2>2
<1>5. ~ select_register
  BY <1>2 DEF select_register, calls
<1>6. Advance
  BY <1>2, <1>3, <1>4, <1>5
     DEF Main, request_port, claim_port, use_control, use_data, init_rtc_malloc, release_handle,
         free_driver, publish, write_arguments, read_cmos_register, write_cmos_register,
         wait_for_update, retest_update, register_handler, unregister_handler, pic_unmask_irq, calls
<1>7. step = Len(Steps(script[op]))
  BY <1>1, <1>2, <1>6, AdvanceStep
<1>8. /\ call = "read" => step = 5 /\ Now = Retest
      /\ call = "write" => step = 6 /\ Now = Retest
  <2>1. /\ call = "read" => Len(Steps(script[op])) = 5
        /\ call = "write" => Len(Steps(script[op])) = 6
    BY <1>1, LenSteps DEF Calls
  <2> QED
    BY <1>1, <1>7, <2>1, AccessSteps, Zenon DEF Now
<1>9. Now.do = "retest" /\ Now.reg = "A"
  BY <1>8 DEF Retest
<1>10. retest_update
  BY <1>3, <1>4, <1>5, <1>9
     DEF Main, At, request_port, claim_port, use_control, use_data, init_rtc_malloc, release_handle,
         free_driver, publish, write_arguments, read_cmos_register, write_cmos_register,
         wait_for_update, register_handler, unregister_handler, pic_unmask_irq
<1>11. /\ At("retest") /\ ReadData /\ time_data' = time_data /\ 7 \notin Content(index)
  BY <1>2, <1>10 DEF retest_update
<1>12. selected /\ time' = time
  BY <1>11, DataRead
<1>13. index = Now.reg
  BY <1>1, <1>11, <1>12, AccessFacts DEF Accesses
<1>14. uip = "idle"
  BY <1>9, <1>11, <1>13, ContentOf
<1>15. Same("seconds") /\ Same("minutes") /\ Same("hours")
  BY <1>1, <1>8, <1>14 DEF RegisterInv, WholeInv
<1>16. time_data = time
  BY <1>15 DEF Same, RegisterInv, CmosType, TimeRegs
<1> QED
  BY <1>11, <1>12, <1>16

(* TimesWhole: the second test saw no update, so none has changed the time  *)
(* since the first, and what was transferred in between is still the time.  *)
THEOREM TimeSafe ==
  ASSUME PublishedLast
  PROVE  Spec => TimesWhole
<1>1. RegisterInv /\ [Next]_vars =>
        (Returns("read") => time_data' = time) /\ (Returns("write") => time' = time_data)
  BY ReturnStep
<1> QED
  BY <1>1, RegisterSafe, PTL DEF TimesWhole, Spec
=============================================================================
