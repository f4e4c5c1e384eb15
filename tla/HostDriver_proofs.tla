-------------------------- MODULE HostDriver_proofs ---------------------------
(***************************************************************************)
(* Theorems about HostDriver: what the driver's calls rely on between two  *)
(* of their accesses, for every set of programs, registers and results.    *)
(***************************************************************************)
EXTENDS HostDriver, TLAPS

Starting == {"start_low", "start_high", "start_go"}
fp_bank == [zeros EXCEPT ![FP_reg] = FRAME_POINTER]

(* The core sleeps only while the control register says so, and the driver *)
(* remembers why: a sleep is in effect, or a call is about to end it.      *)
SleepInv ==
  /\ outcome = "sleeping" => CORE_sleep
  /\ CORE_sleep => asleep \/ at \in Starting \union {"start_hold", "sleep_poll"}
  /\ asleep => stopped
  /\ at \in Starting \union {"start_hold"} => ~asleep

(* The reset bit is set before the first start, and in one step of it.     *)
ResetInv ==
  /\ at = "start_hold" => CORE_reset
  /\ CORE_reset => at = "start_hold" \/ (asleep /\ outcome = "sleeping")
  /\ CORE_reset => ~started
  /\ at \in {"sleep_set", "sleep_poll"} \union Starting => ~CORE_reset
  /\ started => ~CORE_reg.write

(* Between the reset and the start only r10 is written.                    *)
FreshInv ==
  /\ fresh => CORE_reset \/ at \in Starting \/ (~CORE_sleep /\ regs = fp_bank)
  /\ at \in Starting =>
       /\ fresh /\ CORE_sleep /\ outcome = "sleeping" /\ ~started
       /\ ~ctrl_reg.reset /\ CORE_reg.write /\ CORE_reg.dst = FP_reg
       /\ regs = [zeros EXCEPT ![FP_reg] = CORE_reg.input]
  /\ at \in {"start_high", "start_go"} => CORE_reg.input = FRAME_POINTER
  /\ fresh /\ ~CORE_reset /\ ~CORE_sleep => ~CORE_reg.write

(* What a call has read holds until its next access.                       *)
CallInv ==
  /\ at = "load" => stopped /\ i < Slots
  /\ at = "awake_set" => started /\ ~ctrl_reg.reset /\ ~ctrl_reg.reg_write

ReturnInv ==
  /\ AwaitTells
  /\ at \in Starting \union {"start_hold"} => returned = "nothing"
  /\ told => returned # "nothing"
  /\ ResultWhole
  /\ at = "result_high" /\ returned # "nothing" /\ outcome \in Ended =>
       low = CORE_output % HalfMod

HInv == HostTypeOK /\ SleepInv /\ ResetInv /\ FreshInv /\ CallInv /\ ReturnInv
-----------------------------------------------------------------------------
(* The halves of a word.                                                   *)
LEMMA JoinHalves ==
  ASSUME NEW x \in Int
  PROVE  (x \div HalfMod) * HalfMod + (x % HalfMod) = x
  BY ConstantsOK

(* A value of one half has a high half of zero and is its own low half.    *)
LEMMA LowHalf ==
  ASSUME NEW x \in 0 .. HalfMod - 1
  PROVE  x \div HalfMod = 0 /\ x % HalfMod = x
  BY ConstantsOK

(***************************************************************************)
(* A cycle of the core.                                                    *)
(***************************************************************************)
LEMMA CoreCycle ==
  ASSUME Next, outcome \in Outcome, CORE_output \in Outputs
  PROVE  /\ outcome' \in Outcome /\ CORE_output' \in Outputs
         /\ outcome' = "sleeping" => CORE_sleep'
         /\ CORE_reset => outcome' = waiting /\ regs' = with_input(zeros)
         /\ outcome = "sleeping" /\ CORE_sleep' => outcome' = "sleeping"
         /\ ~CORE_reset /\ outcome = "sleeping" => regs' = with_input(regs)
         /\ ~CORE_reset /\ outcome \in Ended => outcome' = outcome /\ CORE_output' = CORE_output
  BY DEF Next, Reset, Sleep, Stay, Run, Outcome, Ended, waiting

(* A step of the core leaves registers and memory in their types.          *)
LEMMA CoreType ==
  ASSUME Next, HostTypeOK, CORE_sleep' \in BOOLEAN,
         CORE_reg' \in [write : BOOLEAN, dst : Regs, input : {0, FRAME_POINTER}]
  PROVE  regs' \in [Regs -> Data] /\ memory' \in Contents
<1>1. zeros \in [Regs -> Data] /\ regs \in [Regs -> Data] /\ memory \in Contents
  BY ConstantsOK DEF zeros, HostTypeOK
<1>2. \A bank \in [Regs -> Data] : with_input(bank) \in [Regs -> Data]
  BY ConstantsOK DEF with_input
<1> QED
  BY <1>1, <1>2 DEF Next, Reset, Sleep, Stay, Run

(***************************************************************************)
(* The invariant, one action of the driver at a time: what its access does *)
(* to the inputs of the core and to its own state.                         *)
(***************************************************************************)
LEMMA CtrlRegType ==
  ASSUME HostTypeOK
  PROVE  get_ctrl_reg \in CtrlReg
  BY DEF HostTypeOK, get_ctrl_reg, CtrlReg, Outcome

Idle == Read /\ UNCHANGED driverVars

(* Every step of driver and core keeps the types.                          *)
LEMMA HostTypeStep ==
  ASSUME HostTypeOK, HostNext
  PROVE  HostTypeOK'
<1> USE DEF HostTypeOK
<1>1. get_ctrl_reg \in CtrlReg
  BY CtrlRegType
<1>2. outcome' \in Outcome /\ CORE_output' \in Outputs
  BY CoreCycle DEF HostNext
<1>3. fresh' \in BOOLEAN
  BY DEF HostNext
<1> DEFINE InputOK == /\ CORE_reset' \in BOOLEAN /\ CORE_sleep' \in BOOLEAN
                      /\ CORE_reg' \in [write : BOOLEAN, dst : Regs, input : {0, FRAME_POINTER}]
           DriverOK == /\ imem' \in [0 .. Slots - 1 -> Programs] /\ at' \in DriverState
                       /\ ctrl_reg' \in CtrlReg /\ program' \in Programs
                       /\ i' \in 0 .. Slots /\ low' \in 0 .. HalfMod - 1
                       /\ returned' \in {"nothing"} \union Ended /\ result' \in Int
                       /\ told' \in BOOLEAN /\ started' \in BOOLEAN /\ asleep' \in BOOLEAN
<1>4. ASSUME LoadCheck \/ LoadInstruction PROVE InputOK /\ DriverOK
  <2>1. InputOK
    BY <1>4 DEF LoadCheck, LoadInstruction, Read, inputs
  <2>2. CASE LoadCheck
    <3>1. at' \in DriverState /\ started' \in BOOLEAN
      BY <2>2 DEF LoadCheck, Return, DriverState
    <3>2. program' \in Programs /\ i' \in 0 .. Slots
      BY <2>2, ConstantsOK DEF LoadCheck
    <3> QED
      BY <2>1, <2>2, <3>1, <3>2 DEF LoadCheck
  <2>3. CASE LoadInstruction
    <3>1. i' \in 0 .. Slots /\ i \in 0 .. Slots - 1
      BY <2>3, ConstantsOK DEF LoadInstruction
    <3>2. imem' \in [0 .. Slots - 1 -> Programs]
      BY <2>3, <3>1 DEF LoadInstruction
    <3> QED
      BY <2>1, <2>3, <3>1, <3>2 DEF LoadInstruction, DriverState
  <2> QED
    BY <1>4, <2>1, <2>2, <2>3
<1>5. ASSUME StartReset \/ StartHold \/ StartGo \/ SleepSet \/ AwakeSet PROVE InputOK /\ DriverOK
  <2>1. ctrl_reg' \in CtrlReg /\ set_ctrl_reg(ctrl_reg')
    BY <1>5, ConstantsOK DEF StartReset, StartHold, StartGo, SleepSet, AwakeSet, CtrlReg
  <2>2. InputOK
    BY <2>1 DEF set_ctrl_reg, CtrlReg
  <2>3. /\ at' \in DriverState /\ returned' \in {"nothing"} \union Ended
        /\ told' \in BOOLEAN /\ started' \in BOOLEAN /\ asleep' \in BOOLEAN
    BY <1>5 DEF StartReset, StartHold, StartGo, SleepSet, AwakeSet, Return, DriverState
  <2>4. UNCHANGED <<imem, program, i, low, result>>
    BY <1>5 DEF StartReset, StartHold, StartGo, SleepSet, AwakeSet
  <2> QED
    BY <2>1, <2>2, <2>3, <2>4
<1>6. ASSUME StartInputLow \/ StartInputHigh PROVE InputOK /\ DriverOK
  <2> DEFINE joined == (CORE_reg.input \div HalfMod) * HalfMod + FRAME_POINTER
             cut    == CORE_reg.input % HalfMod
  <2>1. CORE_reg.input \in 0 .. HalfMod - 1
    BY ConstantsOK
  <2>2. CORE_reg.input \div HalfMod = 0 /\ cut = CORE_reg.input
    BY <2>1, LowHalf
  <2>3. joined = FRAME_POINTER
    BY <2>2, ConstantsOK
  <2>4. PICK input \in {0, FRAME_POINTER} : CORE_reg' = [CORE_reg EXCEPT !.input = input]
    BY <1>6, <2>2, <2>3 DEF StartInputLow, StartInputHigh, StartInput
  <2>5. InputOK
    BY <1>6, <2>4 DEF StartInputLow, StartInputHigh, StartInput
  <2> QED
    BY <1>6, <2>5 DEF StartInputLow, StartInputHigh, StartInput, DriverState
<1>7. ASSUME SleepCheck \/ SleepPoll \/ AwakeCheck \/ Await \/ AwaitPoll PROVE InputOK /\ DriverOK
  BY <1>7, <1>1 DEF SleepCheck, SleepPoll, AwakeCheck, Await, AwaitPoll, Read, inputs, Return,
                    DriverState, end_cause, Ended
<1>8. ASSUME ResultLow \/ ResultHigh PROVE InputOK /\ DriverOK
  <2>1. InputOK
    BY <1>8 DEF ResultLow, ResultHigh, Read, inputs
  <2>2. CORE_output \in Int /\ low \in Int
    BY ConstantsOK
  <2>3. low' \in 0 .. HalfMod - 1 /\ result' \in Int
    BY <1>8, <2>2, ConstantsOK DEF ResultLow, ResultHigh
  <2> QED
    BY <1>8, <2>1, <2>3 DEF ResultLow, ResultHigh, Return, DriverState
<1>9. ASSUME Idle PROVE InputOK /\ DriverOK
  BY <1>9 DEF Idle, Read, inputs, driverVars
<1>10. InputOK /\ DriverOK
  BY <1>4, <1>5, <1>6, <1>7, <1>8, <1>9 DEF HostNext, Call, Access, Idle
<1>11. regs' \in [Regs -> Data] /\ memory' \in Contents
  BY <1>10, CoreType DEF HostNext
<1> QED
  BY <1>2, <1>3, <1>10, <1>11

(* A cycle of the core under the invariant.  While the control register    *)
(* stays as it is, a stopped core stays as it is, but in the reset of a    *)
(* start.                                                                  *)
LEMMA CycleFacts ==
  ASSUME HInv, HostNext
  PROVE  /\ outcome' \in Outcome /\ (outcome' = "sleeping" => CORE_sleep')
         /\ outcome = "sleeping" /\ CORE_sleep' => outcome' = "sleeping"
         /\ ~CORE_reset /\ outcome \in Ended => outcome' = outcome /\ CORE_output' = CORE_output
         /\ CORE_reset => outcome' = waiting /\ regs' = with_input(zeros)
         /\ ~CORE_reset /\ outcome = "sleeping" => regs' = with_input(regs)
         /\ fresh' => CORE_reset \/ at \in Starting
         /\ CORE_reset \/ at \in Starting => fresh'
<1>1. /\ outcome' \in Outcome /\ (outcome' = "sleeping" => CORE_sleep')
      /\ outcome = "sleeping" /\ CORE_sleep' => outcome' = "sleeping"
      /\ ~CORE_reset /\ outcome \in Ended => outcome' = outcome /\ CORE_output' = CORE_output
      /\ CORE_reset => outcome' = waiting /\ regs' = with_input(zeros)
      /\ ~CORE_reset /\ outcome = "sleeping" => regs' = with_input(regs)
  BY CoreCycle DEF HostNext, HInv, HostTypeOK
<1>2. /\ fresh' => CORE_reset \/ at \in Starting
      /\ CORE_reset \/ at \in Starting => fresh'
  BY DEF HostNext, HInv, FreshInv
<1> QED
  BY <1>1, <1>2

(* A core that has stopped keeps its outcome until it is let go, and the   *)
(* value of a program that has ended.                                      *)
LEMMA StoppedStays ==
  ASSUME HInv, HostNext, stopped, at # "start_hold", CORE_sleep => CORE_sleep'
  PROVE  outcome' = outcome /\ (outcome \in Ended => CORE_output' = CORE_output)
<1>1. outcome = "sleeping" \/ outcome \in Ended
  BY DEF HInv, HostTypeOK, Outcome, Ended, stopped
<1>2. outcome = "sleeping" => CORE_sleep
  BY DEF HInv, SleepInv
<1>3. outcome \in Ended => ~CORE_reset
  BY DEF HInv, ResetInv, Ended
<1> QED
  BY <1>1, <1>2, <1>3, CycleFacts DEF Ended

(* An access that only reads keeps the control register, and what the      *)
(* registers of the core hold while a start is under way.                  *)
LEMMA ReadStep ==
  ASSUME HInv, HostNext, Read,
         (at' = at /\ ctrl_reg' = ctrl_reg) \/ (at \notin Starting /\ at' \notin Starting),
         started' => started
  PROVE  FreshInv'
<1>1. CORE_reset' = CORE_reset /\ CORE_sleep' = CORE_sleep /\ CORE_reg' = CORE_reg
  BY DEF Read, inputs
<1>2. ASSUME at \in Starting
      PROVE  /\ fresh' /\ outcome' = "sleeping"
             /\ regs' = [zeros EXCEPT ![FP_reg] = CORE_reg.input]
  <2>1. /\ CORE_sleep /\ outcome = "sleeping" /\ ~CORE_reset
        /\ CORE_reg.write /\ CORE_reg.dst = FP_reg
        /\ regs = [zeros EXCEPT ![FP_reg] = CORE_reg.input]
    BY <1>2 DEF HInv, FreshInv, ResetInv
  <2>2. fresh' /\ outcome' = "sleeping" /\ regs' = with_input(regs)
    BY <1>1, <1>2, <2>1, CycleFacts
  <2>3. regs' = [regs EXCEPT ![FP_reg] = CORE_reg.input]
    BY <1>1, <2>1, <2>2 DEF with_input
  <2> QED
    BY <2>1, <2>2, <2>3, ConstantsOK DEF zeros
<1>3. at' \in Starting => at \in Starting /\ at' = at /\ ctrl_reg' = ctrl_reg
  OBVIOUS
<1>4. fresh' => CORE_reset' \/ at' \in Starting
  BY <1>1, CycleFacts
<1>5. CORE_reset' \/ at' \in Starting => CORE_reset' \/ CORE_sleep'
  BY <1>1, <1>3 DEF HInv, FreshInv
<1> QED
  <2>1. at' \in {"start_high", "start_go"} => CORE_reg'.input = FRAME_POINTER
    BY <1>1, <1>3 DEF HInv, FreshInv, Starting
  <2>2. at' \in Starting => /\ fresh' /\ CORE_sleep' /\ outcome' = "sleeping" /\ ~started'
                            /\ ~ctrl_reg'.reset /\ CORE_reg'.write /\ CORE_reg'.dst = FP_reg
                            /\ regs' = [zeros EXCEPT ![FP_reg] = CORE_reg'.input]
    BY <1>1, <1>2, <1>3 DEF HInv, FreshInv
  <2> QED
    BY <1>4, <1>5, <2>1, <2>2 DEF FreshInv, Starting, zeros

Others == SleepInv /\ ResetInv /\ FreshInv /\ CallInv /\ ReturnInv

(* What a stopped core and the last await say stays true, unless the call  *)
(* changes what is remembered of it.                                       *)
LEMMA ReturnStays ==
  ASSUME HInv, HostNext, CORE_sleep => CORE_sleep', at # "start_hold",
         asleep => asleep', returned' = returned, low' = low, result' = result, told' => told,
         at' = "result_high" => at = "result_high",
         at' \in Starting \union {"start_hold"} => at \in Starting \union {"start_hold"}
  PROVE  ReturnInv'
<1>1. returned # "nothing" \/ told => stopped
  BY DEF HInv, ReturnInv, AwaitTells, stopped, HostTypeOK, Ended
<1>2. returned # "nothing" \/ told =>
        outcome' = outcome /\ (outcome \in Ended => CORE_output' = CORE_output)
  BY <1>1, StoppedStays
<1> QED
  BY <1>2 DEF HInv, HostTypeOK, ReturnInv, AwaitTells, ResultWhole, Ended

(* Loading changes nothing of what the other calls rely on.                *)
LEMMA LoadStep ==
  ASSUME HInv, HostNext, LoadCheck \/ LoadInstruction
  PROVE  Others'
<1>1. CORE_reset' = CORE_reset /\ CORE_sleep' = CORE_sleep /\ CORE_reg' = CORE_reg /\ Read
  BY DEF LoadCheck, LoadInstruction, Read, inputs
<1>2. /\ at \in {"idle", "load"} /\ at' \in {"idle", "load"} /\ (started' => started)
      /\ UNCHANGED <<ctrl_reg, low, returned, result, told, asleep>>
      /\ at' = "load" => stopped /\ i' < Slots
  <2>1. CASE LoadCheck
    <3>1. has_stopped(get_ctrl_reg) => stopped
      BY DEF get_ctrl_reg, has_stopped, has_ended, stopped
    <3>2. i' = 0 /\ 0 < Slots
      BY <2>1, ConstantsOK DEF LoadCheck
    <3> QED
      BY <2>1, <3>1, <3>2 DEF LoadCheck, Return
  <2>2. CASE LoadInstruction
    <3>1. i \in 0 .. Slots /\ stopped
      BY <2>2 DEF LoadInstruction, HInv, CallInv, HostTypeOK
    <3>2. at' = "load" => i' < Slots
      BY <2>2, <3>1, ConstantsOK DEF LoadInstruction
    <3> QED
      BY <2>2, <3>1, <3>2 DEF LoadInstruction
  <2> QED
    BY <2>1, <2>2
<1>3. stopped => outcome' = outcome
  BY <1>1, <1>2, StoppedStays
<1>4. SleepInv'
  BY <1>1, <1>2, <1>3, CycleFacts DEF HInv, SleepInv, stopped, Starting
<1>5. ResetInv'
  BY <1>1, <1>2, <1>3, CycleFacts DEF HInv, ResetInv, stopped, Starting
<1>6. FreshInv'
  BY <1>1, <1>2, ReadStep DEF Starting
<1>7. CallInv'
  BY <1>2, <1>3 DEF HInv, CallInv, stopped
<1>8. ReturnInv'
  BY <1>1, <1>2, ReturnStays DEF Starting
<1> QED
  BY <1>4, <1>5, <1>6, <1>7, <1>8 DEF Others

(* The access of start that sets the reset.                                *)
LEMMA StartResetStep ==
  ASSUME HInv, HostNext, StartReset
  PROVE  Others'
<1>1. /\ CORE_reset' /\ at = "idle" /\ at' = "start_hold"
      /\ returned' = "nothing" /\ ~told' /\ ~started' /\ ~asleep'
  BY DEF StartReset, set_ctrl_reg
<1>2. outcome' = "sleeping" => CORE_sleep'
  BY CycleFacts
<1> QED
  BY <1>1, <1>2 DEF Others, SleepInv, ResetInv, FreshInv, CallInv, ReturnInv, AwaitTells, ResultWhole,
                    Starting

(* After the reset the registers are zero but for the one on the port.     *)
LEMMA StartHoldStep ==
  ASSUME HInv, HostNext, StartHold
  PROVE  Others'
<1>1. /\ ~CORE_reset' /\ CORE_sleep' /\ CORE_reg'.write /\ CORE_reg'.dst = FP_reg
      /\ CORE_reset /\ at = "start_hold" /\ at' = "start_low"
      /\ UNCHANGED <<returned, told, started, asleep>> /\ ~ctrl_reg'.reset
  BY DEF StartHold, set_ctrl_reg, HInv, HostTypeOK, CtrlReg, ResetInv
<1>2. ~started /\ ~asleep /\ returned = "nothing" /\ ~told
  BY <1>1 DEF HInv, SleepInv, ResetInv, ReturnInv
<1>3. fresh' /\ outcome' = "sleeping" /\ regs' = [zeros EXCEPT ![FP_reg] = CORE_reg'.input]
  BY <1>1, CycleFacts DEF waiting, with_input
<1> QED
  BY <1>1, <1>2, <1>3 DEF Others, SleepInv, ResetInv, FreshInv, CallInv, ReturnInv, AwaitTells,
                          ResultWhole, Starting, stopped, zeros

(* The accesses of start that write the frame pointer, half by half.       *)
LEMMA StartInputStep ==
  ASSUME HInv, HostNext, StartInputLow \/ StartInputHigh
  PROVE  Others'
<1>1. /\ at \in {"start_low", "start_high"} /\ at' \in {"start_high", "start_go"}
      /\ UNCHANGED <<CORE_reset, CORE_sleep, ctrl_reg, returned, told, started, asleep>>
      /\ CORE_reg' = [CORE_reg EXCEPT !.input = CORE_reg'.input]
  BY DEF StartInputLow, StartInputHigh, StartInput, HInv, HostTypeOK
<1>2. /\ fresh /\ CORE_sleep /\ outcome = "sleeping" /\ ~started /\ ~CORE_reset
      /\ ~asleep /\ ~ctrl_reg.reset /\ CORE_reg.write /\ CORE_reg.dst = FP_reg
      /\ regs = [zeros EXCEPT ![FP_reg] = CORE_reg.input]
      /\ returned = "nothing" /\ ~told
  BY <1>1 DEF HInv, SleepInv, FreshInv, ResetInv, ReturnInv, Starting
<1>3. CORE_reg'.input = FRAME_POINTER
  <2>1. CORE_reg.input \in 0 .. HalfMod - 1
    BY ConstantsOK DEF HInv, HostTypeOK
  <2>2. CASE StartInputLow
    <3>1. CORE_reg'.input = (CORE_reg.input \div HalfMod) * HalfMod + FRAME_POINTER
      BY <2>2 DEF StartInputLow, StartInput, HInv, HostTypeOK
    <3>2. CORE_reg.input \div HalfMod = 0
      BY <2>1, LowHalf
    <3> QED
      BY <3>1, <3>2, ConstantsOK
  <2>3. CASE StartInputHigh
    <3>1. CORE_reg'.input = CORE_reg.input % HalfMod
      BY <2>3 DEF StartInputHigh, StartInput, HInv, HostTypeOK
    <3>2. CORE_reg.input = FRAME_POINTER
      BY <2>3 DEF StartInputHigh, StartInput, HInv, FreshInv
    <3> QED
      BY <2>1, <3>1, <3>2, LowHalf
  <2> QED
    BY <2>2, <2>3
<1>4. CORE_reg'.write /\ CORE_reg'.dst = FP_reg
  BY <1>1, <1>2 DEF HInv, HostTypeOK
<1>5. fresh' /\ outcome' = "sleeping" /\ regs' = [zeros EXCEPT ![FP_reg] = CORE_reg'.input]
  <2>1. fresh' /\ outcome' = "sleeping" /\ regs' = with_input(regs)
    BY <1>1, <1>2, CycleFacts DEF Starting
  <2> QED
    BY <1>2, <1>4, <2>1 DEF with_input, zeros
<1> QED
  BY <1>1, <1>2, <1>3, <1>4, <1>5
     DEF Others, SleepInv, ResetInv, FreshInv, CallInv, ReturnInv, AwaitTells, ResultWhole, Starting,
         stopped, zeros

(* The program starts with what was on the port in the registers.          *)
LEMMA StartGoStep ==
  ASSUME HInv, HostNext, StartGo
  PROVE  Others'
<1>1. at = "start_go" /\ at' = "idle" /\ started' /\ UNCHANGED <<returned, told, asleep>>
  BY DEF StartGo, Return
<1>2. /\ CORE_sleep /\ outcome = "sleeping" /\ ~CORE_reset /\ ~asleep /\ ~ctrl_reg.reset
      /\ CORE_reg.input = FRAME_POINTER
      /\ regs = [zeros EXCEPT ![FP_reg] = CORE_reg.input]
      /\ returned = "nothing" /\ ~told
  BY <1>1 DEF HInv, SleepInv, FreshInv, ResetInv, ReturnInv, Starting
<1>3. ~CORE_reset' /\ ~CORE_sleep' /\ ~CORE_reg'.write
  BY <1>2 DEF StartGo, set_ctrl_reg, HInv, HostTypeOK, CtrlReg
<1>4. outcome' # "sleeping" /\ regs' = fp_bank
  <2>1. regs' = with_input(regs) /\ (outcome' = "sleeping" => CORE_sleep')
    BY <1>2, CycleFacts
  <2> QED
    BY <1>2, <1>3, <2>1 DEF with_input, fp_bank
<1> QED
  BY <1>1, <1>2, <1>3, <1>4
     DEF Others, SleepInv, ResetInv, FreshInv, CallInv, ReturnInv, AwaitTells, ResultWhole, Starting,
         fp_bank, zeros

(* What the driver makes of the control register is what the core says of  *)
(* itself.                                                                 *)
LEMMA WhatIsRead ==
  ASSUME outcome \in Outcome
  PROVE  /\ has_stopped(get_ctrl_reg) <=> stopped
         /\ end_cause(get_ctrl_reg) = IF outcome = "finish" THEN "finish" ELSE "exception"
  BY DEF has_stopped, has_ended, end_cause, get_ctrl_reg, Outcome, stopped

(* A call that reads the control register finds the core stopped or not,   *)
(* and a stopped core is still stopped after the read.                     *)
LEMMA SleepReadStep ==
  ASSUME HInv, HostNext, SleepCheck \/ SleepPoll
  PROVE  Others'
<1>1. CORE_reset' = CORE_reset /\ CORE_sleep' = CORE_sleep /\ CORE_reg' = CORE_reg /\ Read
  BY DEF SleepCheck, SleepPoll, Read, inputs
<1>2. /\ at \in {"idle", "sleep_poll"} /\ at' \in {"idle", "sleep_set", "sleep_poll"}
      /\ UNCHANGED <<low, returned, result, told, started>>
      /\ stopped => at' = "idle" /\ asleep'
      /\ ~stopped => asleep' = asleep /\ ((at = "idle" /\ at' = "sleep_set") \/ at' = at)
  BY WhatIsRead DEF SleepCheck, SleepPoll, Return, HInv, HostTypeOK
<1>3. stopped => outcome' = outcome
  BY <1>1, <1>2, StoppedStays
<1>4. /\ CORE_reset => stopped /\ asleep /\ outcome = "sleeping"
      /\ asleep => stopped
  BY <1>2 DEF HInv, SleepInv, ResetInv, stopped
<1>5. SleepInv'
  BY <1>1, <1>2, <1>3, <1>4, CycleFacts DEF HInv, SleepInv, stopped, Starting
<1>6. ResetInv'
  BY <1>1, <1>2, <1>3, <1>4 DEF HInv, ResetInv, stopped, Starting
<1>7. FreshInv'
  BY <1>1, <1>2, ReadStep DEF Starting
<1>8. CallInv'
  BY <1>2, <1>3 DEF CallInv
<1>9. ReturnInv'
  BY <1>1, <1>2, <1>4, ReturnStays DEF Starting
<1> QED
  BY <1>5, <1>6, <1>7, <1>8, <1>9 DEF Others

(* The access of sleep that sets the bit in what it has read.              *)
LEMMA SleepSetStep ==
  ASSUME HInv, HostNext, SleepSet
  PROVE  Others'
<1>1. /\ ~CORE_reset' /\ CORE_sleep' /\ ~CORE_reg'.write
      /\ at = "sleep_set" /\ at' = "sleep_poll"
      /\ UNCHANGED <<low, returned, result, told, started, asleep>>
  BY DEF SleepSet, set_ctrl_reg, HInv, HostTypeOK, CtrlReg
<1>2. ~CORE_reset /\ ~fresh'
  BY <1>1, CycleFacts DEF HInv, ResetInv, Starting
<1>3. stopped => outcome' = outcome
  BY <1>1, StoppedStays
<1>4. SleepInv' /\ ResetInv' /\ FreshInv' /\ CallInv'
  BY <1>1, <1>2, <1>3 DEF HInv, SleepInv, ResetInv, FreshInv, CallInv, Starting, stopped
<1>5. ReturnInv'
  BY <1>1, ReturnStays DEF Starting
<1> QED
  BY <1>4, <1>5 DEF Others

(* The access of awake that looks whether the program sleeps.              *)
LEMMA AwakeCheckStep ==
  ASSUME HInv, HostNext, AwakeCheck
  PROVE  Others'
<1>1. CORE_reset' = CORE_reset /\ CORE_sleep' = CORE_sleep /\ CORE_reg' = CORE_reg /\ Read
  BY DEF AwakeCheck, Read, inputs
<1>2. /\ at = "idle" /\ at' \in {"idle", "awake_set"} /\ started
      /\ ctrl_reg'.reset = CORE_reset /\ ctrl_reg'.reg_write = CORE_reg.write
      /\ UNCHANGED <<low, returned, result, told, started, asleep>>
  BY DEF AwakeCheck, get_ctrl_reg
<1>3. stopped => outcome' = outcome
  BY <1>1, <1>2, StoppedStays
<1>4. SleepInv' /\ ResetInv' /\ CallInv'
  BY <1>1, <1>2, <1>3, CycleFacts DEF HInv, SleepInv, ResetInv, CallInv, stopped, Starting
<1>5. FreshInv'
  BY <1>1, <1>2, ReadStep DEF Starting
<1>6. ReturnInv'
  BY <1>1, <1>2, ReturnStays DEF Starting
<1> QED
  BY <1>4, <1>5, <1>6 DEF Others

(* The access of awake that clears the bit.                                *)
LEMMA AwakeSetStep ==
  ASSUME HInv, HostNext, AwakeSet
  PROVE  Others'
<1>1. /\ at = "awake_set" /\ at' = "idle" /\ ~asleep' /\ returned' = "nothing" /\ ~told'
      /\ started' = started
  BY DEF AwakeSet, Return
<1>2. started /\ ~ctrl_reg.reset /\ ~ctrl_reg.reg_write /\ ~CORE_reset
  BY <1>1 DEF HInv, ResetInv, CallInv
<1>3. ~CORE_reset' /\ ~CORE_sleep' /\ ~CORE_reg'.write
  BY <1>2 DEF AwakeSet, set_ctrl_reg, HInv, HostTypeOK, CtrlReg
<1>4. outcome' # "sleeping" /\ ~fresh'
  BY <1>1, <1>2, <1>3, CycleFacts DEF Starting
<1> QED
  BY <1>1, <1>2, <1>3, <1>4
     DEF Others, SleepInv, ResetInv, FreshInv, CallInv, ReturnInv, AwaitTells, ResultWhole, Starting

(* Await, which reads until the program has stopped.                       *)
LEMMA AwaitStep ==
  ASSUME HInv, HostNext, Await \/ AwaitPoll
  PROVE  Others'
<1>1. CORE_reset' = CORE_reset /\ CORE_sleep' = CORE_sleep /\ CORE_reg' = CORE_reg /\ Read
  BY DEF Await, AwaitPoll, Read, inputs
<1>2. /\ at \in {"idle", "await"} /\ at' \in {"idle", "await"}
      /\ UNCHANGED <<low, result, told, started, asleep>>
  BY DEF Await, AwaitPoll, Return
<1>3. stopped => outcome' = outcome /\ (outcome \in Ended => CORE_output' = CORE_output)
  BY <1>1, <1>2, StoppedStays
<1>4. SleepInv' /\ ResetInv' /\ CallInv'
  BY <1>1, <1>2, <1>3, CycleFacts DEF HInv, SleepInv, ResetInv, CallInv, stopped, Starting
<1>5. FreshInv'
  BY <1>1, <1>2, ReadStep DEF Starting
<1>6. ReturnInv'
  <2>1. CASE returned' = returned
    BY <1>1, <1>2, <2>1, ReturnStays DEF Starting
  <2>2. CASE returned' # returned
    <3>1. /\ stopped
          /\ returned' = IF outcome = "finish" THEN "finish" ELSE "exception"
      BY <2>2, WhatIsRead DEF Await, AwaitPoll, await_over, HInv, HostTypeOK
    <3>2. outcome = "sleeping" => asleep
      BY <1>2 DEF HInv, SleepInv, Starting
    <3>3. outcome \in {"sleeping", "finish", "exception"}
      BY <3>1 DEF HInv, HostTypeOK, Outcome, stopped
    <3> QED
      BY <1>2, <1>3, <3>1, <3>2, <3>3
         DEF HInv, ReturnInv, AwaitTells, ResultWhole, Starting, Ended, stopped
  <2> QED
    BY <2>1, <2>2
<1> QED
  BY <1>4, <1>5, <1>6 DEF Others

(* The two reads of the result.                                            *)
LEMMA ResultStep ==
  ASSUME HInv, HostNext, ResultLow \/ ResultHigh
  PROVE  Others'
<1>1. CORE_reset' = CORE_reset /\ CORE_sleep' = CORE_sleep /\ CORE_reg' = CORE_reg /\ Read
  BY DEF ResultLow, ResultHigh, Read, inputs
<1>2. /\ at \in {"idle", "result_high"} /\ at' \in {"idle", "result_high"}
      /\ UNCHANGED <<returned, started, asleep>>
  BY DEF ResultLow, ResultHigh, Return
<1>3. stopped => outcome' = outcome /\ (outcome \in Ended => CORE_output' = CORE_output)
  BY <1>1, <1>2, StoppedStays
<1>4. SleepInv' /\ ResetInv' /\ CallInv'
  BY <1>1, <1>2, <1>3, CycleFacts DEF HInv, SleepInv, ResetInv, CallInv, stopped, Starting
<1>5. FreshInv'
  BY <1>1, <1>2, ReadStep DEF Starting
<1>6. AwaitTells'
  BY <1>2, <1>3 DEF HInv, ReturnInv, AwaitTells, stopped
<1>7. returned # "nothing" => stopped
  BY DEF HInv, ReturnInv, AwaitTells, stopped, HostTypeOK, Ended
<1>8. CASE ResultLow
  <2>1. at' = "result_high" /\ ~told' /\ low' = CORE_output % HalfMod
    BY <1>8 DEF ResultLow
  <2>2. returned' # "nothing" /\ outcome' \in Ended => low' = CORE_output' % HalfMod
    BY <1>2, <1>3, <1>7, <2>1
  <2> QED
    BY <1>2, <1>4, <1>5, <1>6, <2>1, <2>2 DEF Others, ReturnInv, ResultWhole, Starting
<1>9. CASE ResultHigh
  <2>1. /\ at = "result_high" /\ at' = "idle" /\ told' = (returned # "nothing")
        /\ result' = (CORE_output \div HalfMod) * HalfMod + low
    BY <1>9 DEF ResultHigh, Return
  <2>2. ASSUME told', outcome' \in Ended PROVE result' = CORE_output'
    <3>1. outcome \in Ended /\ CORE_output' = CORE_output
      BY <1>3, <1>7, <2>1, <2>2
    <3>2. low = CORE_output % HalfMod
      BY <2>1, <2>2, <3>1 DEF HInv, ReturnInv
    <3>3. CORE_output \in Int
      BY ConstantsOK DEF HInv, HostTypeOK
    <3> QED
      BY <2>1, <3>1, <3>2, <3>3, JoinHalves
  <2> QED
    BY <1>2, <1>4, <1>5, <1>6, <2>1, <2>2 DEF Others, ReturnInv, ResultWhole, Starting
<1> QED
  BY <1>8, <1>9

(* A cycle of the core in which the driver does not go on.                 *)
LEMMA IdleStep ==
  ASSUME HInv, HostNext, Read, UNCHANGED driverVars
  PROVE  Others'
<1>1. CORE_reset' = CORE_reset /\ CORE_sleep' = CORE_sleep /\ CORE_reg' = CORE_reg
      /\ UNCHANGED <<at, ctrl_reg, i, low, returned, result, told, started, asleep>>
  BY DEF Read, inputs, driverVars
<1>2. FreshInv'
  BY <1>1, ReadStep
<1>3. stopped /\ at # "start_hold" =>
        outcome' = outcome /\ (outcome \in Ended => CORE_output' = CORE_output)
  BY <1>1, StoppedStays
<1>4. at = "start_hold" => ~asleep /\ returned = "nothing" /\ ~told
  BY DEF HInv, SleepInv, ReturnInv
<1>5. SleepInv' /\ ResetInv'
  BY <1>1, <1>3, <1>4, CycleFacts DEF HInv, SleepInv, ResetInv, stopped
<1>6. CallInv'
  BY <1>1, <1>3 DEF HInv, CallInv, stopped
<1>7. ReturnInv'
  <2>1. CASE at = "start_hold"
    BY <1>1, <1>4, <2>1 DEF HInv, ReturnInv, AwaitTells, ResultWhole
  <2>2. CASE at # "start_hold"
    BY <1>1, <2>2, ReturnStays
  <2> QED
    BY <2>1, <2>2
<1> QED
  BY <1>2, <1>5, <1>6, <1>7 DEF Others

(* The library starts with a core that is switched on.                     *)
LEMMA HInvInit == HostInit => HInv
<1> SUFFICES ASSUME HostInit PROVE HInv
  OBVIOUS
<1>1. HostTypeOK
  <2>1. CORE_reg \in [write : BOOLEAN, dst : Regs, input : {0, FRAME_POINTER}]
    BY ConstantsOK DEF HostInit
  <2>2. outcome \in Outcome /\ regs \in [Regs -> Data] /\ CORE_output \in Outputs
        /\ memory \in Contents
    BY ConstantsOK DEF HostInit, Init, Outcome, zeros
  <2>3. CORE_reset \in BOOLEAN /\ CORE_sleep \in BOOLEAN /\ started \in BOOLEAN
        /\ asleep \in BOOLEAN /\ fresh \in BOOLEAN /\ told \in BOOLEAN
    BY Zenon DEF HostInit
  <2>7. at \in DriverState /\ returned = "nothing" /\ result \in Int
    BY DEF HostInit, DriverState
  <2>4. imem \in [0 .. Slots - 1 -> Programs] /\ program \in Programs
    BY DEF HostInit
  <2>5. i \in 0 .. Slots /\ low \in 0 .. HalfMod - 1
    BY ConstantsOK DEF HostInit
  <2>6. ctrl_reg \in CtrlReg
    <3>1. ctrl_reg = get_ctrl_reg
      BY DEF HostInit
    <3> QED
      BY <2>1, <2>3, <3>1 DEF CtrlReg, get_ctrl_reg
  <2> QED
    BY <2>1, <2>2, <2>3, <2>4, <2>5, <2>6, <2>7 DEF HostTypeOK
<1>2. SleepInv /\ ResetInv /\ FreshInv /\ CallInv /\ ReturnInv
  BY DEF HostInit, Init, SleepInv, ResetInv, FreshInv, CallInv, ReturnInv, AwaitTells, ResultWhole,
         stopped, Starting
<1> QED
  BY <1>1, <1>2 DEF HInv

(* What the calls rely on holds after every access and every cycle.        *)
LEMMA HInvStep == HInv /\ [HostNext]_vars => HInv'
<1> SUFFICES ASSUME HInv, [HostNext]_vars PROVE HInv'
  OBVIOUS
<1>1. CASE HostNext
  <2>1. HostTypeOK'
    BY <1>1, HostTypeStep DEF HInv
  <2>2. Others'
    BY <1>1, LoadStep, StartResetStep, StartHoldStep, StartInputStep, StartGoStep, SleepReadStep,
       SleepSetStep, AwakeCheckStep, AwakeSetStep, AwaitStep, ResultStep, IdleStep
       DEF HostNext, Call, Access
  <2> QED
    BY <2>1, <2>2 DEF HInv, Others
<1>2. CASE UNCHANGED vars
  BY <1>2 DEF vars, inputs, coreVars, driverVars, HInv, HostTypeOK, SleepInv, ResetInv, FreshInv,
              CallInv, ReturnInv, AwaitTells, ResultWhole, stopped, Starting, Ended, zeros, fp_bank
<1> QED
  BY <1>1, <1>2

(* The invariant holds in every state the driver can reach.                *)
THEOREM HInvHolds == HostSpec => []HInv
  BY HInvInit, HInvStep, PTL DEF HostSpec

(* Every access leaves the control register, the input register and what   *)
(* the driver remembers well formed.                                       *)
THEOREM HostTypeCorrect == HostSpec => []HostTypeOK
  BY HInvHolds, PTL DEF HInv

(* Every program starts with the frame pointer in r10 and zero in the      *)
(* other registers, whatever bits the first write of the control register  *)
(* carried, whatever the core was doing, and however late the accesses of  *)
(* bpf_start_program are.                                                  *)
THEOREM StartsWithFramePointer == HostSpec => []StartsFresh
<1>1. HInv => StartsFresh
  BY DEF HInv, FreshInv, StartsFresh, fp_bank
<1> QED
  BY <1>1, HInvHolds, PTL

(* A program that bpf_sleep_program has stopped stays stopped until it is  *)
(* awoken or started, and a started one is not held back.                  *)
THEOREM ControlRegisterAgrees == HostSpec => []ControlAgrees
<1>1. HInv => ControlAgrees
  BY DEF HInv, SleepInv, ResetInv, ControlAgrees, Starting
<1> QED
  BY <1>1, HInvHolds, PTL

(* What bpf_await_program has said of the end of a program is so.          *)
THEOREM EndIsReported == HostSpec => []AwaitTells
<1>1. HInv => AwaitTells
  BY DEF HInv, ReturnInv
<1> QED
  BY <1>1, HInvHolds, PTL

(* The result that bpf_return reads in two accesses is the one the program *)
(* left, whatever happens between them.                                    *)
THEOREM ResultIsWhole == HostSpec => []ResultWhole
<1>1. HInv => ResultWhole
  BY DEF HInv, ReturnInv
<1> QED
  BY <1>1, HInvHolds, PTL

(* No instruction is written while the core runs.                          *)
THEOREM LoadsStoppedCore == HostSpec => LoadedStopped
<1>1. HInv /\ [HostNext]_vars => [imem' # imem => stopped /\ stopped']_vars
  <2> SUFFICES ASSUME HInv, HostNext, imem' # imem
               PROVE  stopped /\ stopped'
    OBVIOUS
  <2>1. LoadInstruction
    BY DEF HostNext, Call, Access, LoadCheck, StartReset, StartHold, StartInputLow, StartInputHigh,
           StartInput, StartGo, SleepCheck, SleepSet, SleepPoll, AwakeCheck, AwakeSet, Await, AwaitPoll,
           ResultLow, ResultHigh, driverVars
  <2>2. at = "load" /\ stopped /\ CORE_sleep' = CORE_sleep
    BY <2>1 DEF LoadInstruction, Read, inputs, HInv, CallInv
  <2>3. outcome' = outcome
    BY <2>2, StoppedStays
  <2> QED
    BY <2>2, <2>3 DEF stopped
<1> QED
  BY <1>1, HInvHolds, PTL DEF HostSpec, LoadedStopped
=============================================================================
