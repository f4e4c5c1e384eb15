----------------------------- MODULE HostDriver -------------------------------
(***************************************************************************)
(* The driver library (ebpf_lib.h): loading, starting, stopping, resuming  *)
(* and awaiting a program over the control register.  A call is a sequence *)
(* of bus accesses, and the core goes on between any two of them: one step *)
(* is one clock cycle, in which the driver makes one access or none.  Of   *)
(* the two halves a 64-bit access has on the bus, the upper one of the     *)
(* control register holds nothing; an instruction is written in one step.  *)
(***************************************************************************)
EXTENDS Integers, CoreControl

CONSTANTS
  Programs,       \* what may be loaded; instructions are told apart by their program
  Slots,          \* the addresses a program takes, 0 .. Slots - 1
  HalfMod,        \* values of a 32-bit half
  FRAME_POINTER, FP_reg     \* BPF_FRAME_POINTER and r10

ASSUME ConstantsOK ==
  /\ Slots \in Nat \ {0} /\ HalfMod \in Nat \ {0}
  /\ FRAME_POINTER \in 0 .. HalfMod - 1     \* 0x89F8: its upper half is zero
  /\ {0, FP_reg} \subseteq Regs /\ {0, FRAME_POINTER} \subseteq Data
  /\ Outputs \subseteq Int

VARIABLES
  imem,           \* [address -> program its instruction is of]
  at,             \* the access the driver makes next; "idle" between calls
  ctrl_reg,       \* the local copy of the control register
  program, i,     \* what bpf_load_program loads, and its loop counter
  low,            \* the half of the result that has been read
  returned,       \* what await has returned of the program, or "nothing"
  result,         \* what get_program_result has returned
  told,           \* history: whether that was after await had returned
  started, asleep,\* history: whether awake is allowed, whether sleep is in effect
  fresh           \* history: no instruction has run since the last reset

driverVars == <<imem, at, ctrl_reg, program, i, low, returned, result, told,
                started, asleep>>
vars == <<inputs, coreVars, driverVars, fresh>>
-----------------------------------------------------------------------------
(* The control register and its copy in the driver.                        *)
CtrlReg ==
  [reg_dst : Regs, reg_write : BOOLEAN, sleep : BOOLEAN, sleeping : BOOLEAN,
   exception : BOOLEAN, finish : BOOLEAN, reset : BOOLEAN]

get_ctrl_reg ==
  [reg_dst |-> CORE_reg.dst, reg_write |-> CORE_reg.write, sleep |-> CORE_sleep,
   sleeping |-> outcome = "sleeping", exception |-> outcome = "exception",
   finish |-> outcome = "finish", reset |-> CORE_reset]

set_ctrl_reg(c) ==
  /\ CORE_reset' = c.reset /\ CORE_sleep' = c.sleep
  /\ CORE_reg' = [CORE_reg EXCEPT !.write = c.reg_write, !.dst = c.reg_dst]

has_ended(c) == c.finish \/ c.exception
has_stopped(c) == has_ended(c) \/ c.sleeping

Read == UNCHANGED inputs
Return == at' = "idle"
-----------------------------------------------------------------------------
(* bpf_load_program                                                        *)
(* Fault: the program is loaded whatever the core does.                    *)
LoadCheck_unchecked ==
  /\ at = "idle" /\ Read
  /\ program' \in Programs /\ i' = 0
  /\ at' = "load" /\ started' = FALSE
  /\ UNCHANGED <<imem, ctrl_reg, low, returned, result, told, asleep>>

LoadCheck ==
  /\ at = "idle" /\ Read
  /\ program' \in Programs /\ i' = 0
  /\ IF has_stopped(get_ctrl_reg) THEN at' = "load" /\ started' = FALSE
                                  ELSE Return /\ UNCHANGED started
  /\ UNCHANGED <<imem, ctrl_reg, low, returned, result, told, asleep>>

(* Fault: one instruction more than there are.                             *)
LoadInstruction_past ==
  /\ at = "load" /\ i <= Slots /\ Read
  /\ imem' = [imem EXCEPT ![i] = program]
  /\ i' = i + 1
  /\ at' = IF i' > Slots THEN "idle" ELSE "load"
  /\ UNCHANGED <<ctrl_reg, program, low, returned, result, told, started, asleep>>

LoadInstruction ==
  /\ at = "load" /\ i < Slots /\ Read
  /\ imem' = [imem EXCEPT ![i] = program]
  /\ i' = i + 1
  /\ at' = IF i' = Slots THEN "idle" ELSE "load"
  /\ UNCHANGED <<ctrl_reg, program, low, returned, result, told, started, asleep>>
-----------------------------------------------------------------------------
(* bpf_start_program.  The first copy of the register that is written has  *)
(* one field that is set; the others are what memory held.                 *)
StartReset ==
  /\ at = "idle"
  /\ ctrl_reg' \in {c \in CtrlReg : c.reset}
  /\ set_ctrl_reg(ctrl_reg')
  /\ at' = "start_hold" /\ returned' = "nothing" /\ told' = FALSE
  /\ started' = FALSE /\ asleep' = FALSE
  /\ UNCHANGED <<imem, program, i, low, result>>

(* Fault: the core is awake as soon as it is out of reset.                 *)
StartHold_awake ==
  /\ at = "start_hold"
  /\ ctrl_reg' = [ctrl_reg EXCEPT !.reset = FALSE, !.reg_write = TRUE, !.reg_dst = FP_reg]
  /\ set_ctrl_reg(ctrl_reg')
  /\ at' = "start_low"
  /\ UNCHANGED <<imem, program, i, low, returned, result, told, started, asleep>>

StartHold ==
  /\ at = "start_hold"
  /\ ctrl_reg' = [ctrl_reg EXCEPT !.reset = FALSE, !.sleep = TRUE, !.reg_write = TRUE,
                                  !.reg_dst = FP_reg]
  /\ set_ctrl_reg(ctrl_reg')
  /\ at' = "start_low"
  /\ UNCHANGED <<imem, program, i, low, returned, result, told, started, asleep>>

StartInput(half, input, next) ==
  /\ at = half /\ at' = next
  /\ CORE_reg' = [CORE_reg EXCEPT !.input = input]
  /\ UNCHANGED <<CORE_reset, CORE_sleep, imem, ctrl_reg, program, i, low, returned, result, told,
                 started, asleep>>
StartInputLow ==
  StartInput("start_low", (CORE_reg.input \div HalfMod) * HalfMod + FRAME_POINTER, "start_high")
StartInputHigh == StartInput("start_high", CORE_reg.input % HalfMod, "start_go")

StartGo ==
  /\ at = "start_go"
  /\ ctrl_reg' = [ctrl_reg EXCEPT !.sleep = FALSE, !.reg_write = FALSE]
  /\ set_ctrl_reg(ctrl_reg')
  /\ Return /\ started' = TRUE
  /\ UNCHANGED <<imem, program, i, low, returned, result, told, asleep>>
-----------------------------------------------------------------------------
(* bpf_sleep_program                                                       *)
SleepCheck ==
  /\ at = "idle" /\ Read
  /\ ctrl_reg' = get_ctrl_reg
  /\ IF has_stopped(ctrl_reg') THEN Return /\ asleep' = TRUE
                               ELSE at' = "sleep_set" /\ UNCHANGED asleep
  /\ UNCHANGED <<imem, program, i, low, returned, result, told, started>>

(* Fault: the copy is written as it was read.                              *)
SleepSet_unset ==
  /\ at = "sleep_set"
  /\ set_ctrl_reg(ctrl_reg)
  /\ at' = "sleep_poll"
  /\ UNCHANGED <<imem, ctrl_reg, program, i, low, returned, result, told, started, asleep>>

SleepSet ==
  /\ at = "sleep_set"
  /\ ctrl_reg' = [ctrl_reg EXCEPT !.reset = FALSE, !.sleep = TRUE, !.reg_write = FALSE]
  /\ set_ctrl_reg(ctrl_reg')
  /\ at' = "sleep_poll"
  /\ UNCHANGED <<imem, program, i, low, returned, result, told, started, asleep>>

(* Fault: one look is enough.                                              *)
SleepPoll_once ==
  /\ at = "sleep_poll" /\ Read
  /\ ctrl_reg' = get_ctrl_reg
  /\ Return /\ asleep' = TRUE
  /\ UNCHANGED <<imem, program, i, low, returned, result, told, started>>

SleepPoll ==
  /\ at = "sleep_poll" /\ Read
  /\ ctrl_reg' = get_ctrl_reg
  /\ IF has_stopped(ctrl_reg') THEN Return /\ asleep' = TRUE
                               ELSE UNCHANGED <<at, asleep>>
  /\ UNCHANGED <<imem, program, i, low, returned, result, told, started>>
-----------------------------------------------------------------------------
(* bpf_awake_program.  It does not ask whether the core sleeps.  The host  *)
(* awakes programs that it has started and not overwritten.                *)
AwakeCheck ==
  /\ at = "idle" /\ started /\ Read
  /\ ctrl_reg' = get_ctrl_reg
  /\ at' = IF has_ended(ctrl_reg') THEN "idle" ELSE "awake_set"
  /\ UNCHANGED <<imem, program, i, low, returned, result, told, started, asleep>>

AwakeSet ==
  /\ at = "awake_set"
  /\ ctrl_reg' = [ctrl_reg EXCEPT !.sleep = FALSE]
  /\ set_ctrl_reg(ctrl_reg')
  /\ Return /\ asleep' = FALSE /\ returned' = "nothing" /\ told' = FALSE
  /\ UNCHANGED <<imem, program, i, low, result, started>>
-----------------------------------------------------------------------------
(* bpf_await_program                                                       *)
Await ==
  /\ at = "idle" /\ at' = "await" /\ Read
  /\ UNCHANGED <<imem, ctrl_reg, program, i, low, returned, result, told, started, asleep>>

(* Faults: what is not an exception is taken for the end; an exception is  *)
(* not waited for; nothing is waited for.                                  *)
await_over_at_once(c) == TRUE
end_cause_no_exception(c) == IF c.exception THEN "exception" ELSE "finish"
await_over_no_exception(c) == c.finish \/ c.sleeping

end_cause(c) == IF c.finish THEN "finish" ELSE "exception"
await_over(c) == has_stopped(c)

AwaitPoll ==
  /\ at = "await" /\ Read
  /\ ctrl_reg' = get_ctrl_reg
  /\ IF await_over(ctrl_reg') THEN Return /\ returned' = end_cause(ctrl_reg')
                              ELSE UNCHANGED <<at, returned>>
  /\ UNCHANGED <<imem, program, i, low, result, told, started, asleep>>
-----------------------------------------------------------------------------
(* bpf_core_get_program_result                                             *)
ResultLow ==
  /\ at = "idle" /\ at' = "result_high" /\ Read
  /\ low' = CORE_output % HalfMod /\ told' = FALSE
  /\ UNCHANGED <<imem, ctrl_reg, program, i, returned, result, started, asleep>>

ResultHigh ==
  /\ at = "result_high" /\ Return /\ Read
  /\ result' = (CORE_output \div HalfMod) * HalfMod + low
  /\ told' = (returned # "nothing")
  /\ UNCHANGED <<imem, ctrl_reg, program, i, low, returned, started, asleep>>
-----------------------------------------------------------------------------
Call == LoadCheck \/ StartReset \/ SleepCheck \/ AwakeCheck \/ Await \/ ResultLow

Access ==
  \/ LoadInstruction
  \/ StartHold \/ StartInputLow \/ StartInputHigh \/ StartGo
  \/ SleepSet \/ SleepPoll \/ AwakeSet \/ AwaitPoll \/ ResultHigh

(* After power-up the core is held in reset, and sleeps.                   *)
HostInit ==
  /\ CORE_reset = TRUE /\ CORE_sleep = TRUE
  /\ CORE_reg = [write |-> FALSE, dst |-> 0, input |-> 0]
  /\ Init
  /\ \E p \in Programs : imem = [a \in 0 .. Slots - 1 |-> p] /\ program = p
  /\ at = "idle" /\ ctrl_reg = get_ctrl_reg /\ i = 0 /\ low = 0
  /\ returned = "nothing" /\ result = 0 /\ told = FALSE /\ started = FALSE /\ asleep = TRUE
  /\ fresh = TRUE

(* The clock: the driver makes an access or none, and the core a cycle.    *)
HostNext ==
  /\ Call \/ Access \/ (Read /\ UNCHANGED driverVars)
  /\ Next
  /\ fresh' = (CORE_reset \/ (fresh /\ CORE_sleep))

Accesses == Access /\ HostNext
StopsAsleep == CORE_sleep /\ outcome = "none" /\ HostNext /\ outcome' # "none"

(* The bus takes every access, and the core stops when it is told to.      *)
HostSpec == HostInit /\ [][HostNext]_vars /\ WF_vars(Accesses) /\ WF_vars(StopsAsleep)
-----------------------------------------------------------------------------
(***************************************************************************)
(* Properties.                                                             *)
(***************************************************************************)
DriverState ==
  {"idle", "load", "start_hold", "start_low", "start_high", "start_go", "sleep_set",
   "sleep_poll", "awake_set", "await", "result_high"}

HostTypeOK ==
  /\ CORE_reset \in BOOLEAN /\ CORE_sleep \in BOOLEAN
  /\ CORE_reg \in [write : BOOLEAN, dst : Regs, input : {0, FRAME_POINTER}]
  /\ outcome \in Outcome /\ regs \in [Regs -> Data] /\ CORE_output \in Outputs
  /\ memory \in Contents
  /\ imem \in [0 .. Slots - 1 -> Programs] /\ at \in DriverState /\ ctrl_reg \in CtrlReg
  /\ program \in Programs /\ i \in 0 .. Slots /\ low \in 0 .. HalfMod - 1
  /\ returned \in {"nothing"} \union Ended /\ result \in Int /\ told \in BOOLEAN
  /\ started \in BOOLEAN /\ asleep \in BOOLEAN /\ fresh \in BOOLEAN

(* No instruction is written under a program that runs: between the check  *)
(* of bpf_load_program and its last access the core stays as it was.       *)
LoadedStopped == [][imem' # imem => stopped /\ stopped']_vars

(* The first cycle a program runs after a reset finds the frame pointer in *)
(* r10 and zero in the other registers, whatever bits the first write to   *)
(* the control register carried, and the host off the register's port.     *)
StartsFresh ==
  fresh /\ ~CORE_reset /\ ~CORE_sleep =>
    regs = [zeros EXCEPT ![FP_reg] = FRAME_POINTER] /\ ~CORE_reg.write

(* When bpf_sleep_program has returned, the core is stopped and stays so   *)
(* until the host awakes or starts a program; and while no sleep is in     *)
(* effect, a started program is not held back by a bit of the control      *)
(* register that was left over.                                            *)
ControlAgrees ==
  at = "idle" =>
    /\ asleep => stopped
    /\ started /\ ~asleep => ~CORE_sleep /\ ~CORE_reset /\ ~CORE_reg.write

(* bpf_await_program tells how the program has ended, and it stays ended.  *)
(* Of a program that has been put to sleep it says exception.              *)
AwaitTells ==
  /\ returned = "finish" => outcome = "finish"
  /\ returned = "exception" => outcome = "exception" \/ (asleep /\ outcome = "sleeping")

(* The two halves of the result are of one value: that of the end that     *)
(* bpf_await_program reported.                                             *)
ResultWhole ==
  told /\ outcome \in Ended => result = CORE_output

(* bpf_sleep_program returns; bpf_await_program returns when the core has  *)
(* stopped.                                                                *)
SleepReturns == at = "sleep_set" ~> at = "idle"
AwaitReturns == at = "await" /\ stopped ~> at = "idle"
=============================================================================
