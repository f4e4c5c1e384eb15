----------------------------- MODULE CoreControl ------------------------------
(***************************************************************************)
(* The core as the host sees it through the control register: what sleep,  *)
(* reset and a register write do to a program, and what the core says of   *)
(* it.  One step is one clock cycle; what the host wants in the next cycle *)
(* is in the primed inputs.  BpfCore implements this.                      *)
(***************************************************************************)
CONSTANTS
  Regs, Data,     \* the register bank and what a register holds
  Outputs,        \* what CORE_output can be: a value of r0 or an address
  Contents        \* what the data memories can hold

VARIABLES
  CORE_reset, CORE_sleep, CORE_reg,   \* inputs; CORE_reg is [write, dst, input]
  outcome,        \* CORE_sleeping, CORE_finish, CORE_exception, or none of them
  CORE_output, regs, memory

inputs == <<CORE_reset, CORE_sleep, CORE_reg>>
coreVars == <<outcome, CORE_output, regs, memory>>

Outcome == {"none", "sleeping", "finish", "exception"}
Ended == {"finish", "exception"}
stopped == outcome # "none"

zeros == [r \in Regs |-> 0]

(* The port of the register bank in the next cycle.                        *)
with_input(bank) ==
  IF CORE_reg'.write THEN [bank EXCEPT ![CORE_reg'.dst] = CORE_reg'.input] ELSE bank

waiting == IF CORE_sleep' THEN "sleeping" ELSE "none"

(* Held in reset, the core has empty buffers: it sleeps when it is told to.*)
Reset ==
  /\ CORE_reset
  /\ regs' = with_input(zeros)
  /\ outcome' = waiting
  /\ CORE_output' \in Outputs /\ memory' \in Contents

(* Asleep, nothing is under way.  Awake, the next instruction may be an    *)
(* exit or invalid at once.                                                *)
Sleep ==
  /\ ~CORE_reset /\ outcome = "sleeping"
  /\ regs' = with_input(regs) /\ memory' = memory
  /\ outcome' \in IF CORE_sleep' THEN {"sleeping"} ELSE {"none"} \union Ended
  /\ CORE_output' \in Outputs

(* Only a reset follows the end of a program.                              *)
Stay ==
  /\ ~CORE_reset /\ outcome \in Ended
  /\ UNCHANGED <<outcome, CORE_output, memory>>
  /\ ~CORE_reg'.write => regs' = regs
  /\ regs' \in [Regs -> Data]

Run ==
  /\ ~CORE_reset /\ outcome = "none"
  /\ regs' \in [Regs -> Data] /\ memory' \in Contents /\ CORE_output' \in Outputs
  /\ outcome' \in {"none", waiting} \union Ended

Init ==
  /\ regs = zeros /\ memory \in Contents /\ CORE_output \in Outputs
  /\ outcome = IF CORE_sleep THEN "sleeping" ELSE "none"

Next == Reset \/ Sleep \/ Stay \/ Run

Spec == Init /\ [][Next]_<<inputs, coreVars>>

(* A core that is told to sleep stops, unless it is told otherwise.        *)
SleepAnswered == CORE_sleep ~> stopped \/ CORE_reset \/ ~CORE_sleep
=============================================================================
