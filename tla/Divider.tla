------------------------------- MODULE Divider --------------------------------
(***************************************************************************)
(* Divisions of the ALU (BPF_ALU.vhd): an FSM in front of a divider of     *)
(* unsigned numbers (Divider_U64) that takes operands only in some cycles, *)
(* answers for one cycle, and needs two cycles to be reset.  The divider   *)
(* and the FSM see the operands of the instruction in EX, whose forwarding *)
(* sources leave the pipeline while the division goes on.                  *)
(***************************************************************************)
EXTENDS Instructions

CONSTANT DivLatency      \* cycles from taking operands to the answer, 6 in Divider_U64

ASSUME DivLatencyOK == DivLatency \in Nat \ {0}

VARIABLES
  div_state,
  saved_operand,         \* [A, B], while the divider was not ready
  neg_result,            \* of the division under way
  divider,               \* [left, A, B, ok, reset_cycles]: left is 0 when it is idle
  divider_ready          \* input: the divider takes operands

divVars == <<div_state, saved_operand, neg_result, divider>>

DivState == {"INIT_S", "RESET_S", "DIVIDING_S", "READY_TO_DIVIDE_S"}

NoOperands == [A |-> 0, B |-> 0]
DividerIdle == [left |-> 0, A |-> 0, B |-> 0, ok |-> FALSE, reset_cycles |-> 0]

(* A division d is what EX asks for: [en, op, is64, signed, A, B], with the *)
(* operands cut to their width.                                            *)
div_by_0(d) == d.B = 0 /\ div_state = "INIT_S"
use_divider(d) == d.en /\ ~div_by_0(d)

negative(d, v) == d.signed /\ v >= (IF d.is64 THEN WordMod ELSE HalfMod) \div 2
magnitude(d, v) == IF negative(d, v) THEN (IF d.is64 THEN WordMod ELSE HalfMod) - v ELSE v

sync_operand(d) == IF div_state = "READY_TO_DIVIDE_S" THEN saved_operand ELSE [A |-> d.A, B |-> d.B]

ok_div == divider.ok
wants_divider(d) ==
  (div_state = "INIT_S" /\ use_divider(d)) \/ div_state = "READY_TO_DIVIDE_S"

ok_operands(d, reset) == ~reset /\ divider_ready /\ wants_divider(d)

await_div(d, reset) ==
  \/ div_state = "INIT_S" /\ ~reset /\ use_divider(d)
  \/ div_state = "READY_TO_DIVIDE_S"
  \/ div_state = "DIVIDING_S" /\ (reset \/ ~ok_div)

alu_ready(d, reset) == use_divider(d) => ~await_div(d, reset)

(* What the instruction gets when the ALU is ready.                        *)
negated_if(neg, v) == IF neg THEN (WordMod - v) % WordMod ELSE v
div_bus(d) == IF div_by_0(d) THEN 0 ELSE negated_if(neg_result, divider.A)
mod_bus(d) == IF div_by_0(d) THEN d.A ELSE negated_if(neg_result, divider.B)
division_output(d) == IF d.op = "DIV" THEN div_bus(d) ELSE mod_bus(d)

DivInit ==
  /\ div_state = "INIT_S" /\ saved_operand = NoOperands /\ neg_result = FALSE
  /\ divider = DividerIdle

(* Fault: a reset does not take the FSM through RESET_S, and the divider   *)
(* goes on.                                                                *)
NextDivState_one_cycle(d, reset) ==
  IF reset THEN "INIT_S"
  ELSE IF div_state = "INIT_S" /\ use_divider(d)
       THEN IF divider_ready THEN "DIVIDING_S" ELSE "READY_TO_DIVIDE_S"
  ELSE IF div_state = "READY_TO_DIVIDE_S" /\ divider_ready THEN "DIVIDING_S"
  ELSE IF (div_state = "DIVIDING_S" /\ ok_div) \/ div_state = "RESET_S" THEN "INIT_S"
  ELSE div_state

(* A reset takes the FSM through RESET_S: the divider sees it for two      *)
(* cycles.                                                                 *)
NextDivState(d, reset) ==
  IF div_state = "RESET_S" THEN "INIT_S"
  ELSE IF reset THEN "RESET_S"
  ELSE IF div_state = "INIT_S" /\ use_divider(d)
       THEN IF divider_ready THEN "DIVIDING_S" ELSE "READY_TO_DIVIDE_S"
  ELSE IF div_state = "READY_TO_DIVIDE_S" /\ divider_ready THEN "DIVIDING_S"
  ELSE IF div_state = "DIVIDING_S" /\ ok_div THEN "INIT_S" ELSE div_state

aresetn(reset) == ~(reset \/ div_state = "RESET_S")

(* The divider: the answer replaces the operands in A and B.               *)
NextDivider(d, reset) ==
  LET o == sync_operand(d)
      quotient == [DividerIdle EXCEPT !.A = divider.A \div divider.B,
                                      !.B = divider.A % divider.B, !.ok = TRUE]
  IN  IF ~aresetn(reset)
      THEN IF divider.reset_cycles = 1 THEN DividerIdle ELSE [divider EXCEPT !.reset_cycles = 1]
      ELSE IF ok_operands(d, reset)
      THEN [DividerIdle EXCEPT !.left = DivLatency, !.A = magnitude(d, o.A), !.B = magnitude(d, o.B)]
      ELSE IF divider.left = 1 THEN quotient
      ELSE IF divider.left > 1 THEN [divider EXCEPT !.left = @ - 1, !.reset_cycles = 0]
      ELSE DividerIdle

NextNegResult(d, reset) ==
  IF reset THEN FALSE
  ELSE IF div_state = "INIT_S" THEN use_divider(d) /\ negative(d, d.A) # negative(d, d.B)
  ELSE neg_result

(* The saved operands are read in READY_TO_DIVIDE_S only, and the sign     *)
(* only after INIT_S: what they hold otherwise is left out.                *)
DividerStep(d, reset) ==
  /\ div_state' = NextDivState(d, reset)
  /\ divider' = NextDivider(d, reset)
  /\ neg_result' = NextNegResult(d, reset)
  /\ saved_operand' =
       IF div_state = "INIT_S" /\ ~reset /\ use_divider(d) /\ ~divider_ready THEN [A |-> d.A, B |-> d.B]
       ELSE IF div_state = "READY_TO_DIVIDE_S" /\ ~reset /\ ~divider_ready THEN saved_operand
       ELSE NoOperands

(* Every answer is one the FSM waits for: no division goes on, nor is one  *)
(* answered, after a reset or for an instruction that is gone.             *)
AnswerExpected == divider.left > 0 \/ divider.ok => div_state \in {"DIVIDING_S", "RESET_S"}
=============================================================================
