---------------------------- MODULE ForwardingUnit ----------------------------
(***************************************************************************)
(* Where an operand of the instruction in EX comes from                    *)
(* (BPF_Forwarding_Unit.vhd).                                              *)
(*                                                                         *)
(* A producer is [reg_write, write_r0, dst].  An operand is named by the   *)
(* register the instruction names; a call has no such register, its        *)
(* operands are r1, r2 and r3, and r0 is none of them.                     *)
(***************************************************************************)
EXTENDS Integers

consume(p, reg) == (p.reg_write /\ p.dst = reg) \/ (p.write_r0 /\ reg = 0)

(* Fault: an older producer in WB prevails over the one in MEM.            *)
forward_oldest(reg, MEM, WB) ==
  IF consume(WB, reg) THEN "WB" ELSE IF consume(MEM, reg) THEN "MEM" ELSE "none"

forward(reg, MEM, WB) ==
  IF consume(MEM, reg) THEN "MEM" ELSE IF consume(WB, reg) THEN "WB" ELSE "none"

(* The register behind operand A, operand B and the compare token.         *)
register_A(dst, call)  == IF call THEN 2 ELSE dst
register_B(src, call)  == IF call THEN 3 ELSE src
register_token(call) == IF call THEN 1 ELSE 0
=============================================================================
