---------------------------- MODULE BranchChecker -----------------------------
(***************************************************************************)
(* The comparisons of branches (BPF_Branch_Checker.vhd).  Operands are cut *)
(* to their width; one unsigned comparison serves the signed ones as well. *)
(***************************************************************************)
EXTENDS Instructions

values(is64) == IF is64 THEN WordMod ELSE HalfMod
sign_bit(is64, v) == v >= values(is64) \div 2
same_sign(is64, a, b) == sign_bit(is64, a) = sign_bit(is64, b)

gt(a, b) == ~(a < b) /\ a # b
ge(a, b) == ~(a < b)
lt(a, b) == a < b
le(a, b) == a < b \/ a = b

(* Fault: the signed order is the unsigned one, turned round for negative  *)
(* numbers.                                                                *)
sgt_negated(is64, a, b) == IF ~sign_bit(is64, a) THEN gt(a, b) ELSE lt(a, b)

sgt(is64, a, b) == IF same_sign(is64, a, b) THEN gt(a, b) ELSE lt(a, b)
sge(is64, a, b) == IF same_sign(is64, a, b) THEN ge(a, b) ELSE le(a, b)
slt(is64, a, b) == IF same_sign(is64, a, b) THEN lt(a, b) ELSE gt(a, b)
sle(is64, a, b) == IF same_sign(is64, a, b) THEN le(a, b) ELSE ge(a, b)

taken(op, is64, a, b) ==
  CASE op = "JEQ" -> a = b
    [] op = "JGT" -> gt(a, b)
    [] op = "JGE" -> ge(a, b)
    [] op = "JSET" -> ones(a) \intersect ones(b) # {}
    [] op = "JNE" -> a # b
    [] op = "JSGT" -> sgt(is64, a, b)
    [] op = "JSGE" -> sge(is64, a, b)
    [] op = "JLT" -> lt(a, b)
    [] op = "JLE" -> le(a, b)
    [] op = "JSLT" -> slt(is64, a, b)
    [] op = "JSLE" -> sle(is64, a, b)
    [] OTHER -> FALSE
=============================================================================
