------------------------------ MODULE MCBpfCore -------------------------------
(* Instances of the pipeline for TLC: bytes of two bits, so halves of 8    *)
(* and words of 16 bits, a memory of two words at the addresses 0 to 15,   *)
(* and every program of a length over an alphabet of instructions.         *)
EXTENDS BpfCore, TLC

Op(class, code) ==
  [ZeroInsn EXCEPT !.class = class, !.code = code, !.size = "SIZE64"]

\* arithmetic: op(dst, src) and op(dst, immediate)
RR(class, code, dst, src) == [Op(class, code) EXCEPT !.source = "REG", !.dst = dst, !.src = src]
RI(class, code, dst, imm) == [Op(class, code) EXCEPT !.dst = dst, !.imm = imm]

Ldx(dst, src) == [Op("LDX", "none") EXCEPT !.source = "REG", !.mode = "MEM", !.dst = dst, !.src = src]
Ldxsx(dst, src) == [Ldx(dst, src) EXCEPT !.mode = "MEMSX", !.size = "SIZE32"]
Stx(dst, src) == [Op("STX", "none") EXCEPT !.source = "REG", !.mode = "MEM", !.dst = dst, !.src = src]
St(dst, imm) == [Op("ST", "none") EXCEPT !.mode = "MEM", !.dst = dst, !.imm = imm]
Amo(op, fetch, dst, src) ==
  [Stx(dst, src) EXCEPT !.mode = "ATOMIC", !.aop = op, !.fetch = fetch]
Lddw(dst, imm) == [Op("LD", "none") EXCEPT !.dst = dst, !.imm = imm]

Branch(code, dst, src, offset) == [RR("JMP", code, dst, src) EXCEPT !.offset = offset]
Ja(offset) == [Op("JMP", "JA") EXCEPT !.offset = offset]
CallF(f) == [Op("JMP", "JCALL") EXCEPT !.imm = f]
Exit == Op("JMP", "JEXIT")

(* A program; the rest of the instruction memory is zero.                 *)
Rom(p) == [i \in PC |-> IF i \in DOMAIN p THEN p[i] ELSE ZeroInsn]
ProgramsOver(alphabet, n) == {Rom(p) : p \in [0 .. n - 1 -> alphabet]}

(* Words whose bytes differ, and whose halves and lowest bytes have either *)
(* sign; and a word that a compare-and-exchange with a fresh r0 matches.   *)
Marked == {[a \in WordAddr |-> IF a = 0 THEN Join(147, 9) ELSE Join(27, 226)]}
MarkedAndZero == {[a \in WordAddr |-> IF a = 0 THEN Join(147, 8) ELSE 0]}

MCValidAddr == 0 .. 15
MCKeyMod(keysz) == ByteMod^(2^keysz)

OneMap ==
  [m \in 0 .. 1 |->
     IF m = 1 THEN NoMap
     ELSE [valid |-> TRUE, max_entries |-> 1, valsz |-> 2, keysz |-> 0, base_ptr |-> 1]]

NoWrites == {}
R1Writes == {[dst |-> 1, input |-> 1]}

(* Alphabets.  Register 1 is 0 or 8 most of the time and register 2 what   *)
(* makes an address valid or not.                                          *)
Mov8 == RI("ALU64", "MOV", 1, 8)

(* What the instructions before it compute, load and store.  A byte swap   *)
(* of a register that is still zero and a constant at the end show nothing. *)
Operands ==
  {Mov8, RR("ALU64", "ADD", 1, 2), RR("ALU", "ADD", 2, 1), RI("ALU64", "END", 2, 16),
   RI("ALU", "END", 2, 32), Ldx(1, 2), Ldxsx(2, 1), Stx(1, 2), St(2, 130)}

SignedOp(i) == [i EXCEPT !.offset = 1]
Divisions ==
  {Mov8, RR("ALU64", "ADD", 2, 1), SignedOp(RR("ALU64", "DIV", 2, 1)), RR("ALU64", "MOD", 1, 2),
   SignedOp(RI("ALU", "MOD", 2, 253)), Ldx(1, 1), Stx(1, 2)}

(* No instruction that takes its result from memory stands before an       *)
(* atomic operation.                                                       *)
Atomics ==
  {Mov8, RR("ALU64", "ADD", 2, 1), Amo("XOR", TRUE, 1, 2), Amo("XOR", FALSE, 2, 1),
   Amo("CMPXCHG", TRUE, 1, 2), RR("ALU64", "MOV", 2, 0)}
from_memory(i) == i.class = "LDX" \/ (i.mode = "ATOMIC" /\ i.fetch)

(* Where the next instruction comes from.  What is computed comes round    *)
(* soon, as a program may loop.                                            *)
Flow ==
  {RI("ALU64", "XOR", 1, 8), Branch("JEQ", 1, 0, 1), Branch("JNE", 1, 2, -2), Ja(1),
   Lddw(2, 8), Ldx(2, 1), Exit}

ReadOnly10 == RI("ALU64", "MOV", 10, 1)
Faulty ==
  {RI("ALU64", "ADD", 1, 8), Ldx(2, 1), St(1, 1), ReadOnly10, Branch("JNE", 1, 2, 1), Exit,
   RR("ALU64", "DIV", 2, 1)}

(* Stalls of every kind: calls among the producers of their parameter and  *)
(* the users of r0, loads, divisions and branches.                         *)
Stalls ==
  {CallF(0), Ldx(2, 1), RI("ALU64", "DIV", 1, 1), Branch("JNE", 0, 1, -2),
   RR("ALU64", "MOV", 2, 0), Exit}
CallsAmong == {CallF(0), Ldx(2, 1), RI("ALU64", "DIV", 1, 1), RR("ALU64", "MOV", 2, 0)}
StallPrograms ==
  {p \in ProgramsOver(Stalls, 2) : p[0] # Exit}
    \union {p \in ProgramsOver(CallsAmong, 3) : p[0] = CallF(0) \/ p[1] = CallF(0)}

(* Programs of the runs that end in a violation.                           *)
BranchPrograms == ProgramsOver(Flow, 2)
LoadAtomicPrograms == ProgramsOver({Mov8, Ldx(2, 0), Amo("ADD", TRUE, 1, 0)}, 4)
UnknownCallPrograms == ProgramsOver({Mov8, CallF(1)}, 2)
=============================================================================
