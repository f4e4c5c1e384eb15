------------------------------ MODULE MacroOutput -----------------------------
(***************************************************************************)
(* The other output of the assembler: a C array of macros of bpf_insn.h    *)
(* (codegen_str).  A statement becomes the macros that are printed for it, *)
(* and these the slots a C compiler makes of them; the text in between is  *)
(* left out.  Numbers are printed in decimal, offsets as the 16 bits that  *)
(* are left of them.                                                       *)
(***************************************************************************)
EXTENDS Assembler, SequencesExt

(* Arguments: registers and numbers.  Every number is cut to 32 bits       *)
(* before it is printed.                                                   *)
reg_str(s, j) == reg_(s, j)
STR(s, j) == cut(s.ops[j].val, HalfMod)
STR16(s, j) == val16(s, j)

field(n) == n % HalfMod
-----------------------------------------------------------------------------
(* Macros of bpf_insn.h.                                                   *)
ALU_REG(class, op, dst, src, off) ==
  <<[insn(class, op) EXCEPT !.source = "REG", !.dst = dst, !.src = src, !.offset = off]>>
ALU_IMM(class, op, dst, imm, off) ==
  <<[insn(class, op) EXCEPT !.dst = dst, !.offset = off, !.imm = field(imm)]>>

BPF_ENDIAN(order, dst, len) ==
  <<[insn("ALU", "END") EXCEPT !.source = order, !.dst = dst, !.imm = len]>>
BPF_BYTESWAP(dst, len) == <<[insn("ALU64", "END") EXCEPT !.dst = dst, !.imm = len]>>
BPF_ZEXT_REG(dst) ==
  <<[insn("ALU", "MOV") EXCEPT !.source = "REG", !.dst = dst, !.src = dst, !.imm = 1]>>

(* Fault: the number is shifted without its sign.                          *)
BPF_LD_IMM64_RAW_unsigned(dst, src, imm) ==
  <<[mem_insn("LD", "IMM", "SIZE64", dst, src, 0) EXCEPT !.imm = field(imm)],
    [ZeroInsn EXCEPT !.imm = field(field(imm) \div HalfMod)]>>

BPF_LD_IMM64_RAW(dst, src, imm) ==
  <<[mem_insn("LD", "IMM", "SIZE64", dst, src, 0) EXCEPT !.imm = field(imm)],
    [ZeroInsn EXCEPT !.imm = field(imm \div HalfMod)]>>
BPF_LD_PACKET(mode, size, src, imm) ==
  <<[mem_insn("LD", mode, size, 0, src, 0) EXCEPT !.imm = field(imm)]>>

BPF_MEM(class, mode, size, dst, src, off) == <<mem_insn(class, mode, size, dst, src, off)>>
BPF_ST_MEM(size, dst, off, imm) ==
  <<[mem_insn("ST", "MEM", size, dst, 0, off) EXCEPT !.imm = field(imm)]>>
BPF_ATOMIC_OP(size, op, fetch, dst, src, off) ==
  <<[mem_insn("STX", "ATOMIC", size, dst, src, off) EXCEPT !.aop = op, !.fetch = fetch]>>

JMP_REG(class, op, dst, src, off) ==
  <<[insn(class, op) EXCEPT !.source = "REG", !.dst = dst, !.src = src, !.offset = off]>>
JMP_IMM(class, op, dst, imm, off) ==
  <<[insn(class, op) EXCEPT !.dst = dst, !.imm = field(imm), !.offset = off]>>
BPF_JMP_A(off) == <<[insn("JMP", "JA") EXCEPT !.offset = off]>>
BPF_CALL_REL(tgt) == <<[insn("JMP", "JCALL") EXCEPT !.src = 1, !.imm = field(tgt)]>>
BPF_EXIT_INSN == <<insn("JMP", "JEXIT")>>
-----------------------------------------------------------------------------
(* codegen_str, mnemonic by mnemonic.                                      *)
alu_macro(class, s) ==
  IF s.ops[2].ty = "Immediate"
  THEN ALU_IMM(class, s.ins.op, reg_str(s, 1), STR(s, 2), s.ins.arg)
  ELSE ALU_REG(class, s.ins.op, reg_str(s, 1), reg_str(s, 2), s.ins.arg)
Alu64Macro(s) == alu_macro("ALU64", s)
Alu32Macro(s) == alu_macro("ALU", s)

NegMacro(s) == ALU_IMM(s.ins.class, "NEG", reg_str(s, 1), 0, 0)
SwapMacro(s) ==
  LET m == s.ins
  IN  CASE m.family = "le" -> BPF_ENDIAN("IMM", reg_str(s, 1), m.arg)
        [] m.family = "be" -> BPF_ENDIAN("REG", reg_str(s, 1), m.arg)
        [] OTHER -> BPF_BYTESWAP(reg_str(s, 1), m.arg)

(* An exchange has its fetch bit in the name of the operation.             *)
PlainAtomicMacro(s) ==
  BPF_ATOMIC_OP(literal_size(s.ins.arg), s.ins.op, FALSE, reg_str(s, 1), reg_str(s, 2), STR16(s, 3))
FetchMacro(s) ==
  BPF_ATOMIC_OP(literal_size(s.ins.arg), s.ins.op, TRUE, reg_str(s, 1), reg_str(s, 2), STR16(s, 3))
ExchangeMacro(s) == FetchMacro(s)
XaddMacro(s) == PlainAtomicMacro(s)

WideMacro(s) == BPF_LD_IMM64_RAW(reg_str(s, 1), IF s.ins.family = "ld64" THEN 0 ELSE 1, STR(s, 2))
PacketMacro(s) ==
  IF s.ins.op = "ABS" THEN BPF_LD_PACKET("ABS", literal_size(s.ins.arg), 0, STR(s, 1))
  ELSE BPF_LD_PACKET("IND", literal_size(s.ins.arg), reg_str(s, 1), STR(s, 2))

LoadMacro(s) ==
  BPF_MEM("LDX", s.ins.op, coded_size(s.ins.arg), reg_str(s, 1), reg_str(s, 2), STR16(s, 3))
StoreImmMacro(s) == BPF_ST_MEM(coded_size(s.ins.arg), reg_str(s, 1), STR16(s, 2), STR(s, 3))
StoreRegMacro(s) ==
  BPF_MEM("STX", "MEM", coded_size(s.ins.arg), reg_str(s, 1), reg_str(s, 2), STR16(s, 3))

branch_macro(class, s) ==
  IF s.ops[2].ty = "Immediate"
  THEN JMP_IMM(class, s.ins.op, reg_str(s, 1), STR(s, 2), STR16(s, 3))
  ELSE JMP_REG(class, s.ins.op, reg_str(s, 1), reg_str(s, 2), STR16(s, 3))
BranchMacro(s) == branch_macro("JMP", s)
Branch32Macro(s) == branch_macro("JMP32", s)

(* No macro is printed for a call, for jal and for the signed divisions.   *)
refused(m) ==
  \/ m.family \in {"call", "jal"}
  \/ m \in Arithmetic /\ m.op \in SignedOps /\ m.arg = 1

macros(s) ==
  LET m == s.ins
  IN  CASE m \in Arithmetic /\ m.class = "ALU64" -> Alu64Macro(s)
        [] m \in Arithmetic /\ m.class = "ALU" -> Alu32Macro(s)
        [] m.family = "neg" -> NegMacro(s)
        [] m.family \in {"le", "be", "bswap"} -> SwapMacro(s)
        [] m.family = "zext" -> BPF_ZEXT_REG(reg_str(s, 1))
        [] m.family = "stxx" -> XaddMacro(s)
        [] m.family = "atomic" /\ m.op \in {"XCHG", "CMPXCHG"} -> ExchangeMacro(s)
        [] m.family = "atomic" /\ m.op \in SimpleAtomics ->
             IF m.class = "fetch" THEN FetchMacro(s) ELSE PlainAtomicMacro(s)
        [] m \in Wide -> WideMacro(s)
        [] m \in PacketLoads -> PacketMacro(s)
        [] m.family \in {"ldx", "ldxs"} -> LoadMacro(s)
        [] m.family = "st" -> StoreImmMacro(s)
        [] m.family = "stx" -> StoreRegMacro(s)
        [] m.family = "branch" /\ m.class = "JMP" -> BranchMacro(s)
        [] m.family = "branch" /\ m.class = "JMP32" -> Branch32Macro(s)
        [] m.family = "ja" -> BPF_JMP_A(STR16(s, 1))
        [] m.family = "rel" -> BPF_CALL_REL(STR(s, 1))
        [] m = ExitOp -> BPF_EXIT_INSN

instructions == SelectSeq(ast, LAMBDA s : s.ty = "Instruction")
printed == FlattenSeq([k \in DOMAIN instructions |-> macros(instructions[k])])

(* The elements the array is declared with.  A label is asked for its      *)
(* instruction too, and in its place is whatever memory held.              *)
max_insns(stray) ==
  Len(instructions) + Cardinality({k \in DOMAIN instructions : slots(instructions[k].ins) = 2}) + stray

(* The array is printed at once, when no statement is refused; its last    *)
(* elements may be zero.                                                   *)
codegen_str ==
  /\ phase = "codegen" /\ i = 1
  /\ IF \E k \in DOMAIN instructions : refused(instructions[k].ins)
     THEN Go("error") /\ UNCHANGED prog
     ELSE \E stray \in 0 .. Len(ast) - Len(instructions) :
            Go("printed") /\ prog' = printed \o [k \in 1 .. max_insns(stray) - Len(printed) |-> ZeroInsn]
  /\ UNCHANGED <<expr, ast, offset, i, pc, at>>
-----------------------------------------------------------------------------
(* The same instructions as the other code generator writes them.          *)
object == FlattenSeq([k \in DOMAIN instructions |-> written(instructions[k])])

(* A number of ld64 that 32 bits hold with its sign.                       *)
narrow(s) == s.ins.family = "ld64" => s.ops[2].val = STR(s, 2)

(* The C array is the program the object file holds: the two code          *)
(* generators, 150 mnemonics each, agree on every instruction, and the     *)
(* array is no shorter than what is put into it.                           *)
CArrayIsObject ==
  phase = "printed" => IsPrefix(object, prog)

(* ... of programs whose 64-bit constants need 32 bits only.               *)
NarrowCArrayIsObject ==
  phase = "printed" /\ (\A k \in DOMAIN instructions : narrow(instructions[k]))
    => IsPrefix(object, prog)
=============================================================================
