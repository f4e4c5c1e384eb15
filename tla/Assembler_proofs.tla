--------------------------- MODULE Assembler_proofs ---------------------------
(***************************************************************************)
(* Proofs about the assembler, for every file, every width of the offset   *)
(* and of the immediate and every length of the array: the array is not    *)
(* overrun, labels are reached, no field is read from an operand that is   *)
(* not there, and the core accepts what is written for the listed          *)
(* mnemonics.                                                              *)
(*                                                                         *)
(* The argument has two halves.  What is written for one statement is      *)
(* found family by family of mnemonics (WrittenSlots, CoreAccepts); what   *)
(* the passes count is one sequence of slots (LayoutInv), which the parser, *)
(* the resolution of labels and the code generator extend in step.         *)
(***************************************************************************)
EXTENDS Assembler, TLAPS

(* The families of mnemonics are disjoint.                                 *)
LEMMA Families ==
  ASSUME NEW m \in Mnemonics
  PROVE  /\ m \in Arithmetic <=> m.family = "alu"
         /\ m \in Unary <=> m.family \in {"neg", "le", "be", "bswap", "zext"}
         /\ m \in AtomicOps <=> m.family \in {"atomic", "stxx"}
         /\ m \in Transfers <=> m.family \in {"ldx", "ldxs", "stx"}
         /\ m \in Stores <=> m.family = "st"
         /\ m \in Wide <=> m.family \in {"ld64", "ldmapfd"}
         /\ m \in PacketLoads <=> m.family \in {"ABS", "IND"}
         /\ m \in Branches <=> m.family = "branch"
         /\ m \in Jumps <=> m.family \in {"ja", "jal"}
         /\ m \in Calls <=> m.family \in {"call", "rel"}
         /\ m = ExitOp <=> m.family = "exit"
<1>1. m \in Arithmetic => m.family = "alu"
  BY DEF Arithmetic, Mnemonic
<1>2. m \in Unary => m.family \in {"neg", "le", "be", "bswap", "zext"}
  BY DEF Unary, Mnemonic
<1>3. m \in AtomicOps => m.family \in {"atomic", "stxx"}
  BY DEF AtomicOps, Mnemonic
<1>4. m \in Transfers => m.family \in {"ldx", "ldxs", "stx"}
  BY DEF Transfers, Mnemonic
<1>5. m \in Stores => m.family = "st"
  BY DEF Stores, Mnemonic
<1>6. m \in Wide => m.family \in {"ld64", "ldmapfd"}
  BY DEF Wide, Mnemonic
<1>7. m \in PacketLoads => m.family \in {"ABS", "IND"}
  BY DEF PacketLoads, Mnemonic
<1>8. m \in Branches => m.family = "branch"
  BY DEF Branches, Mnemonic
<1>9. m \in Jumps => m.family \in {"ja", "jal"}
  BY DEF Jumps, Mnemonic
<1>10. m \in Calls => m.family \in {"call", "rel"}
  BY DEF Calls, Mnemonic
<1>11. m = ExitOp => m.family = "exit"
  BY DEF ExitOp, Mnemonic
<1> QED
  BY <1>1, <1>2, <1>3, <1>4, <1>5, <1>6, <1>7, <1>8, <1>9, <1>10, <1>11 DEF Mnemonics

(***************************************************************************)
(* Numbers cut to the width of a field.                                    *)
(***************************************************************************)
LEMMA CutRange ==
  ASSUME NEW mod \in Nat \ {0}, mod % 2 = 0, NEW v \in Int
  PROVE  cut(v, mod) \in -(mod \div 2) .. (mod \div 2) - 1
<1>1. mod = 2 * (mod \div 2) /\ mod \div 2 \in Nat
  OBVIOUS
<1>2. (v + mod \div 2) % mod \in 0 .. mod - 1
  BY <1>1
<1> QED
  BY <1>1, <1>2 DEF cut

(* A number that fits is not changed by cutting it.                        *)
LEMMA CutSmall ==
  ASSUME NEW mod \in Nat \ {0}, mod % 2 = 0, NEW v \in -(mod \div 2) .. (mod \div 2) - 1
  PROVE  cut(v, mod) = v /\ cut(v % mod, mod) = v
<1>1. mod = 2 * (mod \div 2) /\ mod \div 2 \in Nat
  OBVIOUS
<1>2. (v + mod \div 2) % mod = v + mod \div 2
  BY <1>1
<1>3. CASE v >= 0
  <2>1. v % mod = v
    BY <1>1, <1>3
  <2> QED
    BY <1>1, <1>2, <2>1 DEF cut
<1>4. CASE v < 0
  <2>1. v % mod = v + mod
    BY <1>1, <1>4
  <2>2. (v + mod + mod \div 2) % mod = v + mod \div 2
    BY <1>1, <1>4
  <2> QED
    BY <1>1, <1>2, <2>1, <2>2 DEF cut
<1> QED
  BY <1>3, <1>4

Operands ==
  {Empty} \union [ty : {"Register"}, reg : Regs] \union [ty : {"Immediate"}, val : Int, of : Name \union {NoName}]
    \union [ty : {"Reference"}, id : Name]
Labels == [ty : {"Label"}, id : Name, off : Nat]
Instructions == [ty : {"Instruction"}, ins : Mnemonics, ops : [1 .. 3 -> Operands]]

(* The operand lists by family: no name of an operation decides alone.     *)
LEMMA OperandTypes ==
  ASSUME NEW m \in Mnemonics
  PROVE  LET types == operand_types(m)
         IN  /\ m \in Arithmetic => types = <<REG, REG \union IMM, NONE>>
             /\ m \in Unary => types = <<REG, NONE, NONE>>
             /\ m \in AtomicOps \union Transfers => types = <<REG, REG, IMM>>
             /\ m \in Stores => types = <<REG, IMM, IMM>>
             /\ m \in Wide => types = <<REG, IMM, NONE>>
             /\ m \in PacketLoads => types = IF m.op = "ABS" THEN <<IMM, NONE, NONE>>
                                             ELSE <<REG, IMM, NONE>>
             /\ m \in Branches => types = <<REG, REG \union IMM, IMM>>
             /\ m \in Jumps \union Calls => types = <<IMM, NONE, NONE>>
             /\ m = ExitOp => types = <<NONE, NONE, NONE>>
<1>1. m.op \in {"ABS", "IND"} => m \in PacketLoads
  <2>1. m.op \in {"ABS", "IND"} => m \notin Arithmetic \union Unary \union AtomicOps
    BY DEF Arithmetic, Unary, AtomicOps, Mnemonic, RegularOps, SignedOps, SimpleAtomics
  <2>2. m.op \in {"ABS", "IND"} => m \notin Transfers \union Stores \union Wide
    BY DEF Transfers, Stores, Wide, Mnemonic
  <2>3. m.op \in {"ABS", "IND"} => m \notin Branches \union Jumps \union Calls \union {ExitOp}
    BY DEF Branches, Jumps, Calls, ExitOp, Mnemonic, BranchOps
  <2> QED
    BY <2>1, <2>2, <2>3 DEF Mnemonics
<1>2. m \in PacketLoads => m.op \in {"ABS", "IND"}
  BY DEF PacketLoads, Mnemonic
<1> QED
  BY <1>1, <1>2, Families DEF operand_types

(* The code generator by family.                                           *)
LEMMA WrittenBy ==
  ASSUME NEW s, s.ins \in Mnemonics
  PROVE  LET m == s.ins
         IN  /\ m \in Arithmetic => written(s) = ArithmeticInsn(m, s)
             /\ m \in Unary => written(s) = UnaryInsn(m, s)
             /\ m \in AtomicOps => written(s) = AtomicInsn(m, s)
             /\ m \in Transfers => written(s) = TransferInsn(m, s)
             /\ m \in Stores => written(s) = StoreInsn(m, s)
             /\ m \in Wide => written(s) = WideInsn(m, s)
             /\ m \in PacketLoads => written(s) = PacketLoadInsn(m, s)
             /\ m \in Branches => written(s) = BranchInsn(m, s)
             /\ m \in Jumps => written(s) = JumpInsn(m, s)
             /\ m \in Calls => written(s) = CallInsn(m, s)
             /\ m = ExitOp => written(s) = <<insn(m.class, m.op)>>
BY Families DEF written

(* Classes, operations and sizes by family.                                *)
LEMMA MnemonicFields ==
  ASSUME NEW m \in Mnemonics
  PROVE  /\ m \in Arithmetic => /\ m.class \in AluClass /\ m.op \in RegularOps \union {"MOV"}
                                /\ m.arg \in {0, 1, 8, 16, 32}
         /\ m \in Unary => /\ m.class \in AluClass /\ m.op \in {"NEG", "END", "MOV"}
                           /\ m.arg \in {0, 16, 32, 64}
         /\ m \in AtomicOps => /\ m.op \in SimpleAtomics \union {"XCHG", "CMPXCHG"}
                               /\ m.arg \in Sizes
         /\ m \in Transfers => /\ m.class \in {"LDX", "STX"} /\ m.op \in {"MEM", "MEMSX"}
                               /\ m.arg \in Sizes
         /\ m \in Stores \union PacketLoads => m.arg \in Sizes
         /\ m \in Branches => m.class \in JumpClass /\ m.op \in BranchOps
         /\ m \in Jumps => m.class \in JumpClass /\ m.op = "JA"
         /\ m \in Calls => m.class = "JMP" /\ m.op = "JCALL"
         /\ m = ExitOp => m.class = "JMP" /\ m.op = "JEXIT"
<1>1. m \in Arithmetic => /\ m.class \in AluClass /\ m.op \in RegularOps \union {"MOV"}
                          /\ m.arg \in {0, 1, 8, 16, 32}
  BY DEF Arithmetic, Mnemonic, SignedOps, RegularOps, AluClass
<1>2. m \in Unary => /\ m.class \in AluClass /\ m.op \in {"NEG", "END", "MOV"}
                     /\ m.arg \in {0, 16, 32, 64}
  BY DEF Unary, Mnemonic, AluClass
<1>3. m \in AtomicOps => m.op \in SimpleAtomics \union {"XCHG", "CMPXCHG"} /\ m.arg \in Sizes
  BY DEF AtomicOps, Mnemonic, SimpleAtomics, Sizes
<1>4. m \in Transfers => /\ m.class \in {"LDX", "STX"} /\ m.op \in {"MEM", "MEMSX"}
                         /\ m.arg \in Sizes
  BY DEF Transfers, Mnemonic, Sizes
<1>5. m \in Stores \union PacketLoads => m.arg \in Sizes
  BY DEF Stores, PacketLoads, Mnemonic, Sizes
<1>6. m \in Branches => m.class \in JumpClass /\ m.op \in BranchOps
  BY DEF Branches, Mnemonic
<1>7. m \in Jumps => m.class \in JumpClass /\ m.op = "JA"
  BY DEF Jumps, Mnemonic, JumpClass
<1>8. m \in Calls => m.class = "JMP" /\ m.op = "JCALL"
  BY DEF Calls, Mnemonic
<1>9. m = ExitOp => m.class = "JMP" /\ m.op = "JEXIT"
  BY DEF ExitOp, Mnemonic
<1> QED
  BY <1>1, <1>2, <1>3, <1>4, <1>5, <1>6, <1>7, <1>8, <1>9

(* Every number of bits has a size code.                                   *)
LEMMA SizesCoded ==
  ASSUME NEW n \in Sizes
  PROVE  coded_size(n) \in Size /\ literal_size(n) \in Size
BY DEF Sizes, coded_size, literal_size, Size

(***************************************************************************)
(* What the code generator makes of a well-typed statement.                *)
(***************************************************************************)
ShortOffset == {n \in Int : n < HalfMod}
Slot ==
  [class : {"LD"} \union MemClass \union AluClass \union JumpClass,
   code : RegularOps \union BranchOps \union {"MOV", "END", "JA", "JCALL", "JEXIT", "none"},
   source : {"IMM", "REG"},
   mode : {"IMM", "ABS", "IND", "MEM", "MEMSX", "ATOMIC"},
   size : Size,
   dst : Regs, src : Regs, offset : ShortOffset, imm : Half32,
   aop : SimpleAtomics \union {"XCHG", "CMPXCHG"}, fetch : BOOLEAN]

(* The slot every instruction starts from.                                 *)
LEMMA ZeroSlot == ZeroInsn \in Slot
BY HalfOK, WidthsOK DEF Slot, ZeroInsn, Regs, Half32, Size, SimpleAtomics, ShortOffset

(* Arithmetic and jump instructions are slots.                             *)
LEMMA InsnSlot ==
  ASSUME NEW class \in AluClass \union JumpClass,
         NEW code \in RegularOps \union BranchOps \union {"MOV", "END", "JA", "JCALL", "JEXIT"}
  PROVE  insn(class, code) \in Slot
BY ZeroSlot DEF Slot, insn

(* Memory instructions are slots.                                          *)
LEMMA MemSlot ==
  ASSUME NEW class \in {"LD"} \union MemClass,
         NEW mode \in {"IMM", "ABS", "IND", "MEM", "MEMSX", "ATOMIC"}, NEW size \in Size,
         NEW dst \in Regs, NEW src \in Regs, NEW off \in ShortOffset
  PROVE  mem_insn(class, mode, size, dst, src, off) \in Slot
<1>1. insn(class, "none") \in Slot
  BY ZeroSlot DEF Slot, insn
<1> QED
  BY <1>1 DEF Slot, mem_insn

IsInsn(b, class, code) ==
  /\ b \in Slot /\ b.class = class /\ b.code = code /\ b.source = "IMM"
  /\ b.dst = 0 /\ b.src = 0 /\ b.offset = 0 /\ b.imm = 0 /\ b.fetch = FALSE

IsMemInsn(b, class, mode, size, dst, src, off) ==
  /\ b \in Slot /\ b.class = class /\ b.mode = mode /\ b.size = size
  /\ b.dst = dst /\ b.src = src /\ b.offset = off /\ b.imm = 0 /\ b.fetch = FALSE

(* The fields an arithmetic or jump instruction starts with.               *)
LEMMA InsnFields ==
  ASSUME NEW class \in AluClass \union JumpClass,
         NEW code \in RegularOps \union BranchOps \union {"MOV", "END", "JA", "JCALL", "JEXIT"}
  PROVE  IsInsn(insn(class, code), class, code)
<1>1. insn(class, code) \in Slot
  BY InsnSlot
<1>2. /\ ZeroInsn.source = "IMM" /\ ZeroInsn.dst = 0 /\ ZeroInsn.src = 0 /\ ZeroInsn.offset = 0
      /\ ZeroInsn.imm = 0 /\ ZeroInsn.fetch = FALSE
  BY DEF ZeroInsn
<1>3. LET b == insn(class, code)
      IN  /\ b.class = class /\ b.code = code /\ b.source = ZeroInsn.source
          /\ b.dst = ZeroInsn.dst /\ b.src = ZeroInsn.src /\ b.offset = ZeroInsn.offset
          /\ b.imm = ZeroInsn.imm /\ b.fetch = ZeroInsn.fetch
  BY ZeroSlot DEF insn, Slot
<1> QED
  BY <1>1, <1>2, <1>3 DEF IsInsn

(* The fields a memory instruction starts with.                            *)
LEMMA MemFields ==
  ASSUME NEW class \in {"LD"} \union MemClass,
         NEW mode \in {"IMM", "ABS", "IND", "MEM", "MEMSX", "ATOMIC"}, NEW size \in Size,
         NEW dst \in Regs, NEW src \in Regs, NEW off \in ShortOffset
  PROVE  IsMemInsn(mem_insn(class, mode, size, dst, src, off), class, mode, size, dst, src, off)
<1> DEFINE b == mem_insn(class, mode, size, dst, src, off)
           z == insn(class, "none")
<1>1. b \in Slot
  BY MemSlot
<1>2. z \in Slot /\ z.class = class /\ z.imm = ZeroInsn.imm /\ z.fetch = ZeroInsn.fetch
  BY ZeroSlot DEF insn, Slot
<1>3. ZeroInsn.imm = 0 /\ ZeroInsn.fetch = FALSE
  BY DEF ZeroInsn
<1> HIDE DEF z
<1>4. /\ b.class = z.class /\ b.mode = mode /\ b.size = size /\ b.dst = dst /\ b.src = src
      /\ b.offset = off /\ b.imm = z.imm /\ b.fetch = z.fetch
  BY <1>2 DEF mem_insn, Slot, z
<1> QED
  BY <1>1, <1>2, <1>3, <1>4 DEF IsMemInsn

(* An operand of the kind that is asked for gives a value in range.        *)
LEMMA OperandValues ==
  ASSUME NEW s \in Instructions, NEW j \in 1 .. 3
  PROVE  /\ s.ops[j].ty = "Register" => reg_(s, j) \in Regs
         /\ s.ops[j].ty = "Immediate" => /\ s.ops[j].val \in Int /\ val(s, j) \in Half32
                                         /\ val16(s, j) \in ShortOffset
<1>1. s.ops[j] \in Operands
  BY DEF Instructions
<1>2. /\ s.ops[j].ty = "Register" => reg_(s, j) \in Regs
      /\ s.ops[j].ty = "Immediate" => s.ops[j].val \in Int
  BY <1>1 DEF Operands, Empty, reg_
<1>3. HalfMod \in Nat /\ HalfMod > 64 /\ OffMod \in Nat \ {0} /\ OffMod % 2 = 0 /\ OffMod <= HalfMod
  BY HalfOK, WidthsOK
<1>4. s.ops[j].ty = "Immediate" => val(s, j) \in Half32
  BY <1>2, <1>3 DEF val, Half32
<1>5. s.ops[j].ty = "Immediate" => val16(s, j) \in ShortOffset
  <2> SUFFICES ASSUME s.ops[j].ty = "Immediate" PROVE val16(s, j) \in ShortOffset
    OBVIOUS
  <2>1. val16(s, j) \in -(OffMod \div 2) .. (OffMod \div 2) - 1
    BY <1>2, <1>3, CutRange DEF val16
  <2> QED
    BY <1>3, <2>1 DEF ShortOffset
<1> QED
  BY <1>2, <1>4, <1>5

(* The type checker knows what the code generator reads of each mnemonic,  *)
(* and both know what the parser counts for it.                            *)
LEMMA WrittenSlots ==
  ASSUME NEW s \in Instructions, well_typed(s)
  PROVE  written(s) \in Seq(Slot) /\ Len(written(s)) = slots(s.ins)
<1> DEFINE m == s.ins
           types == operand_types(m)
<1>1. m \in Mnemonics /\ \A j \in 1 .. 3 : s.ops[j] \in Operands /\ s.ops[j].ty \in types[j]
  BY DEF Instructions, well_typed
<1>2. HalfMod \in Nat /\ HalfMod > 64 /\ OffMod \in Nat \ {0} /\ OffMod % 2 = 0 /\ OffMod <= HalfMod
  BY HalfOK, WidthsOK
<1>3. \A j \in 1 .. 3 : /\ s.ops[j].ty = "Register" => reg_(s, j) \in Regs
                        /\ s.ops[j].ty = "Immediate" => s.ops[j].val \in Int
  BY OperandValues
<1>4. \A j \in 1 .. 3 : s.ops[j].ty = "Immediate" => val(s, j) \in Half32
  BY OperandValues
<1>5. \A j \in 1 .. 3 : s.ops[j].ty = "Immediate" => val16(s, j) \in ShortOffset
  BY OperandValues
<1>6. \A x \in Slot : s.ops[2].ty \in {"Register", "Immediate"} => with_second(x, s) \in Slot
  <2> SUFFICES ASSUME NEW x \in Slot, s.ops[2].ty \in {"Register", "Immediate"}
               PROVE  with_second(x, s) \in Slot
    OBVIOUS
  <2>1. CASE s.ops[2].ty = "Immediate"
    <3>1. val(s, 2) \in Half32 /\ with_second(x, s) = [x EXCEPT !.imm = val(s, 2)]
      BY <1>4, <2>1 DEF with_second
    <3> QED
      BY <3>1 DEF Slot
  <2>2. CASE s.ops[2].ty = "Register"
    <3>1. reg_(s, 2) \in Regs /\ with_second(x, s) = [x EXCEPT !.source = "REG", !.src = reg_(s, 2)]
      BY <1>3, <2>2 DEF with_second
    <3> QED
      BY <3>1 DEF Slot
  <2> QED
    BY <2>1, <2>2
<1>7. \A x \in Slot : <<x>> \in Seq(Slot) /\ Len(<<x>>) = 1
  OBVIOUS
<1>8. /\ coded_size(m.arg) \in Size \/ m.arg \notin Sizes
      /\ literal_size(m.arg) \in Size \/ m.arg \notin Sizes
  BY SizesCoded
<1>9. CASE m \in Arithmetic
  <2>1. written(s) = ArithmeticInsn(m, s) /\ slots(m) = 1
    BY <1>1, <1>9, WrittenBy, Families DEF slots
  <2>2. s.ops[1].ty = "Register" /\ s.ops[2].ty \in {"Register", "Immediate"}
    BY <1>1, <1>9, OperandTypes DEF REG, IMM
  <2>3. insn(m.class, m.op) \in Slot /\ m.arg \in ShortOffset
    BY <1>1, <1>2, <1>9, MnemonicFields, InsnSlot DEF ShortOffset
  <2>4. [insn(m.class, m.op) EXCEPT !.dst = reg_(s, 1), !.offset = m.arg] \in Slot
    <3> DEFINE x == insn(m.class, m.op)
               r == reg_(s, 1)
               n == m.arg
    <3>1. x \in Slot /\ r \in Regs /\ n \in ShortOffset
      BY <1>3, <2>2, <2>3
    <3> HIDE DEF x, r, n, m
    <3>2. [x EXCEPT !.dst = r, !.offset = n] \in Slot
      BY <3>1 DEF Slot
    <3> QED
      BY <3>2 DEF x, r, n
  <2> QED
    BY <1>6, <1>7, <2>1, <2>2, <2>4 DEF ArithmeticInsn
<1>10. CASE m \in Unary
  <2> DEFINE x == [insn(m.class, m.op) EXCEPT !.dst = reg_(s, 1), !.imm = m.arg]
  <2>1. written(s) = UnaryInsn(m, s) /\ slots(m) = 1
    BY <1>1, <1>10, WrittenBy, Families DEF slots
  <2>2. reg_(s, 1) \in Regs
    BY <1>1, <1>3, <1>10, OperandTypes DEF REG
  <2>3. insn(m.class, m.op) \in Slot /\ m.arg \in Half32 /\ 1 \in Half32
    BY <1>1, <1>2, <1>10, MnemonicFields, InsnSlot DEF Half32, RegularOps
  <2>4. x \in Slot
    BY <2>2, <2>3 DEF Slot
  <2>5. /\ [x EXCEPT !.source = "REG"] \in Slot
        /\ [x EXCEPT !.source = "REG", !.src = reg_(s, 1), !.imm = 1] \in Slot
    <3> DEFINE r == reg_(s, 1)
    <3>1. x \in Slot /\ r \in Regs /\ 1 \in Half32
      BY <2>2, <2>3, <2>4
    <3> HIDE DEF x, r
    <3>2. [x EXCEPT !.source = "REG"] \in Slot
      BY <3>1 DEF Slot
    <3>3. [x EXCEPT !.source = "REG", !.src = r, !.imm = 1] \in Slot
      BY <3>1 DEF Slot
    <3> QED
      BY <3>2, <3>3 DEF r
  <2> QED
    BY <1>7, <2>1, <2>4, <2>5 DEF UnaryInsn
<1>11. CASE m \in AtomicOps
  <2> DEFINE x == mem_insn("STX", "ATOMIC", literal_size(m.arg), reg_(s, 1), reg_(s, 2), val16(s, 3))
  <2>1. written(s) = AtomicInsn(m, s) /\ slots(m) = 1
    BY <1>1, <1>11, WrittenBy, Families DEF slots
  <2>2. reg_(s, 1) \in Regs /\ reg_(s, 2) \in Regs /\ val16(s, 3) \in ShortOffset
    BY <1>1, <1>3, <1>5, <1>11, OperandTypes DEF REG, IMM
  <2>3. x \in Slot /\ m.op \in SimpleAtomics \union {"XCHG", "CMPXCHG"}
    BY <1>1, <1>8, <1>11, <2>2, MnemonicFields, MemSlot DEF MemClass
  <2>4. [x EXCEPT !.aop = m.op, !.fetch = (m.class = "fetch")] \in Slot
    <3> DEFINE o == m.op
               f == m.class = "fetch"
    <3>1. x \in Slot /\ o \in SimpleAtomics \union {"XCHG", "CMPXCHG"} /\ f \in BOOLEAN
      BY <2>3
    <3> HIDE DEF x, o, f
    <3>2. [x EXCEPT !.aop = o, !.fetch = f] \in Slot
      BY <3>1 DEF Slot
    <3> QED
      BY <3>2 DEF o, f
  <2> QED
    BY <1>7, <2>1, <2>4 DEF AtomicInsn
<1>12. CASE m \in Transfers
  <2>1. written(s) = TransferInsn(m, s) /\ slots(m) = 1
    BY <1>1, <1>12, WrittenBy, Families DEF slots
  <2>2. reg_(s, 1) \in Regs /\ reg_(s, 2) \in Regs /\ val16(s, 3) \in ShortOffset
    BY <1>1, <1>3, <1>5, <1>12, OperandTypes DEF REG, IMM
  <2>3. mem_insn(m.class, m.op, coded_size(m.arg), reg_(s, 1), reg_(s, 2), val16(s, 3)) \in Slot
    BY <1>1, <1>8, <1>12, <2>2, MnemonicFields, MemSlot DEF MemClass
  <2> QED
    BY <1>7, <2>1, <2>3 DEF TransferInsn
<1>13. CASE m \in Stores
  <2> DEFINE x == mem_insn("ST", "MEM", coded_size(m.arg), reg_(s, 1), 0, val16(s, 2))
  <2>1. written(s) = StoreInsn(m, s) /\ slots(m) = 1
    BY <1>1, <1>13, WrittenBy, Families DEF slots
  <2>2. reg_(s, 1) \in Regs /\ val16(s, 2) \in ShortOffset /\ val(s, 3) \in Half32 /\ 0 \in Regs
    BY <1>1, <1>3, <1>4, <1>5, <1>13, OperandTypes DEF REG, IMM, Regs
  <2>3. x \in Slot
    BY <1>1, <1>8, <1>13, <2>2, MnemonicFields, MemSlot DEF MemClass
  <2>4. [x EXCEPT !.imm = val(s, 3)] \in Slot
    BY <2>2, <2>3 DEF Slot
  <2> QED
    BY <1>7, <2>1, <2>4 DEF StoreInsn
<1>14. CASE m \in Wide
  <2> DEFINE x == mem_insn("LD", "IMM", "SIZE64", reg_(s, 1), IF m.family = "ld64" THEN 0 ELSE 1, 0)
             v == IF m.family = "ld64" THEN s.ops[2].val ELSE cut(s.ops[2].val, HalfMod)
  <2>1. written(s) = WideInsn(m, s) /\ slots(m) = 2
    BY <1>1, <1>14, WrittenBy, Families DEF slots
  <2>2. /\ reg_(s, 1) \in Regs /\ val(s, 2) \in Half32 /\ s.ops[2].val \in Int
        /\ 0 \in Regs /\ 1 \in Regs /\ 0 \in ShortOffset /\ "SIZE64" \in Size
    BY <1>1, <1>2, <1>3, <1>4, <1>14, OperandTypes DEF REG, IMM, Regs, ShortOffset, Size
  <2>3. x \in Slot
    BY <2>2, MemSlot
  <2>4. v \in Int
    <3>1. HalfMod \in Nat \ {0} /\ HalfMod % 2 = 0
      BY <1>2, HalfOK
    <3>2. cut(s.ops[2].val, HalfMod) \in -(HalfMod \div 2) .. (HalfMod \div 2) - 1
      BY <2>2, <3>1, CutRange
    <3> QED
      BY <1>2, <2>2, <3>2
  <2>5. (v \div HalfMod) % HalfMod \in Half32
    BY <1>2, <2>4 DEF Half32
  <2>6. /\ [x EXCEPT !.imm = val(s, 2)] \in Slot
        /\ [ZeroInsn EXCEPT !.imm = (v \div HalfMod) % HalfMod] \in Slot
    BY <2>2, <2>3, <2>5, ZeroSlot DEF Slot
  <2> QED
    BY <2>1, <2>6 DEF WideInsn
<1>15. CASE m \in PacketLoads
  <2>1. written(s) = PacketLoadInsn(m, s) /\ slots(m) = 1
    BY <1>1, <1>15, WrittenBy, Families DEF slots
  <2>2. m.arg \in Sizes /\ 0 \in Regs /\ 0 \in ShortOffset
    BY <1>1, <1>2, <1>15, MnemonicFields DEF Regs, ShortOffset
  <2>3. CASE m.op = "ABS"
    <3>1. val(s, 1) \in Half32
      BY <1>1, <1>4, <1>15, <2>3, OperandTypes DEF IMM
    <3>2. mem_insn("LD", "ABS", literal_size(m.arg), 0, 0, 0) \in Slot
      BY <1>8, <2>2, MemSlot
    <3>3. [mem_insn("LD", "ABS", literal_size(m.arg), 0, 0, 0) EXCEPT !.imm = val(s, 1)] \in Slot
      BY <3>1, <3>2 DEF Slot
    <3> QED
      BY <1>7, <2>1, <2>3, <3>3 DEF PacketLoadInsn
  <2>4. CASE m.op # "ABS"
    <3>1. reg_(s, 1) \in Regs /\ val(s, 2) \in Half32
      BY <1>1, <1>3, <1>4, <1>15, <2>4, OperandTypes DEF REG, IMM
    <3>2. mem_insn("LD", "IND", literal_size(m.arg), 0, reg_(s, 1), 0) \in Slot
      BY <1>8, <2>2, <3>1, MemSlot
    <3>3. [mem_insn("LD", "IND", literal_size(m.arg), 0, reg_(s, 1), 0) EXCEPT !.imm = val(s, 2)]
            \in Slot
      BY <3>1, <3>2 DEF Slot
    <3> QED
      BY <1>7, <2>1, <2>4, <3>3 DEF PacketLoadInsn
  <2> QED
    BY <2>3, <2>4
<1>16. CASE m \in Branches
  <2>1. written(s) = BranchInsn(m, s) /\ slots(m) = 1
    BY <1>1, <1>16, WrittenBy, Families DEF slots
  <2>2. /\ reg_(s, 1) \in Regs /\ s.ops[2].ty \in {"Register", "Immediate"}
        /\ val16(s, 3) \in ShortOffset
    BY <1>1, <1>3, <1>5, <1>16, OperandTypes DEF REG, IMM
  <2>3. insn(m.class, m.op) \in Slot
    BY <1>1, <1>16, MnemonicFields, InsnSlot
  <2>4. [insn(m.class, m.op) EXCEPT !.dst = reg_(s, 1), !.offset = val16(s, 3)] \in Slot
    BY <2>2, <2>3 DEF Slot
  <2> QED
    BY <1>6, <1>7, <2>1, <2>2, <2>4 DEF BranchInsn
<1>17. CASE m \in Jumps
  <2>1. written(s) = JumpInsn(m, s) /\ slots(m) = 1
    BY <1>1, <1>17, WrittenBy, Families DEF slots
  <2>2. val16(s, 1) \in ShortOffset /\ val(s, 1) \in Half32
    BY <1>1, <1>4, <1>5, <1>17, OperandTypes DEF IMM
  <2>3. insn(m.class, m.op) \in Slot
    BY <1>1, <1>17, MnemonicFields, InsnSlot
  <2>4. /\ [insn(m.class, m.op) EXCEPT !.offset = val16(s, 1)] \in Slot
        /\ [insn(m.class, m.op) EXCEPT !.imm = val(s, 1)] \in Slot
    BY <2>2, <2>3 DEF Slot
  <2> QED
    BY <1>7, <2>1, <2>4 DEF JumpInsn
<1>18. CASE m \in Calls
  <2>1. written(s) = CallInsn(m, s) /\ slots(m) = 1
    BY <1>1, <1>18, WrittenBy, Families DEF slots
  <2>2. val(s, 1) \in Half32 /\ 0 \in Regs /\ 1 \in Regs
    BY <1>1, <1>4, <1>18, OperandTypes DEF IMM, Regs
  <2>3. insn(m.class, m.op) \in Slot
    BY <1>1, <1>18, MnemonicFields, InsnSlot DEF JumpClass
  <2>4. [insn(m.class, m.op) EXCEPT !.imm = val(s, 1), !.src = IF m.family = "rel" THEN 1 ELSE 0]
          \in Slot
    <3> DEFINE x == insn(m.class, m.op)
               v == val(s, 1)
               r == IF m.family = "rel" THEN 1 ELSE 0
    <3>1. x \in Slot /\ v \in Half32 /\ r \in Regs
      BY <2>2, <2>3
    <3> HIDE DEF x, v, r
    <3>2. [x EXCEPT !.imm = v, !.src = r] \in Slot
      BY <3>1 DEF Slot
    <3> QED
      BY <3>2 DEF x, v, r
  <2> QED
    BY <1>7, <2>1, <2>4 DEF CallInsn
<1>19. CASE m = ExitOp
  <2>1. written(s) = <<insn(m.class, m.op)>> /\ slots(m) = 1
    BY <1>1, <1>19, WrittenBy, Families DEF slots
  <2>2. insn(m.class, m.op) \in Slot
    BY <1>1, <1>19, MnemonicFields, InsnSlot DEF JumpClass
  <2> QED
    BY <1>7, <2>1, <2>2
<1> QED
  BY <1>1, <1>9, <1>10, <1>11, <1>12, <1>13, <1>14, <1>15, <1>16, <1>17, <1>18, <1>19 DEF Mnemonics

-----------------------------------------------------------------------------
(***************************************************************************)
(* The statements, and the slots that all passes agree on: st[k] is the    *)
(* slot at which statement k begins, and st[Len(ast) + 1] the number of    *)
(* slots.  The parser has st[Len(ast) + 1] in offset and gives a label its *)
(* st[k]; the resolution has st[i] in pc, and the code generator has       *)
(* written st[i] slots when it comes to statement i.                       *)
(***************************************************************************)
Statements == Labels \union Instructions
Phases == {"parse", "deduce", "check", "typecheck", "codegen", "written", "error"}
Writing == phase \in {"codegen", "written"}

ShapeInv ==
  /\ phase \in Phases /\ expr \in Seq(Token) /\ ast \in Seq(Statements)
  /\ offset \in Nat /\ pc \in Nat /\ i \in 1 .. Len(ast) + 1
  /\ prog \in Seq(Slot) /\ at \in Seq(Nat)

(* No label is defined twice.                                              *)
LabelInv ==
  \A k, l \in DOMAIN ast :
    ast[k].ty = "Label" /\ ast[l].ty = "Label" /\ ast[k].id = ast[l].id => k = l

(* Where each pass begins, and what the checks before it have established. *)
PhaseInv ==
  /\ phase \in {"parse", "check", "typecheck"} => i = 1
  /\ phase = "parse" => pc = 0
  /\ ~Writing => prog = <<>> /\ at = <<>>
  /\ phase = "typecheck" \/ Writing => offset \in 1 .. MAX_INSNS
  /\ Writing => \A k \in DOMAIN ast : well_typed(ast[k])

taken(x) == IF x.ty = "Label" THEN 0 ELSE slots(x.ins)

Counted(st, stmts, n) ==
  /\ st \in [1 .. Len(stmts) + 1 -> Nat]
  /\ st[1] = 0 /\ st[Len(stmts) + 1] = n
  /\ \A k \in DOMAIN stmts : st[k + 1] = st[k] + taken(stmts[k])
  /\ \A k, l \in 1 .. Len(stmts) + 1 : k <= l => st[k] <= st[l]
  /\ \A k \in DOMAIN stmts : stmts[k].ty = "Label" => stmts[k].off = st[k]

(* A distance leads from the slot behind its instruction to its label.     *)
LeadsTo(st, stmts, k, op) ==
  \E l \in DOMAIN stmts :
    stmts[l].ty = "Label" /\ stmts[l].id = op.of /\ op.val = st[l] - st[k + 1]

Named(op) == op.ty = "Immediate" /\ op.of \in Name
Distances(st, stmts) ==
  \A k \in DOMAIN stmts, j \in 1 .. 3 :
    stmts[k].ty = "Instruction" /\ Named(stmts[k].ops[j]) => LeadsTo(st, stmts, k, stmts[k].ops[j])

(* The slots of the first Len(begins) statements are written.              *)
Generated(st, stmts, begins, slotted) ==
  /\ Len(slotted) = st[Len(begins) + 1]
  /\ \A k \in DOMAIN begins :
       /\ begins[k] = st[k]
       /\ stmts[k].ty = "Instruction" => slotted[st[k] + 1] = written(stmts[k])[1]

LayoutInv ==
  \E st \in [1 .. Len(ast) + 1 -> Nat] :
    /\ Counted(st, ast, offset) /\ Distances(st, ast)
    /\ phase = "deduce" => pc = st[i]
    /\ Writing => /\ Len(at) = IF phase = "codegen" THEN i - 1 ELSE Len(ast)
                  /\ Generated(st, ast, at, prog)

AssemblerInv == ShapeInv /\ LabelInv /\ PhaseInv /\ LayoutInv

(* A statement is a label or an instruction.                               *)
LEMMA StatementKinds ==
  ASSUME ShapeInv
  PROVE  /\ Len(ast) \in Nat /\ DOMAIN ast = 1 .. Len(ast)
         /\ \A k \in DOMAIN ast : ast[k] \in Labels \/ ast[k] \in Instructions
         /\ \A k \in DOMAIN ast : ast[k] \in Labels <=> ast[k].ty = "Label"
         /\ \A k \in DOMAIN ast : ast[k] \in Instructions <=> ast[k].ty = "Instruction"
BY DEF ShapeInv, Statements, Labels, Instructions

(* The slots at which statements begin.                                    *)
LEMMA BeginsTypes ==
  ASSUME ShapeInv
  PROVE  DOMAIN at = 1 .. Len(at) /\ \A k \in DOMAIN at : at[k] \in Nat
BY DEF ShapeInv

(* The four kinds of operands.                                             *)
LEMMA OperandKinds ==
  ASSUME NEW o \in Operands
  PROVE  /\ o.ty \in {"Empty", "Register", "Immediate", "Reference"}
         /\ o.ty = "Empty" => o = Empty
         /\ o.ty = "Reference" => o.id \in Name
BY DEF Operands, Empty

(* No statement takes more than two slots.                                 *)
LEMMA SlotsCounted ==
  ASSUME NEW x \in Statements
  PROVE  taken(x) \in {0, 1, 2}
BY DEF taken, slots

(* A statement that is read goes behind the slots counted so far.          *)
LEMMA LayoutGrows ==
  ASSUME ShapeInv, LayoutInv, NEW x \in Statements,
         phase = "parse", phase' = "parse",
         ast' = Append(ast, x), offset' = offset + taken(x),
         x.ty = "Label" => x.off = offset,
         x.ty = "Instruction" => \A j \in 1 .. 3 : x.ops[j] = Empty
  PROVE  LayoutInv'
<1>1. PICK st \in [1 .. Len(ast) + 1 -> Nat] : Counted(st, ast, offset) /\ Distances(st, ast)
  BY DEF LayoutInv
<1> DEFINE n == Len(ast)
           new == [k \in 1 .. n + 2 |-> IF k <= n + 1 THEN st[k] ELSE offset']
<1>2. /\ n \in Nat /\ DOMAIN ast = 1 .. n /\ DOMAIN ast' = 1 .. n + 1 /\ Len(ast') = n + 1
      /\ \A k \in 1 .. n : ast'[k] = ast[k]
      /\ ast'[n + 1] = x
  BY DEF ShapeInv
<1>3. offset \in Nat /\ offset' \in Nat /\ offset <= offset'
  <2>1. taken(x) \in Nat
    BY SlotsCounted
  <2> QED
    BY <2>1 DEF ShapeInv
<1>4. /\ new \in [1 .. n + 2 -> Nat] /\ new[n + 2] = offset'
      /\ \A k \in 1 .. n + 1 : new[k] = st[k]
      /\ new[1] = 0 /\ new[n + 1] = offset
  BY <1>1, <1>2, <1>3 DEF Counted
<1> HIDE DEF new
<1>5. Counted(new, ast', offset')
  <2>1. \A k \in DOMAIN ast' : new[k + 1] = new[k] + taken(ast'[k])
    <3> SUFFICES ASSUME NEW k \in DOMAIN ast' PROVE new[k + 1] = new[k] + taken(ast'[k])
      OBVIOUS
    <3>1. CASE k \in 1 .. n
      BY <1>1, <1>2, <1>4, <3>1 DEF Counted
    <3>2. CASE k = n + 1
      BY <1>2, <1>4, <3>2
    <3> QED
      BY <1>2, <3>1, <3>2
  <2>2. \A k, l \in 1 .. n + 2 : k <= l => new[k] <= new[l]
    <3> SUFFICES ASSUME NEW k \in 1 .. n + 2, NEW l \in 1 .. n + 2, k <= l PROVE new[k] <= new[l]
      OBVIOUS
    <3>1. CASE l <= n + 1
      BY <1>1, <1>2, <1>4, <3>1 DEF Counted
    <3>2. CASE l = n + 2 /\ k <= n + 1
      <4>1. new[k] <= offset
        BY <1>1, <1>2, <1>4, <3>2 DEF Counted
      <4> QED
        BY <1>2, <1>3, <1>4, <3>2, <4>1
    <3>3. CASE l = n + 2 /\ k = n + 2
      BY <1>3, <1>4, <3>3
    <3> QED
      BY <1>2, <3>1, <3>2, <3>3
  <2>3. \A k \in DOMAIN ast' : ast'[k].ty = "Label" => ast'[k].off = new[k]
    <3> SUFFICES ASSUME NEW k \in DOMAIN ast', ast'[k].ty = "Label" PROVE ast'[k].off = new[k]
      OBVIOUS
    <3>1. CASE k \in 1 .. n
      BY <1>1, <1>2, <1>4, <3>1 DEF Counted
    <3>2. CASE k = n + 1
      BY <1>2, <1>4, <3>2
    <3> QED
      BY <1>2, <3>1, <3>2
  <2> QED
    BY <1>2, <1>4, <2>1, <2>2, <2>3 DEF Counted
<1>6. Distances(new, ast')
  <2> SUFFICES ASSUME NEW k \in DOMAIN ast', NEW j \in 1 .. 3, ast'[k].ty = "Instruction",
                      Named(ast'[k].ops[j])
               PROVE  LeadsTo(new, ast', k, ast'[k].ops[j])
    BY DEF Distances
  <2>1. k \in 1 .. n
    <3>1. k = n + 1 => ast'[k].ops[j] = Empty
      BY <1>2
    <3> QED
      BY <1>2, <3>1 DEF Empty, Named
  <2> DEFINE op == ast[k].ops[j]
  <2>2. ast'[k].ops[j] = op
    BY <1>2, <2>1
  <2>3. LeadsTo(st, ast, k, op)
    BY <1>1, <1>2, <2>1, <2>2 DEF Distances
  <2> HIDE DEF op
  <2>4. PICK l \in DOMAIN ast : ast[l].ty = "Label" /\ ast[l].id = op.of /\ op.val = st[l] - st[k + 1]
    BY <2>3 DEF LeadsTo
  <2>5. /\ l \in DOMAIN ast' /\ ast'[l] = ast[l]
        /\ op.val = new[l] - new[k + 1]
    BY <1>2, <1>4, <2>1, <2>4
  <2>6. LeadsTo(new, ast', k, op)
    BY <2>4, <2>5 DEF LeadsTo
  <2> QED
    BY <2>2, <2>6
<1> QED
  BY <1>2, <1>4, <1>5, <1>6 DEF LayoutInv, Writing

(* Nothing is counted of a file that has not been read.                    *)
LEMMA InitAssembler ==
  ASSUME Init
  PROVE  AssemblerInv
<1>1. ShapeInv /\ LabelInv /\ PhaseInv
  BY FilesOK DEF Init, ShapeInv, LabelInv, PhaseInv, Phases, Writing
<1>2. LayoutInv
  <2> DEFINE st == [k \in 1 .. 1 |-> 0]
  <2>1. Len(ast) = 0 /\ DOMAIN ast = {} /\ ast = <<>> /\ phase = "parse"
    BY DEF Init
  <2>2. st \in [1 .. Len(ast) + 1 -> Nat] /\ Counted(st, ast, offset)
    BY <2>1 DEF Init, Counted
  <2>3. Distances(st, ast)
    BY <2>1 DEF Distances
  <2> QED
    BY <2>1, <2>2, <2>3 DEF LayoutInv, Writing
<1> QED
  BY <1>1, <1>2 DEF AssemblerInv

(* A step to another phase, or one that only reads a word, leaves all that *)
(* the passes have counted.                                                *)
LEMMA PhaseChanges ==
  ASSUME AssemblerInv, UNCHANGED <<ast, offset, i, pc, prog, at>>, expr' \in Seq(Token),
         \/ phase' = phase
         \/ ~Writing /\ phase' = "error"
         \/ phase = "parse" /\ phase' = "deduce"
         \/ phase = "check" /\ phase' = "typecheck" /\ offset \in 1 .. MAX_INSNS
         \/ /\ phase = "typecheck" /\ phase' = "codegen"
            /\ \A k \in DOMAIN ast : well_typed(ast[k])
  PROVE  AssemblerInv'
<1> USE DEF AssemblerInv
<1>1. ShapeInv'
  BY DEF ShapeInv, Phases
<1>2. LabelInv'
  BY DEF LabelInv
<1>3. PhaseInv'
  BY DEF PhaseInv, Writing
<1>4. LayoutInv'
  <2>1. PICK st \in [1 .. Len(ast) + 1 -> Nat] :
          /\ Counted(st, ast, offset) /\ Distances(st, ast)
          /\ phase = "deduce" => pc = st[i]
          /\ Writing => /\ Len(at) = IF phase = "codegen" THEN i - 1 ELSE Len(ast)
                        /\ Generated(st, ast, at, prog)
    BY DEF LayoutInv
  <2>2. phase' = "deduce" => pc' = st[i']
    BY <2>1 DEF PhaseInv, Counted
  <2>3. CASE Writing /\ phase' = phase
    BY <2>1, <2>2, <2>3 DEF LayoutInv, Writing
  <2>4. CASE phase = "typecheck" /\ phase' = "codegen"
    <3>1. i = 1 /\ prog = <<>> /\ at = <<>>
      BY <2>4 DEF PhaseInv, Writing
    <3>2. Len(at) = 0 /\ DOMAIN at = {} /\ Len(prog) = 0
      BY <3>1
    <3>3. Generated(st, ast, at, prog)
      BY <2>1, <3>2 DEF Generated, Counted
    <3> QED
      BY <2>1, <2>2, <2>4, <3>1, <3>2, <3>3 DEF LayoutInv, Writing
  <2>5. CASE phase' \notin {"codegen", "written"}
    BY <2>1, <2>2, <2>5 DEF LayoutInv, Writing
  <2> QED
    BY <2>3, <2>4, <2>5 DEF Writing
<1> QED
  BY <1>1, <1>2, <1>3, <1>4

(* The words of a file are tokens.                                         *)
LEMMA TokensRead ==
  ASSUME ShapeInv, expr # <<>>
  PROVE  Head(expr) \in Token /\ Tail(expr) \in Seq(Token)
BY DEF ShapeInv

(* A label is defined once, at the slots counted so far.                   *)
LEMMA ReadLabelKeeps ==
  ASSUME AssemblerInv, ReadLabel
  PROVE  AssemblerInv'
<1> USE DEF AssemblerInv
<1> DEFINE t == Next_token
           x == [ty |-> "Label", id |-> t.v, off |-> offset]
<1>1. t \in Token /\ expr' \in Seq(Token) /\ phase = "parse" /\ ~Writing
  BY TokensRead DEF ReadLabel, Read, Next_token, Writing
<1>2. CASE t.kind \notin {"name", "malformed"} \/ is_label(t.v)
  <2>1. Fail
    BY <1>2 DEF ReadLabel
  <2> QED
    BY <1>1, <2>1, PhaseChanges DEF Fail, Go
<1>3. CASE t.kind \in {"name", "malformed"} /\ ~is_label(t.v)
  <2>1. ast' = Append(ast, x) /\ UNCHANGED <<offset, i, pc, prog, at, phase>>
    BY <1>3 DEF ReadLabel
  <2>2. x \in Labels /\ x \in Statements /\ x.ty = "Label" /\ x.off = offset /\ taken(x) = 0
    <3>1. t.v \in Name
      BY <1>1, <1>3 DEF Token
    <3> QED
      BY <3>1 DEF Labels, Statements, ShapeInv, taken
  <2> HIDE DEF x, t
  <2>3. ShapeInv'
    BY <1>1, <2>1, <2>2 DEF ShapeInv, Phases
  <2>4. /\ DOMAIN ast = 1 .. Len(ast) /\ DOMAIN ast' = 1 .. Len(ast) + 1
        /\ \A k \in DOMAIN ast : ast'[k] = ast[k]
        /\ ast'[Len(ast) + 1] = x /\ Len(ast) \in Nat
    BY <2>1 DEF ShapeInv
  <2>5. LabelInv'
    <3>1. \A k \in DOMAIN ast : ast[k].ty = "Label" => ast[k].id # x.id
      BY <1>3 DEF is_label, x
    <3> QED
      BY <2>4, <3>1 DEF LabelInv
  <2>6. PhaseInv'
    BY <1>1, <2>1 DEF PhaseInv, Writing
  <2>7. LayoutInv'
    <3>1. offset' = offset + taken(x)
      BY <2>1, <2>2 DEF ShapeInv
    <3> QED
      BY <1>1, <2>1, <2>2, <3>1, LayoutGrows
  <2> QED
    BY <2>3, <2>5, <2>6, <2>7
<1> QED
  BY <1>2, <1>3

(* An instruction is read with its three places empty.                     *)
LEMMA ReadMnemonicKeeps ==
  ASSUME AssemblerInv, ReadMnemonic
  PROVE  AssemblerInv'
<1> USE DEF AssemblerInv
<1> DEFINE m == Next_token.v
           x == Statement(m)
<1>1. m \in Mnemonics /\ expr' \in Seq(Token) /\ phase = "parse" /\ ~Writing
  BY TokensRead DEF ReadMnemonic, Read, Next_token, Writing, Token
<1>2. /\ ast' = Append(ast, x) /\ offset' = offset + slots(m)
      /\ UNCHANGED <<i, pc, prog, at, phase>>
  BY DEF ReadMnemonic
<1>3. /\ x \in Instructions /\ x.ty = "Instruction" /\ taken(x) = slots(m)
      /\ \A j \in 1 .. 3 : x.ops[j] = Empty
  BY <1>1 DEF Statement, Instructions, Operands, taken
<1>4. x \in Statements /\ slots(m) \in Nat
  BY <1>3 DEF Statements, slots
<1> HIDE DEF m, x
<1>5. ShapeInv'
  BY <1>1, <1>2, <1>4 DEF ShapeInv, Phases
<1>6. LabelInv'
  <2>1. /\ DOMAIN ast = 1 .. Len(ast) /\ DOMAIN ast' = 1 .. Len(ast) + 1
        /\ \A k \in DOMAIN ast : ast'[k] = ast[k]
        /\ ast'[Len(ast) + 1] = x /\ Len(ast) \in Nat
    BY <1>2 DEF ShapeInv
  <2> QED
    BY <1>3, <2>1 DEF LabelInv
<1>7. PhaseInv'
  BY <1>1, <1>2 DEF PhaseInv, Writing
<1>8. LayoutInv'
  BY <1>1, <1>2, <1>3, <1>4, LayoutGrows
<1> QED
  BY <1>5, <1>6, <1>7, <1>8

(* A step that only fills in operands leaves the shape of the statements.  *)
OperandsChange ==
  /\ ast' \in Seq(Statements) /\ Len(ast') = Len(ast) /\ offset' = offset
  /\ \A k \in DOMAIN ast :
       /\ ast'[k].ty = ast[k].ty
       /\ ast[k].ty = "Label" => ast'[k] = ast[k]
       /\ ast[k].ty = "Instruction" => ast'[k].ins = ast[k].ins

(* ... and what the passes have counted of them.                           *)
LEMMA ShapeKept ==
  ASSUME ShapeInv, OperandsChange
  PROVE  /\ DOMAIN ast' = DOMAIN ast
         /\ LabelInv => LabelInv'
         /\ \A st : Counted(st, ast, offset) => Counted(st, ast', offset')
         /\ \A st, k, op : LeadsTo(st, ast, k, op) => LeadsTo(st, ast', k, op)
<1>1. DOMAIN ast' = DOMAIN ast
  BY DEF ShapeInv, OperandsChange
<1>2. LabelInv => LabelInv'
  BY <1>1 DEF LabelInv, OperandsChange
<1>3. \A k \in DOMAIN ast : taken(ast'[k]) = taken(ast[k])
  BY StatementKinds DEF OperandsChange, taken, Labels, Instructions
<1>4. ASSUME NEW st, Counted(st, ast, offset) PROVE Counted(st, ast', offset')
  BY <1>1, <1>3, <1>4 DEF Counted, OperandsChange
<1>5. ASSUME NEW st, NEW k, NEW op, LeadsTo(st, ast, k, op) PROVE LeadsTo(st, ast', k, op)
  BY <1>1, <1>5 DEF LeadsTo, OperandsChange
<1> QED
  BY <1>1, <1>2, <1>4, <1>5

(* The first free place is one of the three.                               *)
LEMMA FirstPlace ==
  ASSUME NEW S, S \subseteq 1 .. 3, S # {}
  PROVE  (CHOOSE j \in S : \A k \in S : j <= k) \in 1 .. 3
<1>1. \E j \in S : \A k \in S : j <= k
  <2>1. CASE 1 \in S
    BY <2>1
  <2>2. CASE 1 \notin S /\ 2 \in S
    BY <2>2
  <2>3. CASE 1 \notin S /\ 2 \notin S
    <3>1. \A k \in S : k = 3
      <4> SUFFICES ASSUME NEW k \in S PROVE k = 3
        OBVIOUS
      <4>1. k \in 1 .. 3 /\ k # 1 /\ k # 2
        BY <2>3
      <4> QED
        BY <4>1
    <3>2. PICK k \in S : TRUE
      OBVIOUS
    <3> QED
      BY <3>1, <3>2
  <2> QED
    BY <2>1, <2>2, <2>3
<1> QED
  BY <1>1

(* An operand fills a place of the last statement.                         *)
LEMMA ReadOperandKeeps ==
  ASSUME AssemblerInv, ReadOperand
  PROVE  AssemblerInv'
<1> USE DEF AssemblerInv
<1> DEFINE t == Next_token
           n == Len(ast)
           last == ast[n]
           place == CHOOSE j \in free_places(last) : \A k \in free_places(last) : j <= k
           Refused == \/ t.kind \in {"reserved", "overflow"}
                      \/ ast = <<>> \/ last.ty # "Instruction" \/ free_places(last) = {}
           o == Operand(t)
<1>1. /\ t \in Token /\ expr' \in Seq(Token) /\ phase = "parse" /\ ~Writing
      /\ t.kind \in {"register", "value", "overflow", "name", "reserved"}
  BY TokensRead DEF ReadOperand, Read, Next_token, Writing
<1>2. CASE Refused
  <2>1. Fail
    BY <1>2 DEF ReadOperand
  <2> QED
    BY <1>1, <2>1, PhaseChanges DEF Fail, Go
<1>3. CASE ~Refused
  <2>1. /\ ast' = [ast EXCEPT ![n].ops[place] = o]
        /\ UNCHANGED <<offset, i, pc, prog, at, phase>>
    BY <1>3 DEF ReadOperand
  <2>2. o \in Operands /\ ~Named(o)
    <3>1. CASE t.kind = "register"
      <4>1. t.v \in Regs
        BY <1>1, <3>1 DEF Token
      <4> QED
        BY <3>1, <4>1 DEF Operand, Operands, Named
    <3>2. CASE t.kind = "value"
      <4>1. t.v \in Int
        BY <1>1, <3>2 DEF Token
      <4>2. NoName \notin Name
        BY DEF Name
      <4> QED
        BY <3>2, <4>1, <4>2 DEF Operand, Operands, Named
    <3>3. CASE t.kind = "name"
      <4>1. t.v \in Name
        BY <1>1, <3>3 DEF Token
      <4> QED
        BY <3>3, <4>1 DEF Operand, Operands, Named
    <3> QED
      BY <1>1, <1>3, <3>1, <3>2, <3>3
  <2>3. n \in DOMAIN ast /\ last \in Instructions /\ n \in 1 .. n
    <3>1. n \in DOMAIN ast /\ n \in 1 .. n
      BY <1>3 DEF ShapeInv
    <3> QED
      BY <1>3, <3>1, StatementKinds
  <2>4. place \in 1 .. 3
    BY <1>3, FirstPlace DEF free_places
  <2> HIDE DEF o, place
  <2>5. /\ [last EXCEPT !.ops[place] = o] \in Instructions
        /\ [last EXCEPT !.ops[place] = o].ins = last.ins
        /\ [last EXCEPT !.ops[place] = o].ty = "Instruction"
        /\ \A j \in 1 .. 3 : [last EXCEPT !.ops[place] = o].ops[j] = IF j = place THEN o ELSE last.ops[j]
    BY <2>2, <2>3, <2>4 DEF Instructions
  <2>6. /\ ast' \in Seq(Statements) /\ Len(ast') = n
        /\ ast'[n] = [last EXCEPT !.ops[place] = o]
        /\ \A k \in DOMAIN ast : k # n => ast'[k] = ast[k]
    BY <2>1, <2>3, <2>5 DEF ShapeInv, Statements
  <2>7. OperandsChange
    BY <1>3, <2>1, <2>3, <2>5, <2>6 DEF OperandsChange
  <2>8. ShapeInv'
    BY <1>1, <2>1, <2>6 DEF ShapeInv
  <2>9. PhaseInv'
    BY <1>1, <2>1 DEF PhaseInv, Writing
  <2>10. LayoutInv'
    <3>1. PICK st \in [1 .. n + 1 -> Nat] : Counted(st, ast, offset) /\ Distances(st, ast)
      BY DEF LayoutInv
    <3>2. Distances(st, ast')
      <4> SUFFICES ASSUME NEW k \in DOMAIN ast', NEW j \in 1 .. 3, ast'[k].ty = "Instruction",
                          Named(ast'[k].ops[j])
                   PROVE  LeadsTo(st, ast', k, ast'[k].ops[j])
        BY DEF Distances
      <4>1. k \in DOMAIN ast /\ ast[k].ty = "Instruction"
        BY <2>7, ShapeKept DEF OperandsChange
      <4>2. ast'[k].ops[j] = ast[k].ops[j]
        <5>1. CASE k # n
          BY <2>6, <4>1, <5>1
        <5>2. CASE k = n
          BY <2>2, <2>5, <2>6, <5>2
        <5> QED
          BY <5>1, <5>2
      <4>3. LeadsTo(st, ast, k, ast[k].ops[j])
        BY <3>1, <4>1, <4>2 DEF Distances
      <4> QED
        BY <2>7, <4>2, <4>3, ShapeKept
    <3>3. Counted(st, ast', offset')
      BY <2>7, <3>1, ShapeKept
    <3> QED
      BY <1>1, <2>1, <2>6, <3>1, <3>2, <3>3 DEF LayoutInv, Writing
  <2> QED
    BY <2>7, <2>8, <2>9, <2>10, ShapeKept
<1> QED
  BY <1>2, <1>3

(* The distance is counted from the slot the pass has come to.             *)
LEMMA DeduceKeeps ==
  ASSUME AssemblerInv, Deduce
  PROVE  AssemblerInv'
<1> USE DEF AssemblerInv
<1>1. phase = "deduce" /\ UNCHANGED <<expr, offset, prog, at>> /\ ~Writing
  BY DEF Deduce, Writing
<1>2. PICK st \in [1 .. Len(ast) + 1 -> Nat] :
        /\ Counted(st, ast, offset) /\ Distances(st, ast)
        /\ pc = st[i]
  BY <1>1 DEF LayoutInv
<1>3. prog = <<>> /\ at = <<>>
  BY <1>1 DEF PhaseInv
<1>4. CASE i <= Len(ast) /\ ast[i].ty = "Label" /\ NextStatement /\ UNCHANGED <<ast, pc, phase>>
  <2>1. i \in DOMAIN ast /\ i' = i + 1 /\ i' \in 1 .. Len(ast) + 1
    BY <1>4 DEF ShapeInv, NextStatement
  <2>2. pc' = st[i'] /\ phase' = "deduce"
    BY <1>1, <1>2, <1>4, <2>1 DEF Counted, taken, ShapeInv
  <2>3. ShapeInv' /\ LabelInv' /\ PhaseInv'
    BY <1>1, <1>4, <2>1 DEF ShapeInv, LabelInv, PhaseInv, Writing
  <2>4. LayoutInv'
    BY <1>1, <1>2, <1>4, <2>2 DEF LayoutInv, Writing
  <2> QED
    BY <2>3, <2>4
<1>5. CASE /\ i <= Len(ast) /\ ast[i].ty = "Instruction"
           /\ \A j \in 1 .. 3 : ast[i].ops[j].ty = "Reference" => labelled(ast[i].ops[j].id) # {}
           /\ ast' = [ast EXCEPT ![i].ops = [j \in 1 .. 3 |-> resolved(@[j], ast[i])]]
           /\ pc' = behind(ast[i])
           /\ NextStatement /\ UNCHANGED phase
  <2> DEFINE s == ast[i]
             ops == [j \in 1 .. 3 |-> resolved(s.ops[j], s)]
  <2>1. i \in DOMAIN ast /\ i' = i + 1 /\ i' \in 1 .. Len(ast) + 1 /\ s \in Instructions
    BY <1>5, StatementKinds DEF ShapeInv, NextStatement
  <2>2. behind(s) = st[i + 1] /\ behind(s) \in Nat
    <3>1. st[i + 1] = st[i] + taken(s)
      BY <1>2, <2>1 DEF Counted
    <3>2. taken(s) = slots(s.ins) /\ slots(s.ins) \in Nat
      BY <1>5 DEF taken, slots
    <3> QED
      BY <1>2, <3>1, <3>2 DEF behind, ShapeInv
  <2>3. \A j \in 1 .. 3 : /\ ops[j] \in Operands
                          /\ Named(ops[j]) => LeadsTo(st, ast, i, ops[j])
    <3> SUFFICES ASSUME NEW j \in 1 .. 3
                 PROVE  /\ resolved(s.ops[j], s) \in Operands
                        /\ Named(resolved(s.ops[j], s)) => LeadsTo(st, ast, i, resolved(s.ops[j], s))
      OBVIOUS
    <3> DEFINE op == s.ops[j]
    <3>1. op \in Operands
      BY <2>1 DEF Instructions
    <3>2. CASE op.ty # "Reference"
      <4>1. resolved(op, s) = op
        BY <3>2 DEF resolved
      <4> QED
        BY <1>2, <1>5, <2>1, <3>1, <4>1 DEF Distances
    <3>3. CASE op.ty = "Reference"
      <4> DEFINE l == CHOOSE k \in labelled(op.id) : TRUE
                 d == ast[l].off - behind(s)
      <4>1. l \in labelled(op.id)
        BY <1>5, <3>3
      <4>2. l \in DOMAIN ast /\ ast[l].ty = "Label" /\ ast[l].id = op.id
        BY <4>1 DEF labelled
      <4>3. ast[l].off = st[l] /\ ast[l].off \in Nat
        BY <1>2, <4>2, StatementKinds DEF Counted, Labels
      <4>4. resolved(op, s) = [ty |-> "Immediate", of |-> op.id, val |-> d]
        BY <3>3 DEF resolved
      <4>5. d = st[l] - st[i + 1] /\ d \in Int
        BY <2>2, <4>3
      <4>6. op.id \in Name
        BY <3>1, <3>3, OperandKinds
      <4> HIDE DEF l, d
      <4>7. resolved(op, s) \in Operands
        BY <4>4, <4>5, <4>6 DEF Operands
      <4>8. LeadsTo(st, ast, i, resolved(op, s))
        BY <4>2, <4>4, <4>5 DEF LeadsTo
      <4> QED
        BY <4>7, <4>8
    <3> QED
      BY <3>2, <3>3
  <2>4. ast' = [ast EXCEPT ![i].ops = ops]
    BY <1>5
  <2>5. ops \in [1 .. 3 -> Operands]
    BY <2>3
  <2> HIDE DEF ops
  <2>6. /\ [s EXCEPT !.ops = ops] \in Instructions
        /\ [s EXCEPT !.ops = ops].ins = s.ins
        /\ [s EXCEPT !.ops = ops].ops = ops
        /\ [s EXCEPT !.ops = ops].ty = "Instruction"
    BY <2>1, <2>5 DEF Instructions
  <2>7. /\ ast' \in Seq(Statements) /\ Len(ast') = Len(ast)
        /\ ast'[i] = [s EXCEPT !.ops = ops]
        /\ \A k \in DOMAIN ast : k # i => ast'[k] = ast[k]
    BY <2>1, <2>4, <2>6 DEF ShapeInv, Statements
  <2>8. OperandsChange
    BY <1>1, <1>5, <2>1, <2>6, <2>7 DEF OperandsChange
  <2>9. ShapeInv'
    BY <1>1, <1>5, <2>1, <2>2, <2>7 DEF ShapeInv
  <2>10. PhaseInv'
    BY <1>1, <1>3, <1>5 DEF PhaseInv, Writing
  <2>11. LayoutInv'
    <3>1. Distances(st, ast')
      <4> SUFFICES ASSUME NEW k \in DOMAIN ast', NEW j \in 1 .. 3, ast'[k].ty = "Instruction",
                          Named(ast'[k].ops[j])
                   PROVE  LeadsTo(st, ast', k, ast'[k].ops[j])
        BY DEF Distances
      <4>1. k \in DOMAIN ast /\ ast[k].ty = "Instruction"
        BY <2>8, ShapeKept DEF OperandsChange
      <4>2. LeadsTo(st, ast, k, ast'[k].ops[j])
        <5>1. CASE k # i
          BY <1>2, <2>7, <4>1, <5>1 DEF Distances
        <5>2. CASE k = i
          BY <2>3, <2>6, <2>7, <5>2
        <5> QED
          BY <5>1, <5>2
      <4> QED
        BY <2>8, <4>2, ShapeKept
    <3>2. Counted(st, ast', offset')
      BY <1>2, <2>8, ShapeKept
    <3>3. pc' = st[i']
      BY <1>5, <2>1, <2>2
    <3> QED
      BY <1>1, <1>5, <2>7, <3>1, <3>2, <3>3 DEF LayoutInv, Writing
  <2> QED
    BY <2>8, <2>9, <2>10, <2>11, ShapeKept
<1>6. CASE EndOfPass("check") /\ UNCHANGED <<ast, pc>>
  <2>1. phase' = "check" /\ i' = 1 /\ i' \in 1 .. Len(ast') + 1
    BY <1>6 DEF EndOfPass, Go, ShapeInv
  <2>2. ShapeInv' /\ LabelInv' /\ PhaseInv'
    BY <1>1, <1>3, <1>6, <2>1 DEF ShapeInv, LabelInv, PhaseInv, Writing, Phases
  <2>3. LayoutInv'
    BY <1>1, <1>2, <1>6, <2>1 DEF LayoutInv, Writing
  <2> QED
    BY <2>2, <2>3
<1> QED
  BY <1>4, <1>5, <1>6 DEF Deduce

(* A reference to no label stops the assembler.                            *)
LEMMA UndefinedIdentifierKeeps ==
  ASSUME AssemblerInv, UndefinedIdentifier
  PROVE  AssemblerInv'
<1>1. /\ ~Writing /\ phase' = "error" /\ UNCHANGED <<expr, ast, offset, i, pc, prog, at>>
  BY DEF UndefinedIdentifier, Fail, Go, Writing
<1>2. expr' \in Seq(Token)
  BY <1>1 DEF AssemblerInv, ShapeInv
<1> QED
  BY <1>1, <1>2, PhaseChanges

(* The checks, the ends of passes and the words passed over.               *)
LEMMA OtherPhasesKeep ==
  ASSUME AssemblerInv, SkipWord \/ EndOfFile \/ check_off \/ typechecker \/ Stop \/ UNCHANGED vars
  PROVE  AssemblerInv'
<1>1. UNCHANGED <<ast, offset, i, pc, prog, at>>
  BY DEF SkipWord, EndOfFile, check_off, typechecker, Stop, vars
<1>2. expr' \in Seq(Token)
  <2>1. CASE SkipWord
    BY <2>1, TokensRead DEF SkipWord, Read, AssemblerInv
  <2>2. CASE EndOfFile \/ check_off \/ typechecker \/ Stop \/ UNCHANGED vars
    BY <2>2 DEF EndOfFile, check_off, typechecker, Stop, vars, AssemblerInv, ShapeInv
  <2> QED
    BY <2>1, <2>2
<1>3. \/ phase' = phase
      \/ ~Writing /\ phase' = "error"
      \/ phase = "parse" /\ phase' = "deduce"
      \/ phase = "check" /\ phase' = "typecheck" /\ offset \in 1 .. MAX_INSNS
      \/ /\ phase = "typecheck" /\ phase' = "codegen"
         /\ \A k \in DOMAIN ast : well_typed(ast[k])
  BY DEF SkipWord, EndOfFile, check_off, typechecker, Stop, vars, Go, Writing
<1> QED
  BY <1>1, <1>2, <1>3, PhaseChanges

(* One statement is written: at its slot, behind all those before it.      *)
LEMMA CodegenKeeps ==
  ASSUME AssemblerInv, codegen
  PROVE  AssemblerInv'
<1> USE DEF AssemblerInv
<1>1. phase = "codegen" /\ UNCHANGED <<expr, ast, offset, pc>> /\ Writing
  BY DEF codegen, Writing
<1>2. PICK st \in [1 .. Len(ast) + 1 -> Nat] :
        /\ Counted(st, ast, offset) /\ Distances(st, ast)
        /\ Len(at) = i - 1 /\ Generated(st, ast, at, prog)
  BY <1>1 DEF LayoutInv
<1>3. LabelInv'
  BY <1>1 DEF LabelInv
<1>4. CASE /\ i <= Len(ast)
           /\ prog' = IF ast[i].ty = "Label" THEN prog ELSE prog \o written(ast[i])
           /\ at' = Append(at, Len(prog))
           /\ NextStatement /\ UNCHANGED phase
  <2>1. i \in DOMAIN ast /\ i' = i + 1 /\ i' \in 1 .. Len(ast) + 1
    BY <1>4 DEF ShapeInv, NextStatement
  <2>2. /\ Len(at') = i /\ DOMAIN at = 1 .. i - 1 /\ DOMAIN at' = 1 .. i /\ at'[i] = Len(prog)
        /\ \A k \in 1 .. i - 1 : at'[k] = at[k]
        /\ Len(prog) = st[i] /\ Len(prog) \in Nat /\ at' \in Seq(Nat)
    <3>1. i \in Nat /\ Len(at) \in Nat /\ Len(at) + 1 = i /\ at \in Seq(Nat) /\ DOMAIN at = 1 .. Len(at)
      BY <1>2 DEF ShapeInv
    <3>2. Len(prog) = st[i] /\ Len(prog) \in Nat
      BY <1>2, <3>1 DEF Generated, ShapeInv
    <3>3. at' = Append(at, Len(prog))
      BY <1>4
    <3>4. DOMAIN at = 1 .. i - 1
      BY <3>1
    <3> QED
      BY <3>1, <3>2, <3>3, <3>4
  <2>3. /\ prog' \in Seq(Slot) /\ Len(prog') = st[i + 1]
        /\ \A n \in 1 .. Len(prog) : prog'[n] = prog[n]
        /\ ast[i].ty = "Instruction" => prog'[st[i] + 1] = written(ast[i])[1]
    <3>1. CASE ast[i].ty = "Label"
      BY <1>2, <1>4, <2>1, <2>2, <3>1 DEF ShapeInv, Counted, taken
    <3>2. CASE ast[i].ty # "Label"
      <4> DEFINE w == written(ast[i])
      <4>1. ast[i] \in Instructions /\ well_typed(ast[i])
        BY <1>1, <2>1, <3>2, StatementKinds DEF PhaseInv
      <4>2. w \in Seq(Slot) /\ Len(w) = slots(ast[i].ins)
        BY <4>1, WrittenSlots
      <4>3. Len(w) \in {1, 2} /\ st[i + 1] = st[i] + Len(w)
        BY <1>2, <2>1, <3>2, <4>2 DEF slots, Counted, taken
      <4> HIDE DEF w
      <4>4. prog' = prog \o w /\ prog \in Seq(Slot)
        BY <1>4, <3>2 DEF ShapeInv, w
      <4>5. /\ prog' \in Seq(Slot) /\ Len(prog') = Len(prog) + Len(w)
            /\ \A n \in 1 .. Len(prog) : prog'[n] = prog[n]
            /\ prog'[Len(prog) + 1] = w[1]
        BY <4>2, <4>3, <4>4
      <4> QED
        BY <2>2, <4>3, <4>5 DEF w
    <3> QED
      BY <3>1, <3>2
  <2>4. ShapeInv'
    BY <1>1, <1>4, <2>1, <2>2, <2>3 DEF ShapeInv
  <2>5. PhaseInv'
    BY <1>1, <1>4 DEF PhaseInv, Writing
  <2>6. Generated(st, ast, at', prog')
    <3> SUFFICES ASSUME NEW k \in 1 .. i
                 PROVE  /\ at'[k] = st[k]
                        /\ ast[k].ty = "Instruction" => prog'[st[k] + 1] = written(ast[k])[1]
      BY <2>2, <2>3 DEF Generated
    <3>1. CASE k = i
      BY <2>2, <2>3, <3>1
    <3>2. CASE k < i
      <4>1. /\ k \in DOMAIN at /\ k \in DOMAIN ast /\ k + 1 \in 1 .. Len(ast) + 1
            /\ k + 1 <= i /\ i \in 1 .. Len(ast) + 1
        <5>1. Len(ast) \in Nat /\ DOMAIN ast = 1 .. Len(ast) /\ i \in Nat
          BY DEF ShapeInv
        <5>2. i <= Len(ast)
          BY <2>1, <5>1
        <5> QED
          BY <2>2, <3>2, <5>1, <5>2
      <4>2. ast[k].ty = "Instruction" => st[k] + 1 \in 1 .. Len(prog)
        <5>1. st[k + 1] = st[k] + taken(ast[k]) /\ st[k + 1] <= st[i] /\ st[k] \in Nat
          <6>1. st[k + 1] = st[k] + taken(ast[k]) /\ st[k + 1] <= st[i]
            BY <1>2, <4>1 DEF Counted
          <6>2. k \in 1 .. Len(ast) + 1
            BY <4>1 DEF ShapeInv
          <6> QED
            BY <6>1, <6>2
        <5>2. ast[k].ty = "Instruction" => taken(ast[k]) \in {1, 2}
          BY DEF taken, slots
        <5>3. st[i] \in Nat /\ st[i] = Len(prog)
          BY <2>2
        <5> QED
          BY <5>1, <5>2, <5>3
      <4> QED
        BY <1>2, <2>2, <2>3, <3>2, <4>1, <4>2 DEF Generated
    <3> QED
      BY <2>1, <3>1, <3>2 DEF ShapeInv
  <2>7. LayoutInv'
    <3>1. phase' = "codegen" /\ Len(at') = i' - 1 /\ ast' = ast /\ offset' = offset
      BY <1>1, <1>4, <2>1, <2>2 DEF ShapeInv
    <3> QED
      BY <1>2, <2>6, <3>1 DEF LayoutInv, Writing
  <2> QED
    BY <1>3, <2>4, <2>5, <2>7
<1>5. CASE EndOfPass("written") /\ UNCHANGED <<prog, at>>
  <2>1. phase' = "written" /\ i' = 1 /\ i' \in 1 .. Len(ast') + 1 /\ i = Len(ast) + 1
    BY <1>5 DEF EndOfPass, Go, ShapeInv
  <2>2. ShapeInv' /\ PhaseInv'
    BY <1>1, <1>5, <2>1 DEF ShapeInv, PhaseInv, Writing, Phases
  <2>3. Len(at) = Len(ast)
    BY <1>2, <2>1 DEF ShapeInv
  <2>4. LayoutInv'
    BY <1>1, <1>2, <1>5, <2>1, <2>3 DEF LayoutInv, Writing
  <2> QED
    BY <1>3, <2>2, <2>4
<1> QED
  BY <1>4, <1>5 DEF codegen

(* The invariant, from Init and every action of Next.                      *)
THEOREM AssemblerInvariant == Spec => []AssemblerInv
<1>1. Init => AssemblerInv
  BY InitAssembler
<1>2. AssemblerInv /\ [Next]_vars => AssemblerInv'
  <2> SUFFICES ASSUME AssemblerInv, [Next]_vars
               PROVE  AssemblerInv'
    OBVIOUS
  <2>1. CASE ReadLabel
    BY <2>1, ReadLabelKeeps
  <2>2. CASE ReadMnemonic
    BY <2>2, ReadMnemonicKeeps
  <2>3. CASE ReadOperand
    BY <2>3, ReadOperandKeeps
  <2>4. CASE Deduce
    BY <2>4, DeduceKeeps
  <2>5. CASE UndefinedIdentifier
    BY <2>5, UndefinedIdentifierKeeps
  <2>6. CASE codegen
    BY <2>6, CodegenKeeps
  <2>7. CASE SkipWord \/ EndOfFile \/ check_off \/ typechecker \/ Stop \/ UNCHANGED vars
    BY <2>7, OtherPhasesKeep
  <2> QED
    BY <2>1, <2>2, <2>3, <2>4, <2>5, <2>6, <2>7 DEF Next
<1> QED
  BY <1>1, <1>2, PTL DEF Spec

-----------------------------------------------------------------------------
(* The code generator stays inside its array: what it has written is what  *)
(* the parser counted of the statements behind it, and the whole count was *)
(* held against the length of the array before.                            *)
THEOREM SlotsHeld == Spec => []ArrayHolds
<1>1. AssemblerInv => ArrayHolds
  <2> SUFFICES ASSUME AssemblerInv, Writing PROVE ArrayHolds
    BY DEF ArrayHolds, Writing
  <2>1. PICK st \in [1 .. Len(ast) + 1 -> Nat] :
          /\ Counted(st, ast, offset) /\ Generated(st, ast, at, prog)
          /\ Len(at) = IF phase = "codegen" THEN i - 1 ELSE Len(ast)
    BY DEF AssemblerInv, LayoutInv
  <2>2. offset \in 1 .. MAX_INSNS /\ MAX_INSNS \in Nat
    BY WidthsOK DEF AssemblerInv, PhaseInv
  <2>3. Len(at) + 1 \in 1 .. Len(ast) + 1 /\ Len(ast) + 1 \in 1 .. Len(ast) + 1
    BY <2>1 DEF AssemblerInv, ShapeInv
  <2>4. st[Len(at) + 1] <= offset /\ st[Len(at) + 1] \in Nat
    <3>1. Len(at) + 1 <= Len(ast) + 1
      BY <2>3 DEF AssemblerInv, ShapeInv
    <3> QED
      BY <2>1, <2>3, <3>1 DEF Counted
  <2> QED
    BY <2>1, <2>2, <2>4 DEF ArrayHolds, Generated, Counted, Writing
<1> QED
  BY <1>1, AssemblerInvariant, PTL

(* No field of a slot comes from an operand that is missing or of the      *)
(* wrong kind: every statement the type checker passes is written with     *)
(* fields in range.                                                        *)
THEOREM OperandsAreThere == Spec => []FieldsRead
<1>1. AssemblerInv => FieldsRead
  <2> SUFFICES ASSUME AssemblerInv, NEW k \in DOMAIN prog
               PROVE  /\ prog[k].dst \in Regs /\ prog[k].src \in Regs
                      /\ prog[k].imm \in Half32 /\ prog[k].offset < HalfMod
    BY DEF FieldsRead
  <2>1. prog[k] \in Slot
    BY DEF AssemblerInv, ShapeInv
  <2> QED
    BY <2>1 DEF Slot, ShortOffset
<1> QED
  BY <1>1, AssemblerInvariant, PTL

(* What the slot of a branch or a jump says of its distance.               *)
LEMMA BranchSlot ==
  ASSUME NEW s \in Instructions, well_typed(s), s.ins \in Branches
  PROVE  LET x == written(s)[1]
         IN  x.offset = val16(s, 3) /\ x.code # "JA" /\ s.ops[3].ty = "Immediate"
<1> DEFINE m == s.ins
           b == insn(m.class, m.op)
           n == val16(s, 3)
           y == [b EXCEPT !.dst = reg_(s, 1), !.offset = n]
<1>1. m \in Mnemonics
  BY DEF Instructions
<1>2. written(s) = <<with_second(y, s)>>
  BY <1>1, WrittenBy DEF BranchInsn
<1>3. s.ops[3].ty = "Immediate"
  BY <1>1, OperandTypes DEF well_typed, IMM, Instructions
<1>4. b \in Slot /\ b.code = m.op /\ m.op \in BranchOps
  <2>1. m.class \in JumpClass /\ m.op \in BranchOps
    BY <1>1, MnemonicFields
  <2>2. IsInsn(b, m.class, m.op)
    BY <2>1, InsnFields
  <2> QED
    BY <2>1, <2>2 DEF IsInsn
<1> HIDE DEF b, n
<1>5. y.offset = n /\ y.code = b.code /\ DOMAIN y = DOMAIN b
  BY <1>4 DEF Slot
<1> HIDE DEF y
<1>6. with_second(y, s).offset = y.offset /\ with_second(y, s).code = y.code
  BY <1>4, <1>5 DEF with_second, Slot
<1> QED
  BY <1>2, <1>3, <1>4, <1>5, <1>6 DEF n, BranchOps

(* The same of jumps, which have no other number.                          *)
LEMMA JumpSlot ==
  ASSUME NEW s \in Instructions, well_typed(s), s.ins \in Jumps
  PROVE  LET x == written(s)[1]
         IN  /\ s.ins.family = "ja" => x.class = "JMP" /\ x.offset = val16(s, 1)
             /\ s.ins.family = "jal" => x.class = "JMP32" /\ x.code = "JA" /\ x.imm = val(s, 1)
             /\ s.ops[1].ty = "Immediate" /\ s.ops[2].ty # "Immediate" /\ s.ops[3].ty # "Immediate"
<1> DEFINE m == s.ins
           b == insn(m.class, m.op)
<1>1. m \in Mnemonics
  BY DEF Instructions
<1>2. written(s) = JumpInsn(m, s)
  BY <1>1, WrittenBy
<1>3. /\ m.family = "ja" => m.class = "JMP" /\ m.arg = 16
      /\ m.family = "jal" => m.class = "JMP32" /\ m.op = "JA" /\ m.arg = 32
  BY DEF Jumps, Mnemonic
<1>4. s.ops[1].ty \in IMM /\ s.ops[2].ty \in NONE /\ s.ops[3].ty \in NONE
  BY <1>1, OperandTypes DEF well_typed, Instructions
<1>5. b \in Slot /\ b.class = m.class /\ b.code = m.op
  <2>1. m.class \in JumpClass /\ m.op = "JA"
    BY <1>1, MnemonicFields
  <2>2. IsInsn(b, m.class, m.op)
    BY <2>1, InsnFields
  <2> QED
    BY <2>2 DEF IsInsn
<1> HIDE DEF b
<1>6. \A n : /\ [b EXCEPT !.offset = n].class = b.class /\ [b EXCEPT !.offset = n].offset = n
             /\ [b EXCEPT !.imm = n].class = b.class /\ [b EXCEPT !.imm = n].code = b.code
             /\ [b EXCEPT !.imm = n].imm = n
  BY <1>5 DEF Slot
<1>7. ASSUME m.family = "ja"
      PROVE  written(s)[1].class = "JMP" /\ written(s)[1].offset = val16(s, 1)
  <2>1. written(s)[1] = [b EXCEPT !.offset = val16(s, 1)]
    BY <1>2, <1>3, <1>7 DEF JumpInsn, b
  <2> QED
    BY <1>3, <1>5, <1>6, <1>7, <2>1
<1>8. ASSUME m.family = "jal"
      PROVE  written(s)[1].class = "JMP32" /\ written(s)[1].code = "JA" /\ written(s)[1].imm = val(s, 1)
  <2>1. written(s)[1] = [b EXCEPT !.imm = val(s, 1)]
    BY <1>2, <1>3, <1>8 DEF JumpInsn, b
  <2> QED
    BY <1>3, <1>5, <1>6, <1>8, <2>1
<1> QED
  BY <1>4, <1>7, <1>8 DEF IMM, NONE

(* A branch or jump whose field can hold the distance to its label leads   *)
(* to the first slot behind that label: the parser, the resolution and the *)
(* code generator have counted the same slots, and cutting a distance that *)
(* is in range to the width of its field does not change it.               *)
THEOREM LabelsAreReached == Spec => []LabelsReached
<1>1. AssemblerInv => LabelsReached
  <2> SUFFICES ASSUME AssemblerInv, phase = "written",
                      NEW k \in DOMAIN ast, NEW l \in DOMAIN ast, ast[l].ty = "Label",
                      ast[k].ty = "Instruction", ast[k].ins \in Branches \union Jumps,
                      NEW j \in 1 .. 3, ast[k].ops[j].ty = "Immediate", ast[k].ops[j].of = ast[l].id,
                      j = 3 \/ ast[k].ins \in Jumps,
                      at[l] - (at[k] + 1) \in -reach(ast[k].ins) .. reach(ast[k].ins) - 1
               PROVE  target(k) = at[l]
    BY DEF LabelsReached
  <2> DEFINE s == ast[k]
             d == at[l] - (at[k] + 1)
             x == prog[at[k] + 1]
  <2>1. PICK st \in [1 .. Len(ast) + 1 -> Nat] :
          /\ Counted(st, ast, offset) /\ Distances(st, ast) /\ Generated(st, ast, at, prog)
          /\ Len(at) = Len(ast)
    BY DEF AssemblerInv, LayoutInv, Writing
  <2>2. /\ s \in Instructions /\ well_typed(s) /\ s.ins \in Mnemonics
        /\ ast[l] \in Labels /\ ast[l].id \in Name
    <3>1. s \in Instructions /\ ast[l] \in Labels
      BY StatementKinds DEF AssemblerInv
    <3> QED
      BY <3>1 DEF AssemblerInv, PhaseInv, Writing, Instructions, Labels
  <2>3. k \in DOMAIN at /\ l \in DOMAIN at /\ at[k] = st[k] /\ at[l] = st[l] /\ x = written(s)[1]
    <3>1. DOMAIN at = DOMAIN ast
      BY <2>1, BeginsTypes, StatementKinds DEF AssemblerInv
    <3> QED
      BY <2>1, <3>1 DEF Generated
  <2>4. at[k] \in Nat /\ at[l] \in Nat /\ d \in Int
    <3>1. at[k] \in Nat /\ at[l] \in Nat
      BY <2>3, BeginsTypes DEF AssemblerInv
    <3> QED
      BY <3>1
  <2>5. st[k + 1] = at[k] + 1
    <3>1. st[k + 1] = st[k] + taken(s)
      BY <2>1 DEF Counted
    <3>2. s.ins.family \in {"branch", "ja", "jal"}
      BY <2>2, Families
    <3>3. taken(s) = 1
      BY <3>2 DEF taken, slots
    <3> QED
      BY <2>3, <3>1, <3>3
  <2>6. s.ops[j].val = d
    <3>1. Named(s.ops[j])
      BY <2>2 DEF Named
    <3>2. LeadsTo(st, ast, k, s.ops[j])
      BY <2>1, <3>1 DEF Distances
    <3>3. PICK n \in DOMAIN ast : /\ ast[n].ty = "Label" /\ ast[n].id = s.ops[j].of
                                  /\ s.ops[j].val = st[n] - st[k + 1]
      BY <3>2 DEF LeadsTo
    <3>4. n = l
      BY <3>3 DEF AssemblerInv, LabelInv
    <3> QED
      BY <2>3, <2>5, <3>3, <3>4
  <2>7. OffMod \in Nat \ {0} /\ OffMod % 2 = 0 /\ HalfMod \in Nat \ {0} /\ HalfMod % 2 = 0
    BY WidthsOK, HalfOK
  <2>8. CASE s.ins \in Branches
    <3>1. j = 3 /\ reach(s.ins) = OffMod \div 2
      BY <2>2, <2>8, Families DEF reach
    <3>2. cut(d, OffMod) = d
      BY <2>4, <2>7, <3>1, CutSmall
    <3>3. val16(s, 3) = d
      BY <2>6, <3>1, <3>2 DEF val16
    <3>4. x.offset = d /\ x.code # "JA"
      BY <2>2, <2>3, <2>8, <3>3, BranchSlot
    <3> QED
      BY <2>4, <3>4 DEF target
  <2>9. CASE s.ins \in Jumps
    <3>1. j = 1
      BY <2>2, <2>9, JumpSlot
    <3>2. CASE s.ins.family = "ja"
      <4>1. reach(s.ins) = OffMod \div 2
        BY <3>2 DEF reach
      <4>2. cut(d, OffMod) = d
        BY <2>4, <2>7, <4>1, CutSmall
      <4>3. val16(s, 1) = d
        BY <2>6, <3>1, <4>2 DEF val16
      <4>4. x.offset = d /\ x.class = "JMP"
        BY <2>2, <2>3, <2>9, <3>2, <4>3, JumpSlot
      <4> QED
        BY <2>4, <4>4 DEF target
    <3>3. CASE s.ins.family = "jal"
      <4>1. reach(s.ins) = HalfMod \div 2
        BY <3>3 DEF reach
      <4>2. cut(d % HalfMod, HalfMod) = d
        BY <2>4, <2>7, <4>1, CutSmall
      <4>3. val(s, 1) = d % HalfMod
        BY <2>6, <3>1 DEF val
      <4>4. x.class = "JMP32" /\ x.code = "JA" /\ x.imm = d % HalfMod
        BY <2>2, <2>3, <2>9, <3>3, <4>3, JumpSlot
      <4> QED
        BY <2>4, <4>2, <4>4 DEF target
    <3> QED
      BY <2>2, <2>9, <3>2, <3>3, Families
  <2> QED
    BY <2>8, <2>9
<1> QED
  BY <1>1, AssemblerInvariant, PTL

-----------------------------------------------------------------------------
(***************************************************************************)
(* What the core makes of the slots: the fields that decide whether it     *)
(* accepts an instruction, for every family of mnemonics.                  *)
(***************************************************************************)
(* The mnemonics that are not listed or refused, by family.                *)
LEMMA RefusedMnemonics ==
  ASSUME NEW m \in Mnemonics
  PROVE  m \in Unlisted \union Rejected <=>
           m.family \in {"ABS", "IND", "ldmapfd", "rel"} \/ (m \in AtomicOps /\ m.arg < 32)
<1>1. m.family = "ldmapfd" <=> m = Mnemonic("ldmapfd", "LD", "IMM", 64)
  <2>1. m.family = "ldmapfd" => m \in Wide
    BY Families
  <2> QED
    BY <2>1 DEF Wide, Mnemonic
<1>2. m.family = "rel" <=> m = Mnemonic("rel", "JMP", "JCALL", 0)
  <2>1. m.family = "rel" => m \in Calls
    BY Families
  <2> QED
    BY <2>1 DEF Calls, Mnemonic
<1>3. m \in AtomicOps => /\ m.family = "atomic" => m.arg \in {16, 32, 64}
                         /\ m.family \in {"atomic", "stxx"}
                         /\ m.arg \in Int
  BY DEF AtomicOps, Mnemonic
<1>4. m \in PacketLoads <=> m.family \in {"ABS", "IND"}
  BY Families
<1> QED
  BY <1>1, <1>2, <1>3, <1>4 DEF Unlisted, Rejected

(* The second operand decides none of these fields.                        *)
LEMMA SecondFields ==
  ASSUME NEW y \in Slot, NEW s
  PROVE  LET x == with_second(y, s)
         IN  /\ x.class = y.class /\ x.code = y.code /\ x.dst = y.dst /\ x.offset = y.offset
             /\ x.fetch = y.fetch
BY DEF with_second, Slot

(* One statement: accepted, or its mnemonic or r10 is to blame.            *)
LEMMA CoreAccepts ==
  ASSUME NEW s \in Instructions, well_typed(s)
  PROVE  LET x == written(s)[1]
         IN  valid_instruction(x) <=> ~changes_r10(x) /\ s.ins \notin Unlisted \union Rejected
<1> DEFINE m == s.ins
           x == written(s)[1]
           types == operand_types(m)
           Refused == m \in Unlisted \union Rejected
<1>1. m \in Mnemonics /\ \A j \in 1 .. 3 : s.ops[j].ty \in types[j]
  BY DEF Instructions, well_typed
<1>2. x \in Slot /\ x.dst \in 0 .. 10 /\ x.src \in 0 .. 10
  <2>1. written(s) \in Seq(Slot) /\ Len(written(s)) \in {1, 2}
    BY WrittenSlots DEF slots
  <2>2. x \in Slot
    BY <2>1
  <2> HIDE DEF x
  <2> QED
    BY <2>2 DEF Slot, Regs
<1>3. \A j \in 1 .. 3 : /\ s.ops[j].ty = "Register" => reg_(s, j) \in Regs
                        /\ s.ops[j].ty = "Immediate" => val(s, j) \in Half32 /\ val16(s, j) \in ShortOffset
  BY OperandValues
<1>4. 0 \in Regs /\ 1 \in Regs /\ 0 \in ShortOffset
  BY HalfOK DEF Regs, ShortOffset
<1>5. Refused <=> m.family \in {"ABS", "IND", "ldmapfd", "rel"} \/ (m \in AtomicOps /\ m.arg < 32)
  BY <1>1, RefusedMnemonics
<1>6. CASE m \in Arithmetic
  <2> DEFINE b == insn(m.class, m.op)
             r == reg_(s, 1)
             n == m.arg
             y == [b EXCEPT !.dst = r, !.offset = n]
  <2>1. /\ m.class \in AluClass /\ m.op \in RegularOps \union {"MOV"}
        /\ \/ m.arg = 0
           \/ m.arg = 1 /\ m.op \in SignedOps
           \/ m.arg \in {8, 16, 32} /\ m.op = "MOV"
    BY <1>6 DEF Arithmetic, Mnemonic, SignedOps, RegularOps, AluClass
  <2>2. b \in Slot /\ b.class = m.class /\ b.code = m.op /\ r \in Regs /\ n \in ShortOffset
    <3>1. s.ops[1].ty = "Register"
      BY <1>1, <1>6, OperandTypes DEF REG
    <3>2. HalfMod > 64 /\ HalfMod \in Nat
      BY HalfOK, WidthsOK
    <3>3. IsInsn(b, m.class, m.op)
      BY <2>1, InsnFields
    <3>4. r \in Regs /\ n \in ShortOffset
      BY <1>3, <2>1, <3>1, <3>2 DEF ShortOffset
    <3> HIDE DEF b
    <3> QED
      BY <3>3, <3>4 DEF IsInsn
  <2>3. x = with_second(y, s)
    <3>1. written(s) = <<with_second(y, s)>>
      BY <1>1, <1>6, WrittenBy DEF ArithmeticInsn
    <3> QED
      BY <3>1
  <2> HIDE DEF b, r, n
  <2>4. y \in Slot /\ y.class = b.class /\ y.code = b.code /\ y.offset = n
    BY <2>2 DEF Slot
  <2> HIDE DEF y
  <2>5. x.class = m.class /\ x.code = m.op /\ x.offset = m.arg
    BY <2>2, <2>3, <2>4, SecondFields DEF n
  <2>6. ~Refused
    BY <1>1, <1>5, <1>6, Families
  <2> HIDE DEF x, m
  <2>7. valid_instruction(x) <=> x.dst # 10
    BY <1>2, <2>1, <2>5
       DEF valid_instruction, valid_alu, writable, readable, mov_size_ok, AluClass, JumpClass
  <2>8. changes_r10(x) <=> x.dst = 10
    BY <2>1, <2>5 DEF changes_r10, AluClass
  <2> QED
    BY <2>6, <2>7, <2>8 DEF x, m
<1>7. CASE m \in Unary
  <2> DEFINE b == insn(m.class, m.op)
             r == reg_(s, 1)
             n == m.arg
             u == [b EXCEPT !.dst = r, !.imm = n]
  <2>1. /\ m.class \in AluClass
        /\ \/ m.family = "neg" /\ m.op = "NEG"
           \/ m.family \in {"le", "be"} /\ m.op = "END" /\ m.class = "ALU" /\ m.arg \in {16, 32, 64}
           \/ m.family = "bswap" /\ m.op = "END" /\ m.arg \in {16, 32, 64}
           \/ m.family = "zext" /\ m.op = "MOV"
    BY <1>7 DEF Unary, Mnemonic, AluClass
  <2>2. /\ b \in Slot /\ b.class = m.class /\ b.code = m.op /\ b.source = "IMM" /\ b.offset = 0
        /\ r \in Regs
    <3>1. s.ops[1].ty = "Register"
      BY <1>1, <1>7, OperandTypes DEF REG
    <3>2. m.op \in RegularOps \union {"MOV", "END"}
      BY <2>1 DEF RegularOps
    <3>3. IsInsn(b, m.class, m.op)
      BY <2>1, <3>2, InsnFields
    <3>4. r \in Regs
      BY <1>3, <3>1
    <3> HIDE DEF b
    <3> QED
      BY <3>3, <3>4 DEF IsInsn
  <2>3. x = CASE m.family = "be" -> [u EXCEPT !.source = "REG"]
              [] m.family = "zext" -> [u EXCEPT !.source = "REG", !.src = r, !.imm = 1]
              [] OTHER -> u
    <3>1. written(s) = UnaryInsn(m, s)
      BY <1>1, <1>7, WrittenBy
    <3> QED
      BY <3>1 DEF UnaryInsn
  <2> HIDE DEF b, r, n, x
  <2>4. /\ DOMAIN u = DOMAIN b /\ u.class = b.class /\ u.code = b.code /\ u.offset = b.offset
        /\ u.source = b.source /\ u.imm = n
    BY <2>2 DEF Slot
  <2>5. DOMAIN b = DOMAIN ZeroInsn
    BY <2>2, ZeroSlot DEF Slot
  <2> HIDE DEF u
  <2>6. /\ x.class = m.class /\ x.code = m.op /\ x.offset = 0
        /\ m.family = "bswap" => x.source = "IMM"
        /\ m.op = "END" => x.imm = m.arg
    <3>1. CASE m.family = "be"
      <4>1. x = [u EXCEPT !.source = "REG"]
        BY <2>3, <3>1
      <4> QED
        BY <2>2, <2>4, <3>1, <4>1 DEF Slot, n
    <3>2. CASE m.family = "zext"
      <4>1. x = [u EXCEPT !.source = "REG", !.src = r, !.imm = 1]
        BY <2>3, <3>2
      <4> QED
        BY <2>1, <2>2, <2>4, <3>2, <4>1 DEF Slot
    <3>3. CASE m.family \notin {"be", "zext"}
      BY <2>2, <2>3, <2>4, <3>3 DEF n
    <3> QED
      BY <3>1, <3>2, <3>3
  <2>7. ~Refused
    BY <1>1, <1>5, <1>7, Families
  <2> HIDE DEF m
  <2>8. valid_instruction(x) <=> x.dst # 10
    BY <1>2, <2>1, <2>6
       DEF valid_instruction, valid_alu, writable, readable, mov_size_ok, end_size_ok, AluClass,
           JumpClass, RegularOps
  <2>9. changes_r10(x) <=> x.dst = 10
    BY <2>1, <2>6 DEF changes_r10, AluClass
  <2> QED
    BY <2>7, <2>8, <2>9 DEF x, m
<1>8. CASE m \in AtomicOps
  <2> DEFINE b == mem_insn("STX", "ATOMIC", literal_size(m.arg), reg_(s, 1), reg_(s, 2), val16(s, 3))
             f == m.class = "fetch"
             o == m.op
  <2>1. /\ m.arg \in Sizes
        /\ \/ m.op \in SimpleAtomics
           \/ m.op \in {"XCHG", "CMPXCHG"} /\ m.class = "fetch"
    <3>1. ASSUME NEW c \in {"plain", "fetch"}, NEW q \in SimpleAtomics, NEW n \in {16, 32, 64},
                 m = Mnemonic("atomic", c, q, n)
          PROVE  m.arg \in Sizes /\ m.op \in SimpleAtomics
      BY <3>1 DEF Mnemonic, Sizes
    <3>2. ASSUME NEW q \in {"XCHG", "CMPXCHG"}, NEW n \in {16, 32, 64},
                 m = Mnemonic("atomic", "fetch", q, n)
          PROVE  m.arg \in Sizes /\ m.op \in {"XCHG", "CMPXCHG"} /\ m.class = "fetch"
      BY <3>2 DEF Mnemonic, Sizes
    <3>3. ASSUME NEW n \in {8, 16, 32, 64}, m = Mnemonic("stxx", "plain", "ADD", n)
          PROVE  m.arg \in Sizes /\ m.op \in SimpleAtomics
      BY <3>3 DEF Mnemonic, Sizes, SimpleAtomics
    <3> QED
      BY <1>8, <3>1, <3>2, <3>3 DEF AtomicOps
  <2>2. b \in Slot /\ b.class = "STX" /\ b.mode = "ATOMIC" /\ b.size = literal_size(m.arg)
    <3>1. s.ops[1].ty = "Register" /\ s.ops[2].ty = "Register" /\ s.ops[3].ty = "Immediate"
      BY <1>1, <1>8, OperandTypes DEF REG, IMM
    <3>2. literal_size(m.arg) \in Size
      BY <2>1, SizesCoded
    <3>3. reg_(s, 1) \in Regs /\ reg_(s, 2) \in Regs /\ val16(s, 3) \in ShortOffset
      BY <1>3, <3>1
    <3>4. IsMemInsn(b, "STX", "ATOMIC", literal_size(m.arg), reg_(s, 1), reg_(s, 2), val16(s, 3))
      BY <3>2, <3>3, MemFields DEF MemClass
    <3> HIDE DEF b
    <3> QED
      BY <3>4 DEF IsMemInsn
  <2>3. x = [b EXCEPT !.aop = o, !.fetch = f]
    <3>1. written(s) = <<[b EXCEPT !.aop = o, !.fetch = f]>>
      BY <1>1, <1>8, WrittenBy DEF AtomicInsn
    <3> QED
      BY <3>1
  <2> HIDE DEF b, f, o, x
  <2>4. /\ x.class = b.class /\ x.mode = b.mode /\ x.size = b.size /\ x.aop = o /\ x.fetch = f
    BY <2>2, <2>3 DEF Slot
  <2>5. x.size \in {"SIZE32", "SIZE64"} <=> ~(m.arg < 32)
    BY <2>1, <2>2, <2>4 DEF literal_size, coded_size, Sizes
  <2>6. Refused <=> m.arg < 32
    BY <1>1, <1>5, <1>8, Families
  <2>7. valid_instruction(x) <=> ~(m.arg < 32) /\ ~(f /\ o # "CMPXCHG" /\ x.src = 10)
    <3>1. valid_instruction(x) <=>
            /\ x.size \in {"SIZE32", "SIZE64"}
            /\ is_atomic_op(x) \/ (is_atomic_fetch(x) /\ x.src # 10) \/ is_atomic_cmpxchg(x)
      BY <1>2, <2>2, <2>4
         DEF valid_instruction, valid_store, atomic_mem_size_ok, writable, readable, AluClass, JumpClass
    <3>2. CASE f
      <4>1. x.fetch = TRUE /\ x.aop = o /\ o \in SimpleAtomics \union {"XCHG", "CMPXCHG"}
        BY <2>1, <2>4, <3>2 DEF f, o
      <4>2. ~is_atomic_op(x) /\ (is_atomic_cmpxchg(x) <=> o = "CMPXCHG")
        BY <4>1 DEF is_atomic_op, is_atomic_cmpxchg
      <4>3. is_atomic_fetch(x) <=> o # "CMPXCHG"
        BY <4>1 DEF is_atomic_fetch, SimpleAtomics
      <4> QED
        BY <2>5, <3>1, <3>2, <4>2, <4>3
    <3>3. CASE ~f
      <4>1. x.fetch = FALSE /\ x.aop \in SimpleAtomics
        BY <2>1, <2>4, <3>3 DEF f, o
      <4>2. is_atomic_op(x)
        BY <4>1 DEF is_atomic_op
      <4> QED
        BY <2>5, <3>1, <3>3, <4>2
    <3> QED
      BY <3>2, <3>3
  <2>8. changes_r10(x) <=> f /\ o # "CMPXCHG" /\ x.src = 10
    BY <2>2, <2>4 DEF changes_r10, AluClass
  <2> QED
    BY <2>6, <2>7, <2>8 DEF x
<1>9. CASE m \in Transfers
  <2>1. /\ m.arg \in Sizes
        /\ \/ m.class = "LDX" /\ m.op \in {"MEM", "MEMSX"}
           \/ m.class = "STX" /\ m.op = "MEM"
    BY <1>9 DEF Transfers, Mnemonic, Sizes
  <2>2. x = mem_insn(m.class, m.op, coded_size(m.arg), reg_(s, 1), reg_(s, 2), val16(s, 3))
    BY <1>1, <1>9, WrittenBy DEF TransferInsn
  <2>3. x.class = m.class /\ x.mode = m.op /\ x.imm = 0 /\ x.fetch = FALSE
    <3>1. s.ops[1].ty = "Register" /\ s.ops[2].ty = "Register" /\ s.ops[3].ty = "Immediate"
      BY <1>1, <1>9, OperandTypes DEF REG, IMM
    <3>2. coded_size(m.arg) \in Size
      BY <2>1, SizesCoded
    <3>3. reg_(s, 1) \in Regs /\ reg_(s, 2) \in Regs /\ val16(s, 3) \in ShortOffset
      BY <1>3, <3>1
    <3>4. IsMemInsn(mem_insn(m.class, m.op, coded_size(m.arg), reg_(s, 1), reg_(s, 2), val16(s, 3)),
                    m.class, m.op, coded_size(m.arg), reg_(s, 1), reg_(s, 2), val16(s, 3))
      BY <2>1, <3>2, <3>3, MemFields DEF MemClass
    <3> HIDE DEF x
    <3> QED
      BY <2>2, <3>4 DEF IsMemInsn
  <2>4. ~Refused
    BY <1>1, <1>5, <1>9, Families
  <2> HIDE DEF x, m
  <2>5. valid_instruction(x) <=> ~(m.class = "LDX" /\ x.dst = 10)
    BY <1>2, <2>1, <2>3
       DEF valid_instruction, valid_store, writable, readable, AluClass, JumpClass
  <2>6. changes_r10(x) <=> m.class = "LDX" /\ x.dst = 10
    BY <2>1, <2>3 DEF changes_r10, AluClass
  <2> QED
    BY <2>4, <2>5, <2>6 DEF x, m
<1>10. CASE m \in Stores
  <2> DEFINE b == mem_insn("ST", "MEM", coded_size(m.arg), reg_(s, 1), 0, val16(s, 2))
             v == val(s, 3)
  <2>1. b \in Slot /\ b.class = "ST" /\ b.mode = "MEM"
    <3>1. s.ops[1].ty = "Register" /\ s.ops[2].ty = "Immediate"
      BY <1>1, <1>10, OperandTypes DEF REG, IMM
    <3>2. coded_size(m.arg) \in Size
      BY <1>1, <1>10, MnemonicFields, SizesCoded
    <3>3. reg_(s, 1) \in Regs /\ val16(s, 2) \in ShortOffset
      BY <1>3, <3>1
    <3>4. IsMemInsn(b, "ST", "MEM", coded_size(m.arg), reg_(s, 1), 0, val16(s, 2))
      BY <1>4, <3>2, <3>3, MemFields DEF MemClass
    <3> HIDE DEF b
    <3> QED
      BY <3>4 DEF IsMemInsn
  <2>2. x = [b EXCEPT !.imm = v]
    BY <1>1, <1>10, WrittenBy DEF StoreInsn
  <2> HIDE DEF b, v, x
  <2>3. x.class = "ST" /\ x.mode = "MEM"
    BY <2>1, <2>2 DEF Slot
  <2>4. ~Refused
    BY <1>1, <1>5, <1>10, Families
  <2>5. valid_instruction(x)
    BY <1>2, <2>3 DEF valid_instruction, readable
  <2>6. ~changes_r10(x)
    BY <2>3 DEF changes_r10, AluClass
  <2> QED
    BY <2>4, <2>5, <2>6 DEF x
<1>11. CASE m \in Wide
  <2> DEFINE b == mem_insn("LD", "IMM", "SIZE64", reg_(s, 1), IF m.family = "ld64" THEN 0 ELSE 1, 0)
             v == val(s, 2)
  <2>1. /\ b \in Slot /\ b.class = "LD" /\ b.mode = "IMM" /\ b.size = "SIZE64"
        /\ b.src = (IF m.family = "ld64" THEN 0 ELSE 1) /\ b.offset = 0
    <3>1. s.ops[1].ty = "Register"
      BY <1>1, <1>11, OperandTypes DEF REG
    <3> DEFINE r == reg_(s, 1)
               q == IF m.family = "ld64" THEN 0 ELSE 1
    <3>2. r \in Regs /\ q \in Regs /\ "SIZE64" \in Size
      BY <1>3, <1>4, <3>1 DEF Size
    <3>3. b = mem_insn("LD", "IMM", "SIZE64", r, q, 0)
      OBVIOUS
    <3> HIDE DEF r, q, b
    <3>4. IsMemInsn(b, "LD", "IMM", "SIZE64", r, q, 0)
      BY <1>4, <3>2, <3>3, MemFields
    <3> QED
      BY <3>4 DEF IsMemInsn, q
  <2>2. x = [b EXCEPT !.imm = v]
    BY <1>1, <1>11, WrittenBy DEF WideInsn
  <2> HIDE DEF b, v, x
  <2>3. x.class = "LD" /\ x.mode = "IMM" /\ x.size = "SIZE64" /\ x.src = b.src /\ x.offset = 0
    BY <2>1, <2>2 DEF Slot
  <2>4. Refused <=> m.family # "ld64"
    BY <1>1, <1>5, <1>11, Families
  <2>5. valid_instruction(x) <=> x.dst # 10 /\ m.family = "ld64"
    BY <1>2, <2>1, <2>3
       DEF valid_instruction, writable, AluClass, JumpClass
  <2>6. changes_r10(x) <=> x.dst = 10
    BY <2>3 DEF changes_r10, AluClass
  <2> QED
    BY <2>4, <2>5, <2>6 DEF x
<1>12. CASE m \in PacketLoads
  <2>1. m.op \in {"ABS", "IND"} /\ m.arg \in Sizes
    BY <1>12 DEF PacketLoads, Mnemonic
  <2>2. Refused
    BY <1>1, <1>5, <1>12, Families
  <2>3. x.class = "LD" /\ x.mode \in {"ABS", "IND"}
    <3>1. literal_size(m.arg) \in Size
      BY <2>1, SizesCoded
    <3>2. CASE m.op = "ABS"
      <4> DEFINE b == mem_insn("LD", "ABS", literal_size(m.arg), 0, 0, 0)
                 v == val(s, 1)
      <4>1. x = [b EXCEPT !.imm = v]
        BY <1>1, <1>12, <3>2, WrittenBy DEF PacketLoadInsn
      <4>2. b \in Slot /\ b.class = "LD" /\ b.mode = "ABS"
        <5>1. IsMemInsn(b, "LD", "ABS", literal_size(m.arg), 0, 0, 0)
          BY <1>4, <3>1, MemFields
        <5> HIDE DEF b
        <5> QED
          BY <5>1 DEF IsMemInsn
      <4> HIDE DEF b, v, x
      <4> QED
        BY <4>1, <4>2 DEF Slot
    <3>3. CASE m.op = "IND"
      <4> DEFINE b == mem_insn("LD", "IND", literal_size(m.arg), 0, reg_(s, 1), 0)
                 v == val(s, 2)
      <4>1. x = [b EXCEPT !.imm = v]
        BY <1>1, <1>12, <3>3, WrittenBy DEF PacketLoadInsn
      <4>2. s.ops[1].ty = "Register"
        BY <1>1, <1>12, <3>3, OperandTypes DEF REG
      <4>3. b \in Slot /\ b.class = "LD" /\ b.mode = "IND"
        <5> DEFINE size == literal_size(m.arg)
                   src == reg_(s, 1)
        <5>1. size \in Size /\ src \in Regs
          BY <1>3, <3>1, <4>2
        <5> HIDE DEF size, src
        <5>2. IsMemInsn(mem_insn("LD", "IND", size, 0, src, 0), "LD", "IND", size, 0, src, 0)
          BY <1>4, <5>1, MemFields
        <5>3. mem_insn("LD", "IND", size, 0, src, 0) = b
          BY DEF size, src
        <5> HIDE DEF b
        <5> QED
          BY <5>2, <5>3 DEF IsMemInsn
      <4> HIDE DEF b, v, x
      <4> QED
        BY <4>1, <4>3 DEF Slot
    <3> QED
      BY <2>1, <3>2, <3>3
  <2> HIDE DEF x
  <2>4. ~valid_instruction(x)
    BY <2>3 DEF valid_instruction, AluClass, JumpClass
  <2> QED
    BY <2>2, <2>4 DEF x
<1>13. CASE m \in Branches
  <2> DEFINE b == insn(m.class, m.op)
             r == reg_(s, 1)
             n == val16(s, 3)
             y == [b EXCEPT !.dst = r, !.offset = n]
  <2>1. m.class \in JumpClass /\ m.op \in BranchOps
    BY <1>1, <1>13, MnemonicFields
  <2>2. b \in Slot /\ b.class = m.class /\ b.code = m.op /\ r \in Regs /\ n \in ShortOffset
    <3>1. s.ops[1].ty = "Register" /\ s.ops[3].ty = "Immediate"
      BY <1>1, <1>13, OperandTypes DEF REG, IMM
    <3>2. IsInsn(b, m.class, m.op)
      BY <2>1, InsnFields
    <3>3. r \in Regs /\ n \in ShortOffset
      BY <1>3, <3>1
    <3> HIDE DEF b
    <3> QED
      BY <3>2, <3>3 DEF IsInsn
  <2>3. x = with_second(y, s)
    <3>1. written(s) = <<with_second(y, s)>>
      BY <1>1, <1>13, WrittenBy DEF BranchInsn
    <3> QED
      BY <3>1
  <2> HIDE DEF b, r, n
  <2>4. y \in Slot /\ y.class = b.class /\ y.code = b.code
    BY <2>2 DEF Slot
  <2> HIDE DEF y
  <2>5. x.class = m.class /\ x.code = m.op
    BY <2>2, <2>3, <2>4, SecondFields
  <2>6. ~Refused
    BY <1>1, <1>5, <1>13, Families
  <2> HIDE DEF x, m
  <2>7. valid_instruction(x)
    BY <1>2, <2>1, <2>5 DEF valid_instruction, valid_jump, readable
  <2>8. ~changes_r10(x)
    BY <2>1, <2>5 DEF changes_r10, AluClass, JumpClass
  <2> QED
    BY <2>6, <2>7, <2>8 DEF x, m
<1>14. CASE m \in Jumps \union Calls \union {ExitOp}
  <2> DEFINE b == insn(m.class, m.op)
             v == val(s, 1)
             n == val16(s, 1)
             link == IF m.family = "rel" THEN 1 ELSE 0
  <2>1. \/ m.family = "ja" /\ m.class = "JMP" /\ m.op = "JA" /\ m.arg = 16 /\ m \in Jumps
        \/ m.family = "jal" /\ m.class = "JMP32" /\ m.op = "JA" /\ m.arg = 32 /\ m \in Jumps
        \/ m.family \in {"call", "rel"} /\ m.class = "JMP" /\ m.op = "JCALL" /\ m \in Calls
        \/ m.family = "exit" /\ m.class = "JMP" /\ m.op = "JEXIT" /\ m = ExitOp
    BY <1>14 DEF Jumps, Calls, ExitOp, Mnemonic
  <2>2. /\ b \in Slot /\ b.class = m.class /\ b.code = m.op /\ b.source = "IMM"
        /\ b.dst = 0 /\ b.src = 0 /\ b.offset = 0 /\ b.imm = 0
    <3>1. IsInsn(b, m.class, m.op)
      BY <2>1, InsnFields DEF JumpClass
    <3> HIDE DEF b
    <3> QED
      BY <3>1 DEF IsInsn
  <2>3. /\ m.family = "ja" => x = [b EXCEPT !.offset = n]
        /\ m.family = "jal" => x = [b EXCEPT !.imm = v]
        /\ m.family \in {"call", "rel"} => x = [b EXCEPT !.imm = v, !.src = link]
        /\ m.family = "exit" => x = b
    <3>1. CASE m \in Jumps
      <4>1. written(s) = JumpInsn(m, s)
        BY <1>1, <3>1, WrittenBy
      <4>2. written(s) = IF m.arg = 16 THEN <<[b EXCEPT !.offset = n]>> ELSE <<[b EXCEPT !.imm = v]>>
        BY <4>1 DEF JumpInsn
      <4>3. (m.family = "ja" /\ m.arg = 16) \/ (m.family = "jal" /\ m.arg = 32)
        BY <3>1 DEF Jumps, Mnemonic
      <4> QED
        BY <4>2, <4>3
    <3>2. CASE m \in Calls
      <4>1. written(s) = CallInsn(m, s)
        BY <1>1, <3>2, WrittenBy
      <4>2. m.family \in {"call", "rel"}
        BY <3>2 DEF Calls, Mnemonic
      <4> QED
        BY <4>1, <4>2 DEF CallInsn
    <3>3. CASE m = ExitOp
      <4>1. written(s) = <<b>>
        BY <1>1, <3>3, WrittenBy
      <4>2. m.family = "exit"
        BY <3>3 DEF ExitOp, Mnemonic
      <4> QED
        BY <4>1, <4>2
    <3> QED
      BY <1>14, <3>1, <3>2, <3>3
  <2> HIDE DEF b, v, n, link, x
  <2>4. /\ x.class = m.class /\ x.code = m.op /\ x.source = "IMM" /\ x.dst = 0
        /\ x.src = IF m.family = "rel" THEN 1 ELSE 0
        /\ m.family # "ja" => x.offset = 0
        /\ m.family \in {"ja", "exit"} => x.imm = 0
    <3>1. CASE m.family = "ja"
      BY <2>2, <2>3, <3>1 DEF Slot
    <3>2. CASE m.family = "jal"
      BY <2>2, <2>3, <3>2 DEF Slot
    <3>3. CASE m.family \in {"call", "rel"}
      BY <2>2, <2>3, <3>3 DEF Slot, link
    <3>4. CASE m.family = "exit"
      BY <2>2, <2>3, <3>4
    <3> QED
      BY <2>1, <3>1, <3>2, <3>3, <3>4
  <2>5. Refused <=> m.family = "rel"
    BY <1>1, <1>5, <2>1, Families
  <2> HIDE DEF m
  <2>6. valid_instruction(x) <=> m.family # "rel"
    BY <2>1, <2>4 DEF valid_instruction, valid_jump, readable, BranchOps, AluClass, JumpClass
  <2>7. ~changes_r10(x)
    BY <2>1, <2>4 DEF changes_r10, AluClass
  <2> QED
    BY <2>5, <2>6, <2>7 DEF x, m
<1> QED
  BY <1>1, <1>6, <1>7, <1>8, <1>9, <1>10, <1>11, <1>12, <1>13, <1>14 DEF Mnemonics

(* The core accepts what is written for every mnemonic that is listed, and *)
(* refuses no other slot than those that change r10.                       *)
THEOREM ListedAreAccepted == Spec => []AcceptedByCore
<1>1. AssemblerInv => AcceptedByCore
  <2> SUFFICES ASSUME AssemblerInv, NEW k \in DOMAIN at, ast[k].ty = "Instruction"
               PROVE  LET x == prog[at[k] + 1]
                      IN  valid_instruction(x) <=> ~changes_r10(x) /\ ast[k].ins \notin Unlisted \union Rejected
    BY DEF AcceptedByCore
  <2>1. Writing
    BY DEF AssemblerInv, PhaseInv
  <2>2. PICK st \in [1 .. Len(ast) + 1 -> Nat] :
          /\ Generated(st, ast, at, prog)
          /\ Len(at) = IF phase = "codegen" THEN i - 1 ELSE Len(ast)
    BY <2>1 DEF AssemblerInv, LayoutInv
  <2>3. k \in DOMAIN ast
    BY <2>2, BeginsTypes, StatementKinds DEF AssemblerInv, ShapeInv
  <2>4. ast[k] \in Instructions /\ well_typed(ast[k])
    BY <2>1, <2>3, StatementKinds DEF AssemblerInv, PhaseInv
  <2>5. prog[at[k] + 1] = written(ast[k])[1]
    BY <2>2 DEF Generated
  <2> QED
    BY <2>4, <2>5, CoreAccepts
<1> QED
  BY <1>1, AssemblerInvariant, PTL
=============================================================================
