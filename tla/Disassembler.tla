----------------------------- MODULE Disassembler -----------------------------
(***************************************************************************)
(* The disassembler (disas.c) reads the object file slot by slot and prints *)
(* an instruction a line.  What it prints is a source file again, which    *)
(* the assembler reads: tokens are what they are in Assembler, and the     *)
(* address in front of a line is left out.                                 *)
(***************************************************************************)
EXTENDS Assembler, SequencesExt

VARIABLES
  objcode,        \* the object file; empty until one is read
  text            \* what has been printed of it

disasVars == <<objcode, text>>

word(kind, v) == [kind |-> kind, v |-> v, colon |-> FALSE]
num_text(n) == word("value", n)
unknown == word("name", "????")
op_text(known, m) == IF known THEN word("mnemonic", m) ELSE unknown

(* r%d: another word than a register when there is no such register.       *)
reg_text(n) == IF n \in Regs THEN word("register", n) ELSE word("name", "r?")

imm(x) == cut(x.imm, HalfMod)
-----------------------------------------------------------------------------
(* One line.  An arithmetic instruction tells its variants by its offset.  *)
has_variants(x) == x.code \in SignedOps \union {"MOV"}

variant(x) == IF has_variants(x) THEN x.offset ELSE 0

(* The number of a MOV with an extension is printed as a register.         *)
AluLine(x) ==
  LET m == Mnemonic("alu", x.class, x.code, variant(x))
  IN  <<op_text(m \in Arithmetic, m), reg_text(x.dst),
        CASE x.source = "REG" -> reg_text(x.src)
          [] x.source # "REG" /\ x.code = "MOV" /\ x.offset # 0 -> reg_text(imm(x))
          [] OTHER -> num_text(imm(x))>>

NegLine(x) == <<op_text(x.source = "IMM", Mnemonic("neg", x.class, "NEG", 0)), reg_text(x.dst)>>

EndLine(x) ==
  LET family == IF x.class = "ALU64" THEN "bswap" ELSE IF x.source = "IMM" THEN "le" ELSE "be"
      m == Mnemonic(family, x.class, "END", x.imm)
  IN  <<op_text(m \in Unary /\ (x.class = "ALU64" => x.source = "IMM"), m), reg_text(x.dst)>>

coded_bits(size) == CHOOSE n \in Sizes : coded_size(n) = size
literal_bits(size) == CHOOSE n \in Sizes : literal_size(n) = size

atomic_mnemonic(x) ==
  Mnemonic("atomic", IF x.fetch THEN "fetch" ELSE "plain", x.aop, literal_bits(x.size))

(* The sizes of atomic operations are those of the assembler.  What is     *)
(* left is taken for stxx, whose size is compared with the other codes.    *)
AtomicLine(x) ==
  <<op_text(TRUE, atomic_mnemonic(x)), reg_text(x.dst), reg_text(x.src), num_text(x.offset)>>
XaddLine(x) ==
  <<op_text(TRUE, Mnemonic("stxx", "plain", "ADD", coded_bits(x.size))),
    reg_text(x.dst), reg_text(x.src), num_text(x.offset)>>

is_wide(x) == x.class = "LD" /\ x.mode = "IMM" /\ x.size = "SIZE64"

(* The upper half of a long constant is passed over.                       *)
WideLine(x) ==
  <<op_text(is_wide(x) /\ x.src \in {0, 1},
       Mnemonic(IF x.src = 1 THEN "ldmapfd" ELSE "ld64", "LD", "IMM", 64)),
    reg_text(x.dst), num_text(imm(x))>>
PacketLine(x) ==
  <<op_text(TRUE, Mnemonic(x.mode, "LD", x.mode, literal_bits(x.size)))>>
    \o (IF x.mode = "ABS" THEN <<>> ELSE <<reg_text(x.src)>>) \o <<num_text(imm(x))>>

LoadLine(x) ==
  LET m == Mnemonic(IF x.mode = "MEM" THEN "ldx" ELSE "ldxs", "LDX", x.mode, coded_bits(x.size))
  IN  <<op_text(m \in Transfers, m), reg_text(x.dst), reg_text(x.src), num_text(x.offset)>>
StoreImmLine(x) ==
  <<op_text(x.mode = "MEM", Mnemonic("st", "ST", "MEM", coded_bits(x.size))),
    reg_text(x.dst), num_text(x.offset), num_text(imm(x))>>
StoreRegLine(x) ==
  <<op_text(x.mode = "MEM", Mnemonic("stx", "STX", "MEM", coded_bits(x.size))),
    reg_text(x.dst), reg_text(x.src), num_text(x.offset)>>

BranchLine(x) ==
  <<op_text(TRUE, Mnemonic("branch", x.class, x.code, 0)), reg_text(x.dst),
    IF x.source = "REG" THEN reg_text(x.src) ELSE num_text(imm(x)), num_text(x.offset)>>

JumpLine(x) ==
  IF x.class = "JMP" THEN <<op_text(TRUE, Mnemonic("ja", "JMP", "JA", 16)), num_text(x.offset)>>
  ELSE <<op_text(TRUE, Mnemonic("jal", "JMP32", "JA", 32)), num_text(imm(x))>>
CallLine(x) ==
  <<op_text(x.class = "JMP", Mnemonic(IF x.src = 1 THEN "rel" ELSE "call", "JMP", "JCALL", 0)),
    num_text(imm(x))>>
ExitLine(x) == <<op_text(x.class = "JMP", ExitOp)>>

line(x) ==
  CASE x.code \in (RegularOps \ {"NEG"}) \union {"MOV"} -> AluLine(x)
    [] x.code = "NEG" -> NegLine(x)
    [] x.code = "END" -> EndLine(x)
    [] x.class = "STX" /\ x.mode = "ATOMIC" ->
         IF atomic_mnemonic(x) \in AtomicOps THEN AtomicLine(x) ELSE XaddLine(x)
    [] x.class = "LD" /\ x.mode = "IMM" -> WideLine(x)
    [] x.class = "LD" /\ x.mode # "IMM" -> PacketLine(x)
    [] x.class = "LDX" -> LoadLine(x)
    [] x.class = "ST" -> StoreImmLine(x)
    [] x.class = "STX" /\ x.mode # "ATOMIC" -> StoreRegLine(x)
    [] x.code \in BranchOps -> BranchLine(x)
    [] x.code = "JA" -> JumpLine(x)
    [] x.code = "JCALL" -> CallLine(x)
    [] x.code = "JEXIT" -> ExitLine(x)

(* Fault: the upper half of a constant for a map is printed as well.       *)
width_ld64(x) == IF is_wide(x) /\ x.src = 0 THEN 2 ELSE 1

(* Slots a line stands for.                                                *)
width(x) == IF is_wide(x) /\ x.src \in {0, 1} THEN 2 ELSE 1
-----------------------------------------------------------------------------
(* The steps of the disassembler: it reads the object file, prints a line  *)
(* after the other, and the assembler is called with what it printed.      *)
ReadObject ==
  /\ phase = "written" /\ objcode = <<>>
  /\ objcode' = prog /\ text' = <<>> /\ i' = 1 /\ Go("disassemble")
  /\ UNCHANGED <<expr, ast, offset, pc, prog, at>>

PrintLine ==
  /\ phase = "disassemble" /\ i <= Len(objcode)
  /\ text' = text \o line(objcode[i])
  /\ i' = i + width(objcode[i])
  /\ UNCHANGED <<objcode, expr, ast, offset, pc, prog, at, phase>>

Reassemble ==
  /\ phase = "disassemble" /\ i > Len(objcode)
  /\ expr' = text
  /\ ast' = <<>> /\ offset' = 0 /\ i' = 1 /\ pc' = 0 /\ prog' = <<>> /\ at' = <<>>
  /\ Go("parse") /\ UNCHANGED disasVars
-----------------------------------------------------------------------------
(* What a line does not tell: the immediate of a zext, the number of a MOV *)
(* with an extension, the half of a size that stxx8 was assembled with,    *)
(* and the upper half of a long constant when the lower one does not sign- *)
(* extend to it.                                                           *)
untold(k) ==
  LET x == objcode[k]
  IN  \/ x.code = "MOV" /\ x.source = "REG" /\ x.imm # 0
      \/ x.code = "MOV" /\ x.source = "IMM" /\ x.offset # 0
      \/ x.mode = "ATOMIC" /\ x.size = "SIZE16"
      \/ is_wide(x) /\ objcode[k + 1].imm # (imm(x) \div HalfMod) % HalfMod

(* What the disassembler prints is, to the assembler, the program it read: *)
(* the second assembly succeeds and writes the same object file, but for   *)
(* what a line does not tell.                                              *)
Reassembled ==
  objcode # <<>> /\ phase \in {"written", "error"} /\ (\A k \in DOMAIN objcode : ~untold(k))
    => phase = "written" /\ prog = objcode
=============================================================================
