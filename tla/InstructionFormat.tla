-------------------------- MODULE InstructionFormat ---------------------------
(***************************************************************************)
(* The instruction format of the processor: what the assembler emits and   *)
(* the exception unit and the pipeline take apart.                         *)
(***************************************************************************)
EXTENDS Integers

CONSTANT HalfMod              \* 2^32 in the source: values of a half of a register

ASSUME HalfOK == HalfMod \in Nat \ {0} /\ HalfMod % 2 = 0

Half32 == 0 .. HalfMod - 1
WordMod == HalfMod * HalfMod

(***************************************************************************)
(* Instructions.  code is bits 7-4 of the opcode for arithmetic and jumps, *)
(* mode and size are its bits 7-3 for memory accesses; aop and fetch are   *)
(* the parts of the immediate that select an atomic operation.             *)
(***************************************************************************)
Regs == 0 .. 10

AluClass == {"ALU", "ALU64"}
JumpClass == {"JMP", "JMP32"}
MemClass == {"LDX", "ST", "STX"}

RegularOps == {"ADD", "SUB", "MUL", "DIV", "MOD", "OR", "AND", "LSH", "RSH",
               "NEG", "XOR", "ARSH"}
SignedOps == {"DIV", "MOD"}
BranchOps == {"JEQ", "JNE", "JGT", "JGE", "JSGT", "JSGE", "JLT", "JLE", "JSLT",
              "JSLE", "JSET"}
SimpleAtomics == {"ADD", "OR", "AND", "XOR"}

Size == {"SIZE8", "SIZE16", "SIZE32", "SIZE64"}

Instruction ==
  [class : {"LD"} \union MemClass \union AluClass \union JumpClass,
   code : RegularOps \union BranchOps \union {"MOV", "END", "JA", "JCALL", "JEXIT", "none"},
   source : {"IMM", "REG"},
   mode : {"IMM", "ABS", "IND", "MEM", "MEMSX", "ATOMIC"},
   size : Size,
   dst : 0 .. 15, src : 0 .. 15, offset : Int, imm : Half32,
   aop : SimpleAtomics \union {"XCHG", "CMPXCHG"}, fetch : BOOLEAN]

ZeroInsn ==
  [class |-> "LD", code |-> "none", source |-> "IMM", mode |-> "IMM", size |-> "SIZE32",
   dst |-> 0, src |-> 0, offset |-> 0, imm |-> 0, aop |-> "ADD", fetch |-> FALSE]
=============================================================================
