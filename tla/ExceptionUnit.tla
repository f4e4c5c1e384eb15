---------------------------- MODULE ExceptionUnit -----------------------------
(***************************************************************************)
(* Which instructions the core accepts, and the stage an exception belongs *)
(* to (BPF_Exception_Unit.vhd).                                            *)
(***************************************************************************)
EXTENDS InstructionFormat

writable(r) == r \in 0 .. 9
readable(r) == r \in 0 .. 10

(* The operation of an atomic instruction and its fetch bit go together.   *)
is_atomic_op(i) == i.aop \in SimpleAtomics /\ ~i.fetch
is_atomic_fetch(i) == i.aop \in SimpleAtomics \union {"XCHG"} /\ i.fetch
is_atomic_cmpxchg(i) == i.aop = "CMPXCHG" /\ i.fetch

(* The offset of a MOV is the size it extends from, the immediate of an    *)
(* END its size.  Three bits are combined with xor where one may be set.   *)
mov_size_ok(i) == i.offset \in {0, 8, 16, 32, 8 + 16 + 32}
end_size_ok(i) == i.imm \in {16, 32, 64, 16 + 32 + 64}

valid_alu(i) ==
  /\ writable(i.dst) /\ readable(i.src)
  /\ \/ i.code \in RegularOps /\ i.offset = 0
     \/ i.code \in SignedOps /\ i.offset = 1
     \/ i.code = "MOV" /\ mov_size_ok(i)
     \/ i.code = "END" /\ i.offset = 0 /\ end_size_ok(i) /\ (i.class = "ALU64" => i.source = "IMM")

valid_jump(i) ==
  \/ i.code \in BranchOps /\ readable(i.dst) /\ readable(i.src)
  \/ /\ i.source = "IMM" /\ i.dst = 0 /\ i.src = 0
     /\ \/ i.code = "JA" /\ i.class = "JMP" /\ i.imm = 0
        \/ i.code = "JA" /\ i.class = "JMP32" /\ i.offset = 0
        \/ i.code = "JEXIT" /\ i.class = "JMP" /\ i.offset = 0 /\ i.imm = 0
        \/ i.code = "JCALL" /\ i.class = "JMP" /\ i.offset = 0

atomic_mem_size_ok(i) == i.size \in {"SIZE32", "SIZE64"}

valid_store(i) ==
  /\ readable(i.dst)
  /\ \/ i.mode = "MEM" /\ readable(i.src) /\ i.imm = 0 /\ ~i.fetch
     \/ /\ i.mode = "ATOMIC" /\ atomic_mem_size_ok(i)
        /\ \/ is_atomic_op(i) /\ readable(i.src)
           \/ is_atomic_fetch(i) /\ writable(i.src)
           \/ is_atomic_cmpxchg(i) /\ readable(i.src)

valid_instruction(i) ==
  \/ /\ i.class = "LD" /\ i.size = "SIZE64" /\ i.mode = "IMM"
     /\ writable(i.dst) /\ i.src = 0 /\ i.offset = 0
  \/ /\ i.class = "LDX" /\ i.mode \in {"MEM", "MEMSX"}
     /\ writable(i.dst) /\ readable(i.src) /\ i.imm = 0
  \/ i.class = "ST" /\ i.mode = "MEM" /\ readable(i.dst) /\ readable(i.src)
  \/ i.class = "STX" /\ valid_store(i)
  \/ i.class \in AluClass /\ valid_alu(i)
  \/ i.class \in JumpClass /\ valid_jump(i)

(* gen: which stages force an exception; illegal: stage ID holds an        *)
(* instruction that is not valid and not discarded.                        *)
exception(gen, illegal) == illegal \/ gen # {}

exception_stage(gen, illegal) ==
  IF "MEM" \in gen THEN "MEM"
  ELSE IF "EX" \in gen THEN "EX"
  ELSE IF illegal \/ "ID" \in gen THEN "ID" ELSE "IF"
=============================================================================
