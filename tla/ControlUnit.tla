----------------------------- MODULE ControlUnit ------------------------------
(***************************************************************************)
(* Decoding in stage ID: the control signals of an instruction             *)
(* (BPF_Control_Unit.vhd), the registers it consumes and the hazards that  *)
(* stall it (BPF_Hazard_Unit.vhd).                                         *)
(***************************************************************************)
EXTENDS Instructions

is_jump(i) == i.class \in JumpClass
is_atomic(i) == i.class = "STX" /\ i.mode = "ATOMIC"
is_cmpxchg(i) == is_atomic(i) /\ i.aop = "CMPXCHG"
is_call(i) == i.class = "JMP" /\ i.code = "JCALL"

movsx_size(i) ==
  IF bit(i.offset, 3) = 1 THEN "SIZE8" ELSE IF bit(i.offset, 4) = 1 THEN "SIZE16"
  ELSE IF bit(i.offset, 5) = 1 THEN "SIZE32" ELSE "SIZE64"

sig_branch(i) == is_jump(i) /\ i.code \notin {"JA", "JCALL", "JEXIT"}

sig_addr_calc(i) == i.class \in MemClass

sig_force_imm(i) ==
  \/ i.class \in {"LD", "ST"}
  \/ i.class = "ALU" /\ i.source = "REG" /\ i.code = "END"      \* BPF_TO_BE
  \/ i.class = "ALU64" /\ i.code = "END"

sig_reg_write(i) ==
  /\ ~is_jump(i) /\ i.class # "ST"
  /\ ~(i.class = "ALU" /\ i.code = "END" /\ i.source = "IMM")   \* le16, le32, le64
  /\ i.class = "STX" => i.mode # "MEM" /\ i.fetch /\ ~is_cmpxchg(i)

sig_alu_en(i) == (i.class = "ALU" /\ i.code # "END") \/ i.class = "ALU64"

(* The control signals of an instruction that is not discarded.            *)
Control(i) ==
  [jump |-> is_jump(i) /\ i.code = "JA",
   branch |-> sig_branch(i),
   jump32 |-> i.class = "JMP32" /\ i.code = "JA",
   imm64 |-> i.class = "LD",
   alu64 |-> ~(i.class = "ALU" /\ i.code # "END") /\ i.class # "JMP32",
   addr_calc |-> sig_addr_calc(i),
   write_en |-> i.class \in {"ST", "STX"},
   read_en |-> i.class = "LDX" \/ (i.class = "STX" /\ i.fetch),
   force_imm |-> sig_force_imm(i),
   sign_ext |-> (i.class = "LDX" /\ i.mode = "MEMSX") \/ (i.class \in AluClass /\ i.code = "MOV"),
   size |-> IF i.class \in MemClass THEN i.size
            ELSE IF i.class \in AluClass /\ i.code = "MOV" THEN movsx_size(i) ELSE "SIZE64",
   mem_to_reg |-> sig_addr_calc(i),
   reg_write |-> sig_reg_write(i),
   discard_IF |-> i.class = "LD" \/ is_call(i),
   finish |-> i.class = "JMP" /\ i.code = "JEXIT",
   atomic |-> is_atomic(i),
   write_r0 |-> is_cmpxchg(i) \/ is_call(i),
   alu_en |-> sig_alu_en(i),
   call |-> is_call(i)]

(* The control signals of a discarded instruction.                         *)
NoControl ==
  [s \in {"jump", "branch", "jump32", "imm64", "alu64", "addr_calc", "write_en",
          "read_en", "force_imm", "sign_ext", "size", "mem_to_reg", "reg_write",
          "discard_IF", "finish", "atomic", "write_r0", "alu_en", "call"}
     |-> IF s = "size" THEN "SIZE64" ELSE FALSE]

sig_use_r0(i) == is_cmpxchg(i)

sig_use_dst(i) ==
  \/ sig_branch(i)
  \/ i.class # "LD" /\ sig_alu_en(i) /\ i.code # "MOV"
  \/ sig_addr_calc(i)

sig_use_src(i) ==
  \/ sig_branch(i) /\ i.source = "REG"
  \/ sig_alu_en(i) /\ i.code \notin {"END", "NEG"} /\ i.source = "REG"
  \/ sig_addr_calc(i) /\ ~sig_force_imm(i)
-----------------------------------------------------------------------------
(***************************************************************************)
(* Hazards with the producer in EX.  p: [reg_write, write_r0, mem, dst],   *)
(* where mem says that its result comes from stage MEM.                    *)
(***************************************************************************)
consumed_from_EX(p, reg) ==
  \/ p.reg_write /\ p.dst = reg
  \/ p.write_r0 /\ reg = 0

(* A parameter of a call: r1 to r5, as far as the function has them.       *)
(* Fault: the last parameter of a function is not one of them.             *)
parameter_from_EX_below(i, num_params, p, first, last) ==
  /\ is_call(i) /\ p.reg_write
  /\ p.dst \in first .. last /\ p.dst < num_params

parameter_from_EX(i, num_params, p, first, last) ==
  /\ is_call(i) /\ p.reg_write
  /\ p.dst \in first .. last /\ p.dst <= num_params

block_ID(i, num_params, p) ==
  \/ p.mem /\ \/ sig_use_dst(i) /\ consumed_from_EX(p, i.dst)
              \/ sig_use_src(i) /\ consumed_from_EX(p, i.src)
              \/ sig_use_r0(i) /\ consumed_from_EX(p, 0)
              \/ parameter_from_EX(i, num_params, p, 1, 3)
  \/ parameter_from_EX(i, num_params, p, 4, 5)
=============================================================================
