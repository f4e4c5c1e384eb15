---------------------------- MODULE InOrder_proofs -----------------------------
(***************************************************************************)
(* The pipeline does what its units do for one instruction after the       *)
(* other, for every program, memory, host and latency of the divider: with *)
(* forwarding, stalls, discarded fetches, divisions, late results, sleeps  *)
(* and restarts.                                                           *)
(***************************************************************************)
EXTENDS BpfCore_proofs

(* What the source gets wrong, apart from a host that puts the core to     *)
(* sleep under a taken branch.  An atomic operation behind a load replaces *)
(* the value in stage WB; a byte swap to big endian does not wait for what *)
(* comes late, though it reads its destination; and an unknown call is     *)
(* reported at the instruction behind it.                                  *)
LoadWrittenOnce == ~(Loads(WB) /\ MEM_access /\ MEM.atomic)

late(b) == b.mem_to_reg \/ b.call
is_be(i) == i.class = "ALU" /\ i.source = "REG" /\ i.code = "END"
SwapInTime == ~(instr.EX /\ is_be(EX.IR) /\ consume(MEM, EX.IR.dst) /\ late(MEM))

Agreed == LoadWrittenOnce /\ SwapInTime /\ ~error_function_id

(* The cycle of a core that is not held in reset.                          *)
Cycle ==
  /\ Running /\ DataMemoryStep /\ DividerStep(EX_division, CORE_reset)
  /\ imem' = imem
-----------------------------------------------------------------------------
(***************************************************************************)
(* The branch checker has one unsigned comparison and the sign bits of the *)
(* operands.  That they give the order of signed numbers is proved for     *)
(* registers of every width.                                               *)
(***************************************************************************)

(* An operand as a number in two's complement.                             *)
signed(is64, v) == IF sign_bit(is64, v) THEN v - values(is64) ELSE v

(* There are as many negative numbers as others.                           *)
LEMMA HalvesEqual ==
  ASSUME NEW is64 \in BOOLEAN
  PROVE  \E m \in Nat : values(is64) = m + m /\ values(is64) \div 2 = m
<1> DEFINE half == HalfMod \div 2
<1>1. half \in Nat /\ HalfMod \in Nat /\ HalfMod = half + half
  BY HalfOK
<1>2. CASE is64
  <2>1. PICK p \in Nat : p = half * HalfMod
    BY <1>1
  <2>2. WordMod = p + p
    BY <1>1, <2>1 DEF WordMod
  <2>3. values(is64) = p + p /\ (p + p) \div 2 = p
    BY <1>2, <2>1, <2>2 DEF values
  <2> QED
    BY <2>1, <2>3
<1>3. CASE ~is64
  BY <1>1, <1>3 DEF values
<1> QED
  BY <1>2, <1>3

(* Each signed comparison of the branch checker, for operands that are cut *)
(* to their width, is the comparison of the signed numbers they stand for. *)
THEOREM SignedOrder ==
  ASSUME NEW is64 \in BOOLEAN,
         NEW a \in 0 .. values(is64) - 1, NEW b \in 0 .. values(is64) - 1
  PROVE  /\ sgt(is64, a, b) <=> signed(is64, a) > signed(is64, b)
         /\ sge(is64, a, b) <=> signed(is64, a) >= signed(is64, b)
         /\ slt(is64, a, b) <=> signed(is64, a) < signed(is64, b)
         /\ sle(is64, a, b) <=> signed(is64, a) <= signed(is64, b)
<1>1. PICK m \in Nat : values(is64) = m + m /\ values(is64) \div 2 = m
  BY HalvesEqual
<1>2. a \in Int /\ b \in Int /\ 0 <= a /\ a < m + m /\ 0 <= b /\ b < m + m
  BY <1>1
<1>3. /\ sign_bit(is64, a) <=> a >= m
      /\ sign_bit(is64, b) <=> b >= m
  BY <1>1 DEF sign_bit
<1>4. /\ signed(is64, a) = IF a >= m THEN a - (m + m) ELSE a
      /\ signed(is64, b) = IF b >= m THEN b - (m + m) ELSE b
  BY <1>1, <1>3 DEF signed
<1>5. CASE (a >= m) <=> (b >= m)
  <2>1. same_sign(is64, a, b)
    BY <1>3, <1>5 DEF same_sign, sign_bit
  <2> QED
    BY <1>2, <1>4, <1>5, <2>1 DEF sgt, sge, slt, sle, gt, ge, lt, le
<1>6. CASE ~((a >= m) <=> (b >= m))
  <2>1. ~same_sign(is64, a, b)
    BY <1>3, <1>6 DEF same_sign, sign_bit
  <2> QED
    BY <1>2, <1>4, <1>6, <2>1 DEF sgt, sge, slt, sle, gt, ge, lt, le
<1> QED
  BY <1>5, <1>6
-----------------------------------------------------------------------------
(***************************************************************************)
(* What the buffers hold: the instruction at an address of the program     *)
(* with its signals, or a bubble.                                          *)
(***************************************************************************)

(* The buffer b has the signals of the instruction i, which stage ID let   *)
(* pass.                                                                   *)
carries(b, i) ==
  /\ valid_instruction(i) /\ ~Sequential!Exits(i)
  /\ b.write_en <=> Control(i).write_en
  /\ b.read_en <=> Control(i).read_en
  /\ b.reg_write <=> Control(i).reg_write
  /\ b.write_r0 <=> Control(i).write_r0
  /\ b.mem_to_reg <=> Control(i).mem_to_reg
  /\ b.sign_ext <=> Control(i).sign_ext
  /\ b.size = Control(i).size
  /\ b.atomic <=> Control(i).atomic
  /\ b.call <=> is_call(i)
  /\ b.call => i.imm = LOOKUP_FUNCTION

EXCarries ==
  IF instr.EX
  THEN /\ EX.IR = imem[EX.PC] /\ carries(EX, EX.IR)
       /\ EX.branch <=> sig_branch(EX.IR)
       /\ EX.alu_en <=> sig_alu_en(EX.IR)
       /\ EX.imm64 <=> EX.IR.class = "LD"
       /\ EX.alu64 = Control(EX.IR).alu64
       /\ EX.addr_calc <=> sig_addr_calc(EX.IR)
       /\ EX.force_imm <=> sig_force_imm(EX.IR)
  ELSE /\ ~EX.branch /\ ~EX.write_en /\ ~EX.read_en /\ ~EX.reg_write /\ ~EX.write_r0
       /\ ~EX.alu_en /\ ~EX.call

MEMCarries ==
  IF instr.MEM
  THEN /\ carries(MEM, MEM_insn) /\ MEM.aop = MEM_insn.aop
       /\ MEM.dst = IF MEM_insn.class = "STX" /\ MEM_insn.fetch THEN MEM_insn.src ELSE MEM_insn.dst
  ELSE /\ ~MEM.write_en /\ ~MEM.read_en /\ ~MEM.reg_write /\ ~MEM.write_r0 /\ ~MEM.call

(* A call that the helper functions unit has accepted while it waits in ID *)
(* is one it knows.                                                        *)
CallInv == hfu_state = "LOOKUP_EX_S" /\ ID_call => ID_IR.imm = LOOKUP_FUNCTION

CarryInv == EXCarries /\ MEMCarries /\ CallInv

(* The register numbers of a valid instruction are of registers.           *)
LEMMA ValidRegisters ==
  ASSUME NEW i, valid_instruction(i)
  PROVE  i.dst \in Regs /\ i.src \in Regs
BY DEF valid_instruction, valid_store, valid_alu, valid_jump, writable, readable, Regs, AluClass,
       JumpClass

(* An instruction that goes from ID to EX, and a bubble that does.         *)
LEMMA InstructionEnters ==
  ASSUME StageInv, LoadBuffers, load_ID, instr'.EX
  PROVE  /\ EX' = buffer_ID /\ MEM' = buffer_EX /\ ID' = buffer_IF /\ load_IF
         /\ ~ID_discard_ID /\ ~ID.discard /\ ~ID_blocked /\ ~EX_make_noop /\ ~DMEM_error
         /\ ID_control = Control(ID_IR)
         /\ valid_instruction(ID_IR) /\ ~Sequential!Exits(ID_IR)
<1>1. ~ID_discard_ID /\ ~ID_blocked /\ ~EX_make_noop
  BY DEF LoadBuffers
<1>2. EX' = buffer_ID /\ MEM' = buffer_EX /\ ID' = buffer_IF /\ load_IF
  BY <1>1, LoadsInOrder DEF LoadBuffers
<1>3. ID_control = Control(ID_IR)
  BY <1>1 DEF ID_control
<1>4. ~DMEM_error
  BY Blocks DEF load_ID
<1>5. ~ID_illegal /\ ~ID_control.finish
  BY <1>1, <1>4, Stages
     DEF StageInv, EX_make_noop, stop_at, CTRL_flush_pipeline, CTRL_flush_stage, FLAG_exception, FLAG_finish
<1>6. ~Sequential!Exits(ID_IR)
  BY <1>1, <1>5, IDIsDecoded, DecodedFacts
<1> QED
  BY <1>1, <1>2, <1>3, <1>4, <1>5, <1>6 DEF ID_illegal, ID_discard_ID

(* Where no instruction enters EX a bubble does, with no signal that has   *)
(* an effect.                                                              *)
LEMMA BubbleEnters ==
  ASSUME LoadBuffers, load_ID, ~instr'.EX
  PROVE  /\ ~EX'.branch /\ ~EX'.write_en /\ ~EX'.read_en /\ ~EX'.reg_write /\ ~EX'.write_r0
         /\ ~EX'.alu_en /\ ~EX'.call
<1>1. ID_discard_ID \/ ID_blocked \/ EX_make_noop
  BY DEF LoadBuffers
<1>2. EX' = buffer_ID
  BY DEF LoadBuffers
<1>3. CASE ID_discard_ID
  BY <1>2, <1>3 DEF buffer_ID, ID_control, NoControl
<1>4. CASE ID_blocked \/ EX_make_noop
  BY <1>2, <1>4 DEF buffer_ID
<1> QED
  BY <1>1, <1>3, <1>4

(* A call is let into EX only if the unit knows its function.              *)
LEMMA KnownCallEnters ==
  ASSUME EXInv, HfuInv, StageInv, CallInv, Running, ~error_function_id, ~error_function_id',
         load_ID, instr'.EX, is_call(ID_IR)
  PROVE  ID_IR.imm = LOOKUP_FUNCTION
<1>1. ID_call
  BY InstructionEnters, IDIsDecoded, DecodedFacts DEF ID_call, Running
<1>2. go_ID /\ ~EX.call
  BY <1>1, InstructionEnters DEF go_ID, EXInv, Running
<1>3. hfu_state \notin {"LOOKUP_MEM_REQ_S", "ERROR_ID_S"}
  BY DEF load_ID, block_MEM, await_MEM, error_function_id
<1>4. CASE hfu_state = "LOOKUP_EX_S"
  BY <1>1, <1>4 DEF CallInv
<1>5. CASE hfu_state # "LOOKUP_EX_S"
  <2>1. Dispatch(go_ID, ID_IR.imm)
    BY <1>3, <1>5 DEF Running, HfuStep, LookupEX, LookupMEM, ErrorID
  <2> QED
    BY <1>2, <2>1 DEF Dispatch, error_function_id
<1> QED
  BY <1>4, <1>5

(* After a cycle EX still carries the instruction that memory has at its   *)
(* address.                                                                *)
LEMMA EXCarriesStep ==
  ASSUME EXInv, HfuInv, StageInv, CallInv, EXCarries, Running, imem' = imem,
         ~error_function_id, ~error_function_id'
  PROVE  EXCarries'
<1> USE DEF Running
<1>1. CASE load_ID /\ instr'.EX
  <2>1. /\ EX' = buffer_ID /\ ID_control = Control(ID_IR) /\ ~ID_blocked /\ ~EX_make_noop
        /\ valid_instruction(ID_IR) /\ ~Sequential!Exits(ID_IR)
    BY <1>1, InstructionEnters
  <2>2. is_call(ID_IR) => ID_IR.imm = LOOKUP_FUNCTION
    BY <1>1, KnownCallEnters
  <2>3. EX'.IR = ID_IR /\ EX'.IR = imem'[EX'.PC]
    BY <2>1 DEF buffer_ID, ID_IR
  <2>4. carries(EX', ID_IR)
    BY <2>1, <2>2 DEF carries, buffer_ID, Control
  <2>5. /\ EX'.branch <=> sig_branch(ID_IR)
        /\ EX'.alu_en <=> sig_alu_en(ID_IR)
        /\ EX'.imm64 <=> ID_IR.class = "LD"
        /\ EX'.alu64 = Control(ID_IR).alu64
        /\ EX'.addr_calc <=> sig_addr_calc(ID_IR)
        /\ EX'.force_imm <=> sig_force_imm(ID_IR)
    BY <2>1 DEF buffer_ID, Control
  <2>6. carries(EX, EX.IR)'
    BY <2>3, <2>4 DEF carries
  <2> QED
    BY <1>1, <2>3, <2>5, <2>6 DEF EXCarries
<1>2. CASE load_ID /\ ~instr'.EX
  BY <1>2, BubbleEnters DEF EXCarries
<1>3. CASE ~load_ID
  BY <1>3 DEF LoadBuffers, EXCarries, carries
<1> QED
  BY <1>1, <1>2, <1>3

(* An instruction that goes from EX to MEM.                                *)
LEMMA InstructionLeaves ==
  ASSUME EXCarries, LoadBuffers, imem' = imem, load_EX, instr.EX, ~block_EX
  PROVE  /\ MEM' = buffer_EX /\ WB' = buffer_MEM /\ MEM_insn' = EX.IR /\ MEM'.PC = EX.PC
         /\ instr'.MEM /\ load_ID /\ ~DMEM_error /\ ~block_MEM
<1>1. MEM' = buffer_EX /\ WB' = buffer_MEM /\ instr'.MEM /\ load_ID /\ ~DMEM_error /\ ~block_MEM
  BY LoadsInOrder, Blocks DEF LoadBuffers, load_EX, load_MEM
<1>2. MEM'.PC = EX.PC
  BY <1>1 DEF buffer_EX
<1> QED
  BY <1>1, <1>2 DEF EXCarries, MEM_insn

(* And so does MEM.                                                        *)
LEMMA MEMCarriesStep ==
  ASSUME EXInv, EXCarries, MEMCarries, LoadBuffers, imem' = imem
  PROVE  MEMCarries'
<1>1. CASE load_EX /\ instr.EX /\ ~block_EX
  <2>1. MEM' = buffer_EX /\ MEM_insn' = EX.IR /\ instr'.MEM
    BY <1>1, InstructionLeaves
  <2>2. carries(MEM', EX.IR)
    BY <1>1, <2>1, Blocks DEF EXCarries, carries, buffer_EX
  <2>3. EX.write_en /\ EX.read_en <=> EX.IR.class = "STX" /\ EX.IR.fetch
    BY <1>1 DEF EXCarries, carries, Control
  <2>4. /\ MEM'.aop = EX.IR.aop
        /\ MEM'.dst = IF EX.IR.class = "STX" /\ EX.IR.fetch THEN EX.IR.src ELSE EX.IR.dst
    BY <2>1, <2>3 DEF buffer_EX, EX_dst_reg
  <2> QED
    BY <2>1, <2>2, <2>4 DEF MEMCarries, carries
<1>2. CASE load_EX /\ (~instr.EX \/ block_EX)
  <2>1. MEM' = buffer_EX /\ ~instr'.MEM
    BY <1>2 DEF LoadBuffers
  <2>2. ~EX.call
    BY <1>2, EXWaits DEF EXCarries, EXInv
  <2> QED
    BY <1>2, <2>1, <2>2 DEF MEMCarries, EXCarries, buffer_EX
<1>3. CASE ~load_EX
  <2>1. MEM' = MEM /\ instr'.MEM = instr.MEM /\ MEM_insn' = MEM_insn
    BY <1>3 DEF LoadBuffers, MEM_insn
  <2> QED
    BY <2>1 DEF MEMCarries, carries
<1> QED
  BY <1>1, <1>2, <1>3

(* A call that waits in ID and that the unit has accepted stays one it     *)
(* knows.                                                                  *)
LEMMA CallStep ==
  ASSUME EXInv, HfuInv, CallInv, Running, imem' = imem
  PROVE  CallInv'
<1> USE DEF Running
<1> SUFFICES ASSUME hfu_state' = "LOOKUP_EX_S", ID_call'
             PROVE  ID_IR'.imm = LOOKUP_FUNCTION
  BY DEF CallInv
<1>1. ~ID'.discard
  BY NoSignal DEF ID_call, ID_control, ID_discard_ID
<1>2. \/ go_ID /\ ID_IR.imm = LOOKUP_FUNCTION
      \/ hfu_state = "LOOKUP_EX_S" /\ ~go_EX
  BY DEF HfuStep, Dispatch, LookupEX, LookupMEM, ErrorID, hfuVars
<1>3. hfu_state = "LOOKUP_EX_S" => EX.call \/ ID_call
  BY DEF HfuInv
<1>4. CASE load_IF
  <2>1. ID' = buffer_IF /\ load_ID /\ load_EX
    BY <1>4, LoadsInOrder DEF LoadBuffers
  <2>2. ID_call
    BY <1>2, <1>3, <2>1 DEF go_ID, go_EX
  <2>3. ID_control.discard_IF
    BY <2>2, DecodedFacts, IDIsDecoded DEF ID_call
  <2> QED
    BY <1>1, <2>1, <2>3 DEF buffer_IF
<1>5. CASE ~load_IF
  <2>1. ID' = ID /\ ID_IR' = ID_IR
    BY <1>5 DEF LoadBuffers, ID_IR
  <2>2. EX.call => ID.discard
    BY DEF EXInv
  <2> QED
    BY <1>1, <1>2, <1>3, <2>1, <2>2 DEF CallInv
<1> QED
  BY <1>4, <1>5

(* Of what an instruction needs of the other stages.                       *)
LEMMA CarryStep ==
  ASSUME PipelineInv, CarryInv, Cycle, ~error_function_id, ~error_function_id'
  PROVE  CarryInv'
BY EXCarriesStep, MEMCarriesStep, CallStep DEF PipelineInv, CarryInv, Cycle, Running
-----------------------------------------------------------------------------
(***************************************************************************)
(* The registers.  What the bank holds after the middle of a cycle is what *)
(* the instructions before the one in MEM have made of it.                 *)
(***************************************************************************)

(* The host writes a register of a core that has nothing under way.        *)
HostAlone ==
  CORE_reg.write => ~instr.EX /\ ~instr.MEM /\ ~WB.reg_write /\ ~WB.write_r0

(* The host writes a register only of a core that sleeps with nothing in   *)
(* EX and MEM.                                                             *)
LEMMA HostWaits ==
  ASSUME Running, RegInput, CORE_reg'.write
  PROVE  CORE_sleeping /\ ~instr.EX /\ ~instr.MEM
BY DEF RegInput, NoWrite, Running

(* So no instruction under way has an operand changed under it.            *)
LEMMA HostAloneStep ==
  ASSUME MEMCarries, Running, RegInput
  PROVE  HostAlone'
<1> SUFFICES ASSUME CORE_reg'.write
             PROVE  ~instr'.EX /\ ~instr'.MEM /\ ~WB'.reg_write /\ ~WB'.write_r0
  BY DEF HostAlone
<1>1. CORE_sleeping /\ ~instr.EX /\ ~instr.MEM
  BY HostWaits
<1>2. EX_make_noop /\ WB_is_noop
  BY <1>1 DEF CORE_sleeping, CTRL_flushed, EX_make_noop, stop_at, CTRL_flush_pipeline,
              CTRL_flush_stage
<1> QED
  BY <1>1, <1>2 DEF Running, LoadBuffers, MEMCarries, buffer_MEM, WB_is_noop

(* An instruction waits in MEM for an access or for the map unit.          *)
LEMMA MEMWaits ==
  ASSUME HfuInv, MEMCarries, block_MEM, ~error_function_id
  PROVE  instr.MEM /\ (MEM_access \/ MEM.call)
BY DEF block_MEM, MEM_ready, await_MEM, HfuInv, error_function_id, MEMCarries, MEM_access

(* As the instruction in MEM stays there, or there is none, the registers  *)
(* stay as they are, unless the host writes one.                           *)
LEMMA RegistersStay ==
  ASSUME PipelineInv, MEMCarries, HostAlone, HostAlone', Agreed, LoadBuffers, DataMemoryStep,
         ~(load_EX /\ instr.MEM)
  PROVE  reg_file_written' =
           IF CORE_reg'.write THEN [reg_file_written EXCEPT ![CORE_reg'.dst] = CORE_reg'.input]
                              ELSE reg_file_written
<1> DEFINE B == reg_file_written
<1>1. reg_file' = B /\ B = [r \in Regs |-> B[r]] /\ DOMAIN B = Regs
  BY DEF LoadBuffers, reg_file_written
<1>2. CASE WB_is_noop'
  BY <1>1, <1>2, BankQuiet
<1>3. CASE ~WB_is_noop'
  <2>1. ~CORE_reg'.write /\ (WB'.reg_write \/ WB'.write_r0)
    BY <1>3 DEF HostAlone, WB_is_noop
  <2>2. block_MEM /\ WB' = WB
    <3>1. CASE load_EX
      <4>1. WB' = buffer_MEM /\ ~instr.MEM
        BY <3>1, LoadsInOrder DEF LoadBuffers, load_MEM
      <4> QED
        BY <1>3, <4>1 DEF MEMCarries, buffer_MEM, WB_is_noop
    <3>2. CASE ~load_EX
      <4>1. CASE block_MEM
        BY <4>1 DEF LoadBuffers, load_MEM
      <4>2. CASE ~block_MEM
        <5>1. WB' = buffer_MEM /\ WB_make_noop
          BY <3>2, <4>2, Blocks DEF LoadBuffers, load_EX, load_MEM
        <5> QED
          BY <1>3, <5>1 DEF buffer_MEM, WB_is_noop
      <4> QED
        BY <4>1, <4>2
    <3> QED
      BY <3>1, <3>2
  <2>3. WB.mem_to_reg => DMEM_output' = DMEM_output
    <3> SUFFICES ASSUME WB.mem_to_reg, MEM_serve PROVE FALSE
      BY DEF DataMemoryStep
    <3>1. Loads(WB) /\ MEM_access
      BY <2>1, <2>2 DEF Loads, MEM_serve
    <3>2. MEM_ready
      BY <3>1 DEF Agreed, LoadWrittenOnce, MEM_ready
    <3>3. MEM.call
      BY <2>2, <3>2 DEF block_MEM, await_MEM, PipelineInv, HfuInv, Agreed
    <3> QED
      BY <3>1, <3>3 DEF PipelineInv, EXInv
  <2>4. WB_reg_value' = WB_reg_value /\ ~CORE_reg.write
    BY <2>1, <2>2, <2>3 DEF WB_reg_value, WB_mem_value, HostAlone
  <2>5. \A r \in Regs : (bank_write' /\ bank_dst' = r) \/ (WB'.write_r0 /\ r = 0)
                          => bank_input' = B[r]
    BY <2>1, <2>2, <2>4 DEF bank_write, bank_dst, bank_input, reg_file_written
  <2>6. reg_file_written' =
          [r \in Regs |-> IF (bank_write' /\ bank_dst' = r) \/ (WB'.write_r0 /\ r = 0)
                          THEN bank_input' ELSE reg_file'[r]]
    BY DEF reg_file_written
  <2>7. reg_file_written' = [r \in Regs |-> B[r]]
    BY <1>1, <2>5, <2>6
  <2> QED
    BY <1>1, <2>1, <2>7
<1> QED
  BY <1>2, <1>3

(* What the instruction in MEM writes when it is done.                     *)
LEMMA RegistersWritten ==
  ASSUME LoadBuffers, load_EX, ~CORE_reg'.write
  PROVE  reg_file_written' =
           [r \in Regs |-> IF consume(MEM, r) THEN WB_reg_value' ELSE reg_file_written[r]]
<1>1. reg_file' = reg_file_written
  BY DEF LoadBuffers
<1>2. WB' = buffer_MEM /\ ~block_MEM /\ ~WB_make_noop
  BY LoadsInOrder, Blocks DEF LoadBuffers, load_MEM, load_EX
<1>3. /\ WB'.reg_write <=> MEM.reg_write
      /\ WB'.write_r0 <=> MEM.write_r0
      /\ WB'.dst = MEM.dst
  BY <1>2 DEF buffer_MEM
<1>4. reg_file_written' =
          [r \in Regs |-> IF (bank_write' /\ bank_dst' = r) \/ (WB'.write_r0 /\ r = 0)
                          THEN bank_input' ELSE reg_file'[r]]
  BY DEF reg_file_written
<1> QED
  BY <1>1, <1>3, <1>4 DEF bank_write, bank_dst, bank_input, consume
-----------------------------------------------------------------------------
(***************************************************************************)
(* The operands of the instruction in EX.  settled(r) is what register r   *)
(* holds when the instruction in MEM is done, if what it writes is known   *)
(* in MEM.                                                                 *)
(***************************************************************************)
settled(r) == IF consume(MEM, r) THEN MEM_ex_value ELSE reg_file_written[r]

(* The registers that i reads.                                             *)
reads(i) ==
  {r \in Regs : \/ r = i.dst /\ (sig_use_dst(i) \/ is_be(i))
                \/ r = i.src /\ sig_use_src(i)
                \/ r = 0 /\ sig_use_r0(i)
                \/ r \in {1, 2} /\ is_call(i)}

(* What comes late is not read from MEM.                                   *)
InTimeInv == instr.EX => \A r \in reads(EX.IR) : consume(MEM, r) => ~late(MEM)

(* An instruction that stays in EX.                                        *)
LEMMA InstructionStays ==
  ASSUME LoadBuffers, ~load_ID
  PROVE  /\ EX' = EX /\ ID' = ID /\ IF_PC' = IF_PC /\ instr'.EX = instr.EX
         /\ load_EX => block_EX /\ (\A r : ~consume(MEM', r)) /\ ~instr'.MEM
         /\ ~load_EX => MEM' = MEM /\ instr'.MEM = instr.MEM
<1>1. EX' = EX /\ ID' = ID /\ IF_PC' = IF_PC /\ instr'.EX = instr.EX
  BY LoadsInOrder DEF LoadBuffers
<1>2. ASSUME load_EX PROVE block_EX /\ (\A r : ~consume(MEM', r)) /\ ~instr'.MEM
  BY <1>2, LoadsInOrder DEF LoadBuffers, buffer_EX, consume
<1>3. ASSUME ~load_EX PROVE MEM' = MEM /\ instr'.MEM = instr.MEM
  BY <1>3 DEF LoadBuffers
<1> QED
  BY <1>1, <1>2, <1>3

(* After a cycle the instruction in EX reads nothing that comes late from  *)
(* MEM: it waited in ID, and a byte swap, for which the source does not    *)
(* wait, is kept out by SwapInTime.                                        *)
LEMMA InTimeStep ==
  ASSUME EXInv, HfuInv, StageInv, CallInv, InTimeInv, Running, SwapInTime',
         ~error_function_id, ~error_function_id'
  PROVE  InTimeInv'
<1> USE DEF Running
<1> SUFFICES ASSUME instr'.EX, NEW r \in reads(EX'.IR), consume(MEM', r), late(MEM')
             PROVE  FALSE
  BY DEF InTimeInv, reads, late, sig_use_dst, sig_use_src, sig_use_r0, is_be, is_call,
         sig_branch, sig_alu_en, sig_addr_calc, sig_force_imm, is_jump, is_cmpxchg, is_atomic,
         consume
<1>1. CASE load_ID
  <2>1. /\ EX' = buffer_ID /\ MEM' = buffer_EX /\ ~ID_blocked /\ ~ID_discard_ID
        /\ EX'.IR = ID_IR
    BY <1>1, InstructionEnters DEF buffer_ID
  <2>2. EX_producer.mem /\ consumed_from_EX(EX_producer, r)
    BY <2>1 DEF late, EX_producer, buffer_EX, consume, consumed_from_EX
  <2>3. ~block_ID(ID_IR, num_params(ID_IR.imm), EX_producer)
    BY <2>1 DEF ID_blocked
  <2>4. CASE is_be(ID_IR) /\ r = ID_IR.dst
    BY <2>1, <2>4 DEF SwapInTime, is_be, late, consume
  <2>5. CASE is_call(ID_IR) /\ r \in {1, 2}
    <3>1. num_params(ID_IR.imm) = 2
      BY <1>1, <2>5, KnownCallEnters DEF num_params
    <3>2. EX_producer.reg_write /\ EX_producer.dst = r
      BY <2>2, <2>5 DEF consumed_from_EX
    <3>3. parameter_from_EX(ID_IR, num_params(ID_IR.imm), EX_producer, 1, 3)
      BY <2>5, <3>1, <3>2 DEF parameter_from_EX
    <3> QED
      BY <2>2, <2>3, <3>3 DEF block_ID
  <2>6. CASE \/ r = ID_IR.dst /\ sig_use_dst(ID_IR)
             \/ r = ID_IR.src /\ sig_use_src(ID_IR)
             \/ r = 0 /\ sig_use_r0(ID_IR)
    BY <2>2, <2>3, <2>6 DEF block_ID
  <2> QED
    BY <2>1, <2>4, <2>5, <2>6 DEF reads
<1>2. CASE ~load_ID
  BY <1>2, InstructionStays DEF InTimeInv
<1> QED
  BY <1>1, <1>2

(* A division that waits for the divider outlives the instructions before  *)
(* it: what was read in ID is then no longer the operand.                  *)
divides == div_state \in {"READY_TO_DIVIDE_S", "DIVIDING_S"}
fresh == divides => instr.MEM

(* What was read in ID is what the register bank holds, unless it is being *)
(* forwarded.                                                              *)
held(own, r) == ~consume(MEM, r) /\ ~consume(WB, r) => own = reg_file[r]

EX_reg_A == register_A(EX.IR.dst, EX.call)
EX_reg_B == register_B(EX.IR.src, EX.call)
EX_reg_token == register_token(EX.call)

HeldInv ==
  instr.EX /\ ~DMEM_error /\ fresh =>
    /\ held(EX.A, EX_reg_A) /\ held(EX.B, EX_reg_B)
    /\ ~EX.branch => held(EX.token, EX_reg_token)

(* What waits in EX for a division has the divider at work in the next     *)
(* cycle.                                                                  *)
LEMMA DivisionWaits ==
  ASSUME block_EX, Cycle
  PROVE  divides'
BY DEF block_EX, EX_alu_ready, alu_ready, await_div, Cycle, Running, DividerStep, NextDivState,
       divides

Named == instr.EX => EX_reg_A \in Regs /\ EX_reg_B \in Regs /\ EX_reg_token \in Regs

(* An instruction in EX names registers that there are.                    *)
LEMMA RegistersNamed == EXCarries => Named
<1> SUFFICES ASSUME EXCarries, instr.EX
             PROVE  EX_reg_A \in Regs /\ EX_reg_B \in Regs /\ EX_reg_token \in Regs
  BY DEF Named
<1>1. EX.IR.dst \in Regs /\ EX.IR.src \in Regs
  BY ValidRegisters DEF EXCarries, carries
<1> QED
  BY <1>1 DEF EX_reg_A, EX_reg_B, EX_reg_token, register_A, register_B, register_token, Regs

(* And in the next state.                                                  *)
LEMMA RegistersNamedNext == EXCarries' => Named'
BY RegistersNamed, PTL

(* After a cycle the operands that EX holds are those of the bank, unless  *)
(* they are going to be forwarded.                                         *)
LEMMA HeldStep ==
  ASSUME PipelineInv, FetchInv, EXCarries, EXCarries', MEMCarries, HostAlone, HeldInv, Cycle,
         ~error_function_id
  PROVE  HeldInv'
<1> USE DEF Cycle, Running
<1> SUFFICES ASSUME instr'.EX, ~DMEM_error', fresh'
             PROVE  /\ held(EX.A, EX_reg_A)' /\ held(EX.B, EX_reg_B)'
                    /\ ~EX'.branch => held(EX.token, EX_reg_token)'
  BY DEF HeldInv
<1>1. EX_reg_A' \in Regs /\ EX_reg_B' \in Regs /\ EX_reg_token' \in Regs
  BY RegistersNamedNext DEF Named
<1>2. reg_file' = reg_file_written
  BY DEF LoadBuffers
<1>3. CASE load_ID
  <2>1. /\ EX' = buffer_ID /\ ~ID_blocked /\ ~EX_make_noop /\ ~ID.discard
        /\ ID_control = Control(ID_IR)
    BY <1>3, InstructionEnters DEF PipelineInv
  <2>2. ~ID.call_2
    BY <2>1 DEF FetchInv
  <2>3. /\ EX'.A = ID_A /\ EX'.B = ID_B /\ EX'.IR = ID_IR
        /\ EX'.call <=> ID_call
        /\ ~EX'.branch => EX'.token = ID_R0
    BY <2>1 DEF buffer_ID, ID_call
  <2>4. /\ ID_A = read_register(EX_reg_A') /\ ID_B = read_register(EX_reg_B')
        /\ ID_R0 = read_register(EX_reg_token')
    BY <2>2, <2>3
       DEF ID_A, ID_B, ID_R0, EX_reg_A, EX_reg_B, EX_reg_token, register_A, register_B,
           register_token
  <2> QED
    BY <1>1, <1>2, <2>3, <2>4 DEF read_register, held
<1>4. CASE ~load_ID
  <2>1. EX' = EX /\ instr.EX
    BY <1>4, InstructionStays
  <2>2. ~load_EX
    <3>1. load_EX => divides' /\ ~instr'.MEM
      BY <1>4, InstructionStays, DivisionWaits
    <3> QED
      BY <3>1 DEF fresh
  <2>3. MEM' = MEM /\ instr'.MEM = instr.MEM
    BY <1>4, <2>2, InstructionStays
  <2>4. ~DMEM_error
    BY <2>3 DEF DMEM_error, MEM_access
  <2>5. block_MEM /\ WB' = WB
    BY <2>2, <2>4, Blocks DEF load_EX, load_MEM, LoadBuffers
  <2>6. fresh
    BY <2>5, MEMWaits DEF fresh, PipelineInv
  <2>7. EX_reg_A' = EX_reg_A /\ EX_reg_B' = EX_reg_B /\ EX_reg_token' = EX_reg_token
    BY <2>1 DEF EX_reg_A, EX_reg_B, EX_reg_token
  <2>8. \A r \in Regs : ~consume(WB, r) => reg_file_written[r] = reg_file[r]
    BY <2>1, BankKeeps DEF HostAlone
  <2> QED
    BY <1>1, <1>2, <2>1, <2>3, <2>4, <2>5, <2>6, <2>7, <2>8 DEF HeldInv, held
<1> QED
  BY <1>3, <1>4

(* An operand is forwarded or was read: it is what its register will hold. *)
LEMMA OperandSettled ==
  ASSUME HostAlone, instr.EX, NEW r \in Regs, NEW own, held(own, r)
  PROVE  EX_operand(r, own) = settled(r)
<1>1. ~CORE_reg.write
  BY DEF HostAlone
<1>2. CASE consume(MEM, r)
  BY <1>2 DEF EX_operand, forward, forwarded, settled
<1>3. CASE ~consume(MEM, r) /\ consume(WB, r)
  BY <1>1, <1>3, BankTakes DEF EX_operand, forward, forwarded, settled
<1>4. CASE ~consume(MEM, r) /\ ~consume(WB, r)
  BY <1>1, <1>4, BankKeeps DEF EX_operand, forward, forwarded, settled, held
<1> QED
  BY <1>2, <1>3, <1>4

(* Forwarding gives what the registers hold when the instruction in MEM is *)
(* done.                                                                   *)
LEMMA OperandsSettled ==
  ASSUME EXCarries, HostAlone, HeldInv, instr.EX, ~DMEM_error, fresh
  PROVE  /\ EX_fw_operand_A = settled(EX_reg_A) /\ EX_fw_operand_B = settled(EX_reg_B)
         /\ ~EX.branch => EX_fw_cmpxchg_token = settled(EX_reg_token)
<1>1. EX_reg_A \in Regs /\ EX_reg_B \in Regs /\ EX_reg_token \in Regs
  BY RegistersNamed DEF Named
<1> QED
  BY <1>1, OperandSettled
     DEF HeldInv, EX_fw_operand_A, EX_fw_operand_B, EX_fw_cmpxchg_token, EX_reg_A, EX_reg_B,
         EX_reg_token

(* What MEM writes is there in the next cycle, if it is known in MEM.      *)
LEMMA Settles ==
  ASSUME LoadBuffers, load_EX, ~CORE_reg'.write, NEW r \in Regs, consume(MEM, r) => ~late(MEM)
  PROVE  reg_file_written'[r] = settled(r)
<1>1. WB' = buffer_MEM
  BY LoadsInOrder DEF LoadBuffers, load_MEM
<1>2. consume(MEM, r) => WB_reg_value' = MEM_ex_value
  BY <1>1 DEF late, WB_reg_value, buffer_MEM
<1> QED
  BY <1>2, RegistersWritten DEF settled

(* As an instruction waits in EX, what it reads does not change.           *)
LEMMA SettledStays ==
  ASSUME PipelineInv, MEMCarries, HostAlone, HostAlone', Agreed, InTimeInv, LoadBuffers,
         DataMemoryStep, instr.EX, ~load_ID, NEW r \in reads(EX.IR)
  PROVE  settled(r)' = settled(r)
<1>1. r \in Regs /\ (consume(MEM, r) => ~late(MEM))
  BY DEF reads, InTimeInv
<1>2. ~CORE_reg'.write
  BY InstructionStays DEF HostAlone
<1>3. CASE load_EX
  BY <1>1, <1>2, <1>3, InstructionStays, Settles DEF settled
<1>4. CASE ~load_EX
  <2>1. MEM' = MEM /\ reg_file_written' = reg_file_written
    BY <1>2, <1>4, InstructionStays, RegistersStay
  <2> QED
    BY <1>1, <2>1 DEF settled, late, MEM_ex_value, consume
<1> QED
  BY <1>3, <1>4
-----------------------------------------------------------------------------
(***************************************************************************)
(* The path of the program through IF, ID and EX.  A stage from which      *)
(* nothing is let go any more remembers a branch only behind an access     *)
(* error.                                                                  *)
(***************************************************************************)
StopInv ==
  ~DMEM_error => ~EX_saved_taken_branch /\ (CORE_sleep => ~EX_volatile_taken_branch)

(* No flush makes a bubble of what enters ID.                              *)
LEMMA Fetching == StageInv => ~ID_make_noop
BY Stages DEF StageInv, ID_make_noop, stop_at, CTRL_flush_stage, FLAG_exception

(* A core that stops at ID has no taken branch in EX.                      *)
LEMMA StoppedUntaken ==
  ASSUME StageInv, FinishInv, StopInv, ~error_function_id, ~DMEM_error, EX_make_noop
  PROVE  ~EX_taken_branch
<1>1. CASE FLAG_exception
  <2>1. ID_illegal
    BY <1>1, Stages DEF StageInv, FLAG_exception
  <2> QED
    BY <2>1 DEF ID_illegal, ID_discard_ID
<1>2. CASE ~FLAG_exception /\ FLAG_finish
  <2>1. ID_control.finish
    BY <1>2 DEF FinishInv, FLAG_finish, FLAG_exception
  <2> QED
    BY <2>1, NoSignal DEF ID_control, ID_discard_ID
<1>3. CASE CORE_sleep
  BY <1>3 DEF StopInv, EX_taken_branch
<1> QED
  BY <1>1, <1>2, <1>3 DEF EX_make_noop, stop_at, CTRL_flush_pipeline

(* An access error stays in MEM, and nothing behind it goes on.            *)
LEMMA ErrorStays ==
  ASSUME DMEM_error, LoadBuffers
  PROVE  DMEM_error' /\ MEM' = MEM /\ ~load_EX
BY Blocks DEF load_EX, LoadBuffers, DMEM_error, MEM_access

(* A host that puts the core to sleep only when no branch is taken finds   *)
(* none in EX as long as it sleeps.                                        *)
LEMMA StopStep ==
  ASSUME HostSleeps # "any", PipelineInv, StopInv, Agreed, Cycle, SleepInput
  PROVE  StopInv'
<1> USE DEF Cycle, Running, Agreed
<1> SUFFICES ASSUME ~DMEM_error'
             PROVE  /\ ~EX_saved_taken_branch'
                    /\ CORE_sleep' => ~EX_volatile_taken_branch'
  BY DEF StopInv
<1>1. ~DMEM_error
  BY ErrorStays
<1>2. ~EX_saved_taken_branch
  BY <1>1 DEF StopInv
<1>3. ~EX_saved_taken_branch'
  <2>1. ~ID_make_noop /\ ~WB_make_noop
    BY <1>1, Fetching, Blocks DEF PipelineInv
  <2>2. EX_make_noop => ~EX_volatile_taken_branch
    BY <1>1, StoppedUntaken DEF PipelineInv, EX_taken_branch
  <2> QED
    BY <1>2, <2>1, <2>2, Blocks DEF FlagStep
<1>4. CORE_sleep' => CORE_sleep \/ ~EX_volatile_taken_branch'
  BY DEF SleepInput
<1>5. ASSUME CORE_sleep PROVE ~EX_volatile_taken_branch'
  <2>1. ~EX_volatile_taken_branch
    BY <1>1, <1>5 DEF StopInv
  <2>2. CASE load_ID
    <3>1. EX_make_noop
      <4>1. CTRL_flush_pipeline
        BY <1>5 DEF CTRL_flush_pipeline
      <4>2. CTRL_flush_stage = "ID"
        BY <1>1, Stages DEF CTRL_flush_stage, FLAG_exception, PipelineInv, StageInv
      <4> QED
        BY <4>1, <4>2 DEF EX_make_noop, stop_at
    <3> QED
      BY <2>2, <3>1 DEF LoadBuffers, buffer_ID, EX_volatile_taken_branch
  <2>3. CASE ~load_ID
    <3>1. EX' = EX
      BY <2>3 DEF LoadBuffers
    <3>2. CASE EX.branch
      <4>1. block_MEM
        BY <1>1, <2>3, <3>2, Blocks, EXWaits DEF load_ID, PipelineInv, EXInv
      <4>2. LoadKept
        BY DEF LoadWrittenOnce, LoadKept
      <4> QED
        BY <2>1, <3>2, <4>1, <4>2, BranchDecided DEF PipelineInv
    <3>3. CASE ~EX.branch
      BY <3>1, <3>3 DEF EX_volatile_taken_branch
    <3> QED
      BY <3>2, <3>3
  <2> QED
    BY <2>2, <2>3
<1> QED
  BY <1>3, <1>4, <1>5

(* Addresses of instructions.                                              *)
LEMMA PCs ==
  /\ \A pc \in PC : NextPC(pc) \in PC /\ pc % PCMod = pc
  /\ \A pc \in PC, offset \in Int : JumpTo(pc, offset) \in PC
  /\ 0 \in PC
<1>1. HalfMod * HalfMod \in Nat
  BY HalfOK
<1>2. PCMod \in Nat \ {0}
  BY <1>1, PCOK DEF WordMod
<1>3. \A x \in Int : x % PCMod \in PC
  BY <1>2 DEF PC
<1>4. \A pc \in PC : pc % PCMod = pc
  BY <1>2 DEF PC
<1>5. PC \subseteq Int
  BY <1>2 DEF PC
<1> QED
  BY <1>2, <1>3, <1>4, <1>5 DEF NextPC, JumpTo, PC

(* The addresses of the oldest instructions that are not in EX and not in  *)
(* MEM: of the next one to go to EX, and to MEM.                           *)
pc_ID == IF ID.discard THEN IF_PC ELSE ID.PC
pc_EX == IF instr.EX THEN EX.PC ELSE pc_ID

jumps_to(i, pc) == JumpTo(NextPC(pc), IF Control(i).jump32 THEN i.imm ELSE i.offset)

(* Where i goes on, unless it is a branch that is taken.                   *)
straight_on(i, pc) ==
  IF Control(i).jump THEN jumps_to(i, pc)
  ELSE IF i.class = "LD" THEN NextPC(NextPC(pc)) ELSE NextPC(pc)

PathInv ==
  /\ imem \in [PC -> Instruction] /\ IF_PC \in PC /\ ID.PC \in PC /\ (instr.EX => EX.PC \in PC)
  /\ EX.branch => EX.token \in PC /\ EX.token = JumpTo(NextPC(EX.PC), EX.IR.offset)
  /\ ~ID.discard => IF_PC = NextPC(ID.PC)
  /\ instr.EX /\ EX.IR.class = "LD" => ID.PC = NextPC(EX.PC)
  /\ instr.EX => pc_ID = straight_on(EX.IR, EX.PC)

(* What the fetch does in a cycle.                                         *)
Fetched ==
  /\ IF_PC' \in PC /\ ID'.PC \in PC
  /\ ~ID'.discard => IF_PC' = NextPC(ID'.PC)

(* Behind an instruction that goes to EX: it is not behind a branch that   *)
(* is taken.                                                               *)
LEMMA FetchedBehind ==
  ASSUME StageInv, PathInv, LoadBuffers, load_ID, instr'.EX
  PROVE  /\ Fetched /\ ~EX_taken_branch /\ EX'.PC = pc_ID
         /\ ID_IR.class = "LD" => ID'.PC = NextPC(ID.PC)
         /\ pc_ID' = straight_on(ID_IR, ID.PC)
<1>1. /\ EX' = buffer_ID /\ ID' = buffer_IF /\ load_IF
      /\ ~ID_discard_ID /\ ~ID.discard /\ ~ID_blocked /\ ~EX_make_noop /\ ~DMEM_error
      /\ ID_control = Control(ID_IR)
  BY InstructionEnters
<1>2. ~EX_taken_branch /\ IF_PC = NextPC(ID.PC) /\ EX'.PC = pc_ID
  BY <1>1 DEF ID_discard_ID, PathInv, pc_ID, buffer_ID
<1>3. load_PC <=> ~is_call(ID_IR)
  <2>1. ~block_EX /\ ~block_MEM /\ ~CTRL_block_IF
    BY <1>1, Fetching, Blocks DEF load_ID
  <2>2. ID_call <=> is_call(ID_IR)
    BY <1>1 DEF ID_call, Control
  <2> QED
    BY <1>1, <2>1, <2>2 DEF load_PC
<1>4. ID_IR \in Instruction
  BY DEF PathInv, ID_IR
<1>5. ID_IR.offset \in Int /\ ID_IR.imm \in Int
  <2>1. Half32 \subseteq Int
    BY HalfOK DEF Half32
  <2> QED
    BY <1>4, <2>1 DEF Instruction
<1>6. IF_PC_next = IF Control(ID_IR).jump THEN jumps_to(ID_IR, ID.PC) ELSE NextPC(IF_PC)
  BY <1>1, <1>2 DEF IF_PC_next, ID_jump_or_taken_branch, ID_PC_taken, jumps_to
<1>7. IF_PC_next \in PC
  BY <1>5, <1>6, PCs DEF PathInv, jumps_to
<1>8. ID'.PC = IF_PC /\ IF_PC' = IF is_call(ID_IR) THEN IF_PC ELSE IF_PC_next
  BY <1>1, <1>3 DEF LoadBuffers, buffer_IF
<1>9. ID'.discard <=> ID_IR.class = "LD" \/ is_call(ID_IR) \/ Control(ID_IR).jump
  <2>1. ID'.discard <=> ID_control.discard_IF \/ ID_control.jump \/ ID_make_noop
    BY <1>1, <1>2 DEF buffer_IF, ID_jump_or_taken_branch
  <2> QED
    BY <1>1, <2>1, Fetching DEF Control
<1>10. Control(ID_IR).jump => ~is_call(ID_IR) /\ ID_IR.class # "LD"
  BY DEF Control, is_jump, is_call, JumpClass
<1>11. is_call(ID_IR) => ID_IR.class # "LD"
  BY DEF is_call
<1>12. Fetched
  BY <1>2, <1>6, <1>7, <1>8, <1>9 DEF Fetched, PathInv
<1>13. pc_ID' = straight_on(ID_IR, ID.PC)
  BY <1>2, <1>6, <1>8, <1>9, <1>10, <1>11 DEF pc_ID, straight_on
<1> QED
  BY <1>2, <1>8, <1>12, <1>13

(* Behind a bubble.                                                        *)
LEMMA FetchedBehindBubble ==
  ASSUME StageInv, FinishInv, StopInv, PathInv, LoadBuffers, ~error_function_id,
         load_ID, ~instr'.EX
  PROVE  /\ Fetched
         /\ pc_ID' = IF EX_volatile_taken_branch THEN EX.token ELSE pc_ID
<1>1. ~DMEM_error /\ ~block_EX /\ ~block_MEM /\ ~ID_make_noop
  BY Fetching, Blocks DEF load_ID
<1>2. EX_taken_branch <=> EX_volatile_taken_branch
  BY <1>1 DEF EX_taken_branch, StopInv
<1>3. CASE EX_make_noop \/ ID_blocked
  <2>1. ~EX_taken_branch
    BY <1>1, <1>3, StoppedUntaken DEF ID_blocked, ID_discard_ID
  <2>2. ID' = ID /\ IF_PC' = IF_PC
    BY <1>3, LoadsInOrder DEF LoadBuffers
  <2> QED
    BY <1>2, <2>1, <2>2 DEF Fetched, PathInv, pc_ID
<1>4. CASE ~EX_make_noop /\ ~ID_blocked
  <2>1. ID_discard_ID
    BY <1>4 DEF LoadBuffers
  <2>2. ID_control = NoControl
    BY <2>1 DEF ID_control
  <2>3. ~ID_control.jump /\ ~ID_control.discard_IF /\ ~ID_call
    BY <2>2 DEF NoControl, ID_call
  <2>4. load_PC /\ load_IF
    BY <1>1, <1>4, <2>3, Blocks DEF load_PC, load_IF
  <2>5. ID'.PC = IF_PC /\ (ID'.discard <=> EX_taken_branch)
    BY <1>1, <2>3, <2>4 DEF LoadBuffers, buffer_IF, ID_jump_or_taken_branch
  <2>6. IF_PC' = IF EX_taken_branch THEN EX_PC_taken ELSE NextPC(IF_PC)
    BY <2>3, <2>4 DEF LoadBuffers, IF_PC_next, ID_jump_or_taken_branch
  <2>7. EX_volatile_taken_branch => EX_PC_taken = EX.token /\ EX.token \in PC
    BY PCs DEF EX_volatile_taken_branch, PathInv, EX_PC_taken
  <2>8. ~EX_taken_branch => ID.discard
    BY <2>1 DEF ID_discard_ID
  <2> QED
    BY <1>2, <2>5, <2>6, <2>7, <2>8, PCs DEF Fetched, PathInv, pc_ID
<1> QED
  BY <1>3, <1>4

(* After a cycle the addresses in IF, ID and EX still follow the path of   *)
(* the program.                                                            *)
LEMMA PathStep ==
  ASSUME PipelineInv, EXCarries, StopInv, PathInv, Cycle, ~error_function_id
  PROVE  PathInv'
<1> USE DEF Cycle, Running
<1>1. imem' \in [PC -> Instruction]
  BY DEF PathInv
<1>2. CASE load_ID /\ instr'.EX
  <2>1. /\ Fetched /\ EX' = buffer_ID /\ ID_control = Control(ID_IR) /\ ~ID.discard
        /\ ID_IR.class = "LD" => ID'.PC = NextPC(ID.PC)
        /\ pc_ID' = straight_on(ID_IR, ID.PC)
    BY <1>2, FetchedBehind, InstructionEnters DEF PipelineInv
  <2>2. EX'.IR = ID_IR /\ EX'.PC = ID.PC
    BY <2>1 DEF buffer_ID
  <2>3. ASSUME EX'.branch
        PROVE  EX'.token \in PC /\ EX'.token = JumpTo(NextPC(EX'.PC), EX'.IR.offset)
    <3>1. ID_control.branch /\ ~ID_control.jump32
      BY <2>1, <2>3 DEF buffer_ID, Control, sig_branch
    <3>2. EX'.token = JumpTo(NextPC(ID.PC), ID_IR.offset)
      BY <2>1, <3>1 DEF buffer_ID, ID_PC_taken
    <3>3. ID_IR.offset \in Int
      BY DEF PathInv, ID_IR, Instruction
    <3> QED
      BY <2>2, <3>2, <3>3, PCs DEF PathInv
  <2> QED
    BY <1>1, <2>1, <2>2, <2>3 DEF PathInv, Fetched
<1>3. CASE load_ID /\ ~instr'.EX
  BY <1>1, <1>3, BubbleEnters, FetchedBehindBubble DEF PipelineInv, PathInv, Fetched
<1>4. CASE ~load_ID
  BY <1>1, <1>4, InstructionStays DEF PathInv, pc_ID
<1> QED
  BY <1>2, <1>3, <1>4
-----------------------------------------------------------------------------
(***************************************************************************)
(* What the units get.                                                     *)
(***************************************************************************)
settled_regs == [r \in Regs |-> settled(r)]

(* Only a division waits for the divider; a core that comes out of a reset *)
(* has no instruction before the divider is ready for one.                 *)
DivisionInv ==
  /\ div_state = "RESET_S" => ~instr.EX
  /\ divides => instr.EX /\ EX.alu_en /\ EX.IR.code \in {"DIV", "MOD"}

(* As long as a division is under way, its instruction stays in EX.        *)
LEMMA DivisionInEX ==
  ASSUME PipelineInv, EXCarries, DivisionInv, DividerInv, Cycle, divides'
  PROVE  /\ \/ div_state = "INIT_S" /\ use_divider(EX_division)
            \/ div_state = "READY_TO_DIVIDE_S"
            \/ div_state = "DIVIDING_S" /\ ~ok_div
         /\ instr.EX /\ EX.alu_en /\ EX.IR.code \in {"DIV", "MOD"}
         /\ EX' = EX /\ instr'.EX /\ ~load_ID
<1> USE DEF Cycle, Running
<1>1. \/ div_state = "INIT_S" /\ use_divider(EX_division)
      \/ div_state = "READY_TO_DIVIDE_S"
      \/ div_state = "DIVIDING_S" /\ ~ok_div
  BY DEF DividerStep, NextDivState, divides, DividerInv, DivState
<1>2. EX.alu_en /\ EX.IR.code \in {"DIV", "MOD"} /\ instr.EX
  <2>1. CASE div_state = "INIT_S"
    <3>1. EX.alu_en /\ EX_alu_op \in {"DIV", "MOD"}
      BY <1>1, <2>1 DEF use_divider, EX_division
    <3> QED
      BY <3>1 DEF EX_alu_op, EXCarries
  <2>2. CASE div_state # "INIT_S"
    BY <1>1, <2>2 DEF DivisionInv, divides
  <2> QED
    BY <2>1, <2>2
<1>3. block_EX
  <2>1. EX_division.en
    BY <1>2 DEF EX_division, EX_alu_op, EXCarries, sig_alu_en, PipelineInv, EXInv, AluClass
  <2>2. use_divider(EX_division)
    BY <1>1, <2>1 DEF use_divider, div_by_0
  <2> QED
    BY <1>1, <2>2 DEF block_EX, EX_alu_ready, alu_ready, await_div
<1> QED
  BY <1>1, <1>2, <1>3, InstructionStays DEF load_ID

(* After a cycle it is still a division that waits for the divider.        *)
LEMMA DivisionStep ==
  ASSUME PipelineInv, EXCarries, DivisionInv, DividerInv, Cycle
  PROVE  DivisionInv'
<1>1. div_state' # "RESET_S"
  BY DEF Cycle, Running, DividerInv, DivState, DividerStep, NextDivState
<1>2. divides' => instr'.EX /\ EX'.alu_en /\ EX'.IR.code \in {"DIV", "MOD"}
  BY DivisionInEX
<1> QED
  BY <1>1, <1>2 DEF DivisionInv

(* The units get the operands that the registers settle to.                *)
LEMMA ConstantOperand ==
  ASSUME EXCarries, PathInv, instr.EX
  PROVE  EX_imm64 = constant(EX.IR, EX.PC)
BY DEF EX_imm64, constant, EXCarries, PathInv

(* What the units get is what the instruction reads when all older ones    *)
(* are done.                                                               *)
LEMMA Operands ==
  ASSUME EXCarries, PathInv, HostAlone, HeldInv, instr.EX, ~DMEM_error, fresh, ~EX.call
  PROVE  /\ EX_operand_A = first(EX.IR, settled_regs)
         /\ EX_operand_B = second(EX.IR, EX.PC, settled_regs)
         /\ EX_fw_operand_A = settled_regs[EX.IR.dst]
         /\ EX_fw_operand_B = settled_regs[EX.IR.src]
         /\ ~EX.branch => EX_fw_cmpxchg_token = settled_regs[0]
<1>1. EX.IR.dst \in Regs /\ EX.IR.src \in Regs /\ 0 \in Regs
  BY ValidRegisters DEF EXCarries, carries, Regs
<1>2. /\ EX_fw_operand_A = settled_regs[EX.IR.dst]
      /\ EX_fw_operand_B = settled_regs[EX.IR.src]
      /\ ~EX.branch => EX_fw_cmpxchg_token = settled_regs[0]
  BY <1>1, OperandsSettled
     DEF settled_regs, EX_reg_A, EX_reg_B, EX_reg_token, register_A, register_B, register_token
<1>3. EX.alu64 <=> Control(EX.IR).alu64
  BY DEF EXCarries
<1>4. EX_uses_imm <=> EX.IR.source # "REG" \/ sig_force_imm(EX.IR)
  BY DEF EX_uses_imm, EXCarries
<1> QED
  BY <1>2, <1>3, <1>4, ConstantOperand DEF EX_operand_A, EX_operand_B, EX_cut, first, second, fits

(* What is read is all that the operands depend on.                        *)
LEMMA OperandsRead ==
  ASSUME NEW i, valid_instruction(i), NEW pc, NEW R, NEW S, \A r \in reads(i) : R[r] = S[r]
  PROVE  /\ sig_use_dst(i) \/ is_be(i) => R[i.dst] = S[i.dst] /\ first(i, R) = first(i, S)
         /\ sig_use_src(i) => R[i.src] = S[i.src]
         /\ sig_use_src(i) \/ i.source # "REG" \/ sig_force_imm(i)
              => second(i, pc, R) = second(i, pc, S)
         /\ is_cmpxchg(i) => R[0] = S[0]
         /\ is_call(i) => R[1] = S[1] /\ R[2] = S[2]
<1>1. i.dst \in Regs /\ i.src \in Regs
  BY ValidRegisters
<1>2. /\ sig_use_dst(i) \/ is_be(i) => i.dst \in reads(i)
      /\ sig_use_src(i) => i.src \in reads(i)
      /\ is_cmpxchg(i) => 0 \in reads(i)
      /\ is_call(i) => 1 \in reads(i) /\ 2 \in reads(i)
  BY <1>1 DEF reads, sig_use_r0, Regs
<1> QED
  BY <1>2 DEF first, second

(* A division reads both its operands.                                     *)
LEMMA DivisionReads ==
  ASSUME NEW i, valid_instruction(i), sig_alu_en(i), i.code \in {"DIV", "MOD"},
         NEW pc, NEW R, NEW S, \A r \in reads(i) : R[r] = S[r]
  PROVE  division(i, pc, R) = division(i, pc, S)
<1>1. sig_use_dst(i) /\ (sig_use_src(i) \/ i.source # "REG")
  BY DEF sig_use_dst, sig_use_src, sig_alu_en
<1>2. first(i, R) = first(i, S) /\ second(i, pc, R) = second(i, pc, S)
  BY <1>1, OperandsRead
<1> QED
  BY <1>2 DEF division

(* The registers when the instruction in EX goes on to MEM.                *)
LEMMA LeavesSettled ==
  ASSUME InTimeInv, HostAlone', LoadBuffers, load_EX, instr.EX, ~block_EX
  PROVE  \A r \in reads(EX.IR) : reg_file_written'[r] = settled_regs[r]
<1>1. ~CORE_reg'.write
  BY Blocks DEF HostAlone, LoadBuffers
<1> QED
  BY <1>1, Settles DEF settled_regs, reads, InTimeInv
-----------------------------------------------------------------------------
(***************************************************************************)
(* Divisions.  The divider works for several cycles on what the operands   *)
(* were when it took them; that is what they still are when it answers.    *)
(***************************************************************************)
settled_division == division(EX.IR, EX.PC, settled_regs)

(* What the divider and the FSM in front of it know of the division d.     *)
under_way(d) ==
  /\ d.B # 0 /\ neg_result = signs_differ(d)
  /\ div_state = "READY_TO_DIVIDE_S" => saved_operand = [A |-> d.A, B |-> d.B]
  /\ div_state = "DIVIDING_S" /\ ~divider.ok =>
       divider.A = magnitude(d, d.A) /\ divider.B = magnitude(d, d.B)
  /\ div_state = "DIVIDING_S" /\ divider.ok =>
       /\ divider.A = magnitude(d, d.A) \div magnitude(d, d.B)
       /\ divider.B = magnitude(d, d.A) % magnitude(d, d.B)

QuotientInv == ~DMEM_error /\ divides => under_way(settled_division)

(* And the divider as well, unless it has begun before.                    *)
LEMMA DivisionOperands ==
  ASSUME PipelineInv, EXCarries, PathInv, HostAlone, HeldInv,
         instr.EX, EX.alu_en, EX.IR.code \in {"DIV", "MOD"}
  PROVE  /\ EX_division.is64 = settled_division.is64
         /\ EX_division.signed = settled_division.signed
         /\ EX_division.en /\ EX_alu_op = EX.IR.code /\ ~EX.call
         /\ ~DMEM_error /\ fresh => EX_division = settled_division
<1>1. ~EX.call /\ ~EX.imm64 /\ EX.alu64 = Control(EX.IR).alu64
  BY DEF EXCarries, PipelineInv, EXInv, sig_alu_en, Control
<1>2. EX_alu_op = EX.IR.code /\ EX_division.en
  BY <1>1 DEF EX_alu_op, EX_division
<1>3. /\ EX_division.is64 = settled_division.is64
      /\ EX_division.signed = settled_division.signed
  BY <1>1 DEF EX_division, settled_division, division
<1>4. ASSUME ~DMEM_error, fresh PROVE EX_division = settled_division
  <2>1. /\ EX_operand_A = first(EX.IR, settled_regs)
        /\ EX_operand_B = second(EX.IR, EX.PC, settled_regs)
    BY <1>1, <1>4, Operands
  <2> QED
    BY <1>1, <1>2, <2>1 DEF EX_division, settled_division, division
<1> QED
  BY <1>1, <1>2, <1>3, <1>4

(* While the divider works the division it works for stays the same,       *)
(* though the stages before it move on.                                    *)
LEMMA SettledDivisionStays ==
  ASSUME PipelineInv, EXCarries, MEMCarries, HostAlone, HostAlone', Agreed, InTimeInv,
         DivisionInv, DividerInv, Cycle, divides'
  PROVE  settled_division' = settled_division
<1>1. /\ EX' = EX /\ ~load_ID /\ instr.EX /\ EX.alu_en /\ EX.IR.code \in {"DIV", "MOD"}
  BY DivisionInEX
<1>2. \A r \in reads(EX.IR) : settled_regs'[r] = settled_regs[r]
  BY <1>1, SettledStays DEF Cycle, Running, settled_regs, reads
<1>3. valid_instruction(EX.IR) /\ sig_alu_en(EX.IR)
  BY <1>1 DEF EXCarries, carries
<1>4. division(EX.IR, EX.PC, settled_regs') = settled_division
  BY <1>1, <1>2, <1>3, DivisionReads DEF settled_division
<1>5. settled_division' = division(EX.IR, EX.PC, settled_regs')
  BY <1>1 DEF Cycle, settled_division, division, first, second, constant, fits
<1> QED
  BY <1>4, <1>5

(* After a cycle the divider still works on the operands of the division   *)
(* in EX.                                                                  *)
LEMMA QuotientStep ==
  ASSUME PipelineInv, EXCarries, MEMCarries, HostAlone, HostAlone', Agreed, PathInv, HeldInv,
         InTimeInv, DivisionInv, DividerInv, QuotientInv, Cycle
  PROVE  QuotientInv'
<1> USE DEF Cycle, Running
<1> SUFFICES ASSUME ~DMEM_error', divides' PROVE under_way(settled_division)'
  BY DEF QuotientInv
<1> DEFINE d == EX_division
           D == settled_division
<1>1. /\ \/ div_state = "INIT_S" /\ use_divider(d)
         \/ div_state = "READY_TO_DIVIDE_S"
         \/ div_state = "DIVIDING_S" /\ ~ok_div
      /\ instr.EX /\ EX.alu_en /\ EX.IR.code \in {"DIV", "MOD"}
  BY DivisionInEX
<1>2. D' = D /\ ~DMEM_error
  BY SettledDivisionStays, ErrorStays
<1>3. d.is64 = D.is64 /\ d.signed = D.signed /\ (fresh => d = D)
  BY <1>1, <1>2, DivisionOperands
<1>4. \A v : magnitude(d, v) = magnitude(D, v)
  BY <1>3 DEF magnitude, negative
<1>5. /\ div_state' = NextDivState(d, FALSE) /\ divider' = NextDivider(d, FALSE)
      /\ neg_result' = NextNegResult(d, FALSE)
      /\ saved_operand' =
           IF div_state = "INIT_S" /\ use_divider(d) /\ ~divider_ready THEN [A |-> d.A, B |-> d.B]
           ELSE IF div_state = "READY_TO_DIVIDE_S" /\ ~divider_ready THEN saved_operand
           ELSE NoOperands
  BY DEF DividerStep, NextDivState, NextDivider, NextNegResult, aresetn, ok_operands
<1>6. CASE div_state = "INIT_S"
  <2>1. d = D /\ use_divider(d) /\ D.B # 0
    BY <1>1, <1>3, <1>6 DEF fresh, divides, use_divider, div_by_0
  <2>2. neg_result' = signs_differ(D)
    BY <1>5, <1>6, <2>1 DEF NextNegResult, signs_differ
  <2>3. CASE divider_ready
    <3>1. div_state' = "DIVIDING_S"
      BY <1>5, <1>6, <2>1, <2>3 DEF NextDivState
    <3>2. /\ divider'.A = magnitude(D, D.A) /\ divider'.B = magnitude(D, D.B) /\ ~divider'.ok
      BY <1>5, <1>6, <2>1, <2>3
         DEF NextDivider, aresetn, ok_operands, wants_divider, sync_operand, DividerIdle
    <3> QED
      BY <1>2, <2>1, <2>2, <3>1, <3>2 DEF under_way
  <2>4. CASE ~divider_ready
    <3>1. div_state' = "READY_TO_DIVIDE_S"
      BY <1>5, <1>6, <2>1, <2>4 DEF NextDivState
    <3>2. saved_operand' = [A |-> D.A, B |-> D.B]
      BY <1>5, <1>6, <2>1, <2>4
    <3> QED
      BY <1>2, <2>1, <2>2, <3>1, <3>2 DEF under_way
  <2> QED
    BY <2>3, <2>4
<1>7. CASE div_state = "READY_TO_DIVIDE_S"
  <2>1. /\ D.B # 0 /\ neg_result = signs_differ(D) /\ saved_operand = [A |-> D.A, B |-> D.B]
    BY <1>2, <1>7 DEF QuotientInv, divides, under_way
  <2>2. neg_result' = signs_differ(D)
    BY <1>5, <1>7, <2>1 DEF NextNegResult
  <2>3. CASE divider_ready
    <3>1. div_state' = "DIVIDING_S"
      BY <1>5, <1>7, <2>3 DEF NextDivState
    <3>2. /\ divider'.A = magnitude(D, D.A) /\ divider'.B = magnitude(D, D.B) /\ ~divider'.ok
      BY <1>4, <1>5, <1>7, <2>1, <2>3
         DEF NextDivider, aresetn, ok_operands, wants_divider, sync_operand, DividerIdle
    <3> QED
      BY <1>2, <2>1, <2>2, <3>1, <3>2 DEF under_way
  <2>4. CASE ~divider_ready
    <3>1. div_state' = "READY_TO_DIVIDE_S"
      BY <1>5, <1>7, <2>4 DEF NextDivState
    <3>2. saved_operand' = [A |-> D.A, B |-> D.B]
      BY <1>5, <1>7, <2>1, <2>4
    <3> QED
      BY <1>2, <2>1, <2>2, <3>1, <3>2 DEF under_way
  <2> QED
    BY <2>3, <2>4
<1>8. CASE div_state = "DIVIDING_S"
  <2>1. /\ D.B # 0 /\ neg_result = signs_differ(D) /\ ~divider.ok
        /\ divider.A = magnitude(D, D.A) /\ divider.B = magnitude(D, D.B)
    BY <1>1, <1>2, <1>8 DEF QuotientInv, divides, under_way, ok_div
  <2>2. neg_result' = signs_differ(D) /\ div_state' = "DIVIDING_S"
    BY <1>5, <1>8, <2>1 DEF NextNegResult, NextDivState, ok_div
  <2>3. divider.left \in Nat \ {0}
    BY <1>8, <2>1, DivLatencyOK DEF DividerInv
  <2>4. CASE divider.left = 1
    <3>1. /\ divider'.ok
          /\ divider'.A = magnitude(D, D.A) \div magnitude(D, D.B)
          /\ divider'.B = magnitude(D, D.A) % magnitude(D, D.B)
      BY <1>5, <1>8, <2>1, <2>4
         DEF NextDivider, aresetn, ok_operands, wants_divider, DividerIdle
    <3> QED
      BY <1>2, <2>1, <2>2, <3>1 DEF under_way
  <2>5. CASE divider.left > 1
    <3>1. divider' = [divider EXCEPT !.left = @ - 1, !.reset_cycles = 0]
      BY <1>5, <1>8, <2>5
         DEF NextDivider, aresetn, ok_operands, wants_divider
    <3>2. divider'.ok = divider.ok /\ divider'.A = divider.A /\ divider'.B = divider.B
      BY <3>1
    <3> QED
      BY <1>2, <2>1, <2>2, <3>2 DEF under_way
  <2> QED
    BY <2>3, <2>4, <2>5
<1> QED
  BY <1>1, <1>6, <1>7, <1>8
-----------------------------------------------------------------------------
(***************************************************************************)
(* What an instruction takes along when it goes from EX to MEM: what it    *)
(* computes of the registers as they are in the next cycle.                *)
(***************************************************************************)

(* What is read is all that the result depends on.                         *)
LEMMA ComputedReads ==
  ASSUME NEW i \in Instruction, valid_instruction(i), i.class \in AluClass \union {"LD"},
         sig_reg_write(i), NEW pc, NEW R, NEW S, \A r \in reads(i) : R[r] = S[r]
  PROVE  computed(i, pc, R) = computed(i, pc, S)
<1>1. CASE operation(i) \in {"DIV", "MOD"}
  <2>1. sig_alu_en(i) /\ i.code \in {"DIV", "MOD"}
    BY <1>1 DEF operation, sig_alu_en, AluClass
  <2>2. division(i, pc, R) = division(i, pc, S)
    BY <2>1, DivisionReads
  <2> QED
    BY <1>1, <2>2 DEF computed
<1>2. CASE operation(i) = "MOV"
  <2>1. sig_use_src(i) \/ i.source # "REG" \/ sig_force_imm(i)
    BY <1>2 DEF operation, sig_use_src, sig_alu_en, sig_force_imm, AluClass
  <2>2. second(i, pc, R) = second(i, pc, S)
    BY <2>1, OperandsRead
  <2> QED
    BY <1>2, <2>2 DEF computed, alu_bus
<1>3. CASE operation(i) \notin {"DIV", "MOD", "MOV"}
  <2>1. i.class \in AluClass /\ i.code # "MOV"
    BY <1>3 DEF operation
  <2>2. sig_use_dst(i) \/ is_be(i)
    BY <2>1 DEF sig_use_dst, is_be, sig_alu_en, sig_reg_write, AluClass, Instruction
  <2>3. first(i, R) = first(i, S)
    BY <2>2, OperandsRead
  <2>4. CASE i.code = "NEG"
    BY <2>1, <2>3, <2>4 DEF computed, operation, alu_bus, AluClass
  <2>5. CASE i.code # "NEG"
    <3>1. sig_use_src(i) \/ i.source # "REG" \/ sig_force_imm(i)
      BY <2>1, <2>5 DEF sig_use_src, sig_alu_en, sig_force_imm, AluClass
    <3>2. second(i, pc, R) = second(i, pc, S)
      BY <3>1, OperandsRead
    <3> QED
      BY <2>3, <3>2, <1>3 DEF computed
  <2> QED
    BY <2>4, <2>5
<1> QED
  BY <1>1, <1>2, <1>3

(* The ALU is ready with a division when it has its result.                *)
LEMMA DivisionAnswers ==
  ASSUME PipelineInv, EXCarries, PathInv, HostAlone, HeldInv, DivisionInv, DividerInv,
         QuotientInv, ~CORE_reset, ~DMEM_error, instr.EX, ~block_EX, EX.alu_en,
         EX.IR.code \in {"DIV", "MOD"}
  PROVE  division_output(EX_division) = divided(settled_division)
<1> DEFINE d == EX_division
           D == settled_division
<1>1. /\ d.is64 = D.is64 /\ d.signed = D.signed /\ d.en
      /\ fresh => d = D
      /\ d.op = EX.IR.code /\ D.op = EX.IR.code
  BY DivisionOperands DEF EX_division, settled_division, division
<1>2. use_divider(d) => ~await_div(d, FALSE)
  BY DEF block_EX, EX_alu_ready, alu_ready, await_div
<1>3. CASE div_state = "INIT_S"
  <2>1. d = D /\ div_by_0(d) /\ D.B = 0
    BY <1>1, <1>2, <1>3 DEF fresh, divides, use_divider, await_div, div_by_0
  <2> QED
    BY <1>1, <2>1 DEF division_output, div_bus, mod_bus, divided
<1>4. CASE div_state = "READY_TO_DIVIDE_S"
  BY <1>1, <1>2, <1>4 DEF use_divider, await_div, div_by_0
<1>5. CASE div_state = "DIVIDING_S"
  <2>1. divider.ok /\ ~div_by_0(d)
    BY <1>1, <1>2, <1>5 DEF use_divider, await_div, div_by_0, ok_div
  <2>2. /\ D.B # 0 /\ neg_result = signs_differ(D)
        /\ divider.A = magnitude(D, D.A) \div magnitude(D, D.B)
        /\ divider.B = magnitude(D, D.A) % magnitude(D, D.B)
    BY <1>5, <2>1 DEF QuotientInv, divides, under_way
  <2> QED
    BY <1>1, <2>1, <2>2 DEF division_output, div_bus, mod_bus, divided
<1> QED
  BY <1>3, <1>4, <1>5 DEF DividerInv, DivState, DivisionInv

(* An instruction goes to MEM when its operands are what they will be.     *)
OperandInv ==
  /\ PathInv /\ HostAlone /\ HeldInv /\ InTimeInv /\ DivisionInv /\ DividerInv /\ QuotientInv

(* What leaves EX for a register is what the instruction computes of the   *)
(* registers.                                                              *)
LEMMA ResultLeaves ==
  ASSUME PipelineInv, EXCarries, OperandInv, HostAlone', Cycle, load_EX, instr.EX, ~block_EX,
         EX.IR.class \in AluClass \union {"LD"}, EX.reg_write
  PROVE  EX_alu_output = computed(EX.IR, EX.PC, reg_file_written')
<1> USE DEF OperandInv, Cycle, Running
<1> DEFINE i == EX.IR
           c == computed(i, EX.PC, settled_regs)
<1>1. /\ i \in Instruction /\ valid_instruction(i) /\ sig_reg_write(i)
      /\ EX.alu64 = Control(i).alu64
      /\ EX.size = Control(i).size
      /\ EX.imm64 <=> i.class = "LD"
      /\ EX.alu_en <=> sig_alu_en(i)
  BY DEF EXCarries, carries, PathInv, Control
<1>2. ~EX.call
  BY DEF EXCarries, carries, is_call, AluClass
<1>3. EX_alu_op = operation(i)
  BY <1>1, <1>2 DEF EX_alu_op, operation
<1>4. ~DMEM_error
  BY Blocks DEF load_EX
<1>5. computed(i, EX.PC, reg_file_written') = c
  BY <1>1, LeavesSettled, ComputedReads
<1>6. CASE EX_alu_op \in {"DIV", "MOD"}
  <2>1. EX.alu_en /\ i.code \in {"DIV", "MOD"}
    BY <1>1, <1>3, <1>6 DEF operation, sig_alu_en, AluClass
  <2>2. division_output(EX_division) = divided(settled_division)
    BY <1>4, <2>1, DivisionAnswers
  <2> QED
    BY <1>1, <1>3, <1>5, <1>6, <2>2 DEF EX_alu_output, EX_cut, computed, fits, settled_division
<1>7. CASE EX_alu_op \notin {"DIV", "MOD"}
  <2>1. fresh
    BY <1>1, <1>3, <1>7 DEF fresh, DivisionInv, operation, sig_alu_en, AluClass
  <2>2. EX_operand_A = first(i, settled_regs) /\ EX_operand_B = second(i, EX.PC, settled_regs)
    BY <1>2, <1>4, <2>1, Operands
  <2> QED
    BY <1>1, <1>3, <1>5, <1>7, <2>2 DEF EX_alu_output, EX_cut, computed, fits
<1> QED
  BY <1>6, <1>7

(* A branch is taken as its operands say.                                  *)
LEMMA BranchLeaves ==
  ASSUME PipelineInv, EXCarries, OperandInv, HostAlone', Cycle, load_EX, instr.EX, ~block_EX
  PROVE  EX_volatile_taken_branch <=> branches(EX.IR, EX.PC, reg_file_written')
<1> USE DEF OperandInv, Cycle, Running
<1> DEFINE i == EX.IR
           R == reg_file_written'
<1>1. /\ valid_instruction(i) /\ (EX.branch <=> sig_branch(i))
      /\ EX.alu64 = Control(i).alu64
  BY DEF EXCarries, carries
<1>2. CASE ~EX.branch
  BY <1>1, <1>2 DEF EX_volatile_taken_branch, branches
<1>3. CASE EX.branch
  <2>1. ~EX.call /\ ~EX.alu_en
    BY <1>3 DEF PipelineInv, EXInv
  <2>2. ~DMEM_error /\ fresh
    BY <2>1, Blocks DEF load_EX, fresh, DivisionInv
  <2>3. EX_operand_A = first(i, settled_regs) /\ EX_operand_B = second(i, EX.PC, settled_regs)
    BY <2>1, <2>2, Operands
  <2>4. \A r \in reads(i) : R[r] = settled_regs[r]
    BY LeavesSettled
  <2>5. sig_use_dst(i) /\ (sig_use_src(i) \/ i.source # "REG")
    BY <1>1, <1>3 DEF sig_use_dst, sig_use_src
  <2>6. first(i, R) = first(i, settled_regs) /\ second(i, EX.PC, R) = second(i, EX.PC, settled_regs)
    BY <1>1, <2>4, <2>5, OperandsRead
  <2> QED
    BY <1>1, <1>3, <2>3, <2>6 DEF EX_volatile_taken_branch, branches
<1> QED
  BY <1>2, <1>3

(* What the buffer b holds for the instruction i at pc.                    *)
prepared(b, i, pc, R) ==
  /\ i.class \in AluClass \union {"LD"} /\ b.reg_write => b.C = computed(i, pc, R)
  /\ i.class = "ST" => b.data = constant(i, pc)
  /\ i.class = "STX" => b.data = R[i.src]
  /\ is_cmpxchg(i) => b.token = R[0]
  /\ is_call(i) => b.token = R[1] /\ b.data = R[2]

PreparedInv == instr.MEM => prepared(MEM, MEM_insn, MEM.PC, reg_file_written)

(* What leaves EX for the memory is what the instruction accesses.         *)
LEMMA PreparedLeaves ==
  ASSUME PipelineInv, EXCarries, OperandInv, HostAlone', Cycle, load_EX, instr.EX, ~block_EX
  PROVE  prepared(MEM', EX.IR, EX.PC, reg_file_written')
<1> USE DEF OperandInv, Cycle, Running
<1> DEFINE i == EX.IR
           R == reg_file_written'
<1>1. MEM' = buffer_EX /\ ~DMEM_error
  BY InstructionLeaves
<1>2. /\ valid_instruction(i)
      /\ EX.force_imm <=> sig_force_imm(i)
      /\ EX.addr_calc <=> sig_addr_calc(i)
      /\ EX.call <=> is_call(i)
      /\ EX.branch <=> sig_branch(i)
      /\ EX.alu_en <=> sig_alu_en(i)
  BY DEF EXCarries, carries
<1>3. /\ MEM'.data = EX_stx_data /\ MEM'.token = EX_fw_cmpxchg_token /\ MEM'.C = EX_C
      /\ MEM'.reg_write => EX.reg_write
  BY <1>1 DEF buffer_EX
<1>4. \A r \in reads(i) : R[r] = settled_regs[r]
  BY LeavesSettled
<1>5. ASSUME i.class \in AluClass \union {"LD"}, MEM'.reg_write
      PROVE  MEM'.C = computed(i, EX.PC, R)
  <2>1. MEM'.C = EX_alu_output
    BY <1>2, <1>3, <1>5 DEF EX_C, sig_addr_calc, MemClass, AluClass
  <2> QED
    BY <1>3, <1>5, <2>1, ResultLeaves
<1>6. ASSUME i.class = "ST" PROVE MEM'.data = constant(i, EX.PC)
  BY <1>2, <1>3, <1>6, ConstantOperand DEF EX_stx_data, sig_force_imm
<1>7. ASSUME i.class = "STX" \/ is_call(i) PROVE fresh
  BY <1>2, <1>7 DEF fresh, DivisionInv, sig_alu_en, is_call
<1>8. ASSUME i.class = "STX"
      PROVE  MEM'.data = R[i.src] /\ (is_cmpxchg(i) => MEM'.token = R[0])
  <2>1. ~EX.force_imm /\ ~EX.call /\ ~EX.branch /\ sig_use_src(i)
    BY <1>2, <1>8 DEF sig_force_imm, is_call, sig_branch, is_jump, JumpClass, sig_use_src,
                      sig_addr_calc, MemClass
  <2>2. EX_fw_operand_B = settled_regs[i.src] /\ EX_fw_cmpxchg_token = settled_regs[0]
    BY <1>1, <1>7, <1>8, <2>1, Operands
  <2>3. R[i.src] = settled_regs[i.src] /\ (is_cmpxchg(i) => R[0] = settled_regs[0])
    BY <1>2, <1>4, <2>1, OperandsRead
  <2> QED
    BY <1>3, <2>1, <2>2, <2>3 DEF EX_stx_data
<1>9. ASSUME is_call(i) PROVE MEM'.token = R[1] /\ MEM'.data = R[2]
  <2>1. ~EX.force_imm /\ EX.call /\ ~EX.branch
    BY <1>2, <1>9 DEF sig_force_imm, is_call, sig_branch
  <2>2. EX_fw_operand_A = settled(2) /\ EX_fw_cmpxchg_token = settled(1)
    BY <1>1, <1>7, <1>9, <2>1, OperandsSettled
       DEF EX_reg_A, EX_reg_token, register_A, register_token
  <2>3. 1 \in Regs /\ 2 \in Regs
    BY DEF Regs
  <2>4. R[1] = settled_regs[1] /\ R[2] = settled_regs[2]
    BY <1>2, <1>4, <1>9, OperandsRead
  <2> QED
    BY <1>3, <2>1, <2>2, <2>3, <2>4 DEF EX_stx_data, settled_regs
<1>10. is_cmpxchg(i) => i.class = "STX"
  BY DEF is_cmpxchg, is_atomic
<1> QED
  BY <1>5, <1>6, <1>8, <1>9, <1>10 DEF prepared

(* An instruction that is in MEM in the next cycle was in EX or in MEM,    *)
(* where it waits.                                                         *)
LEMMA InMEM ==
  ASSUME EXCarries, LoadBuffers, instr'.MEM
  PROVE  \/ load_EX /\ instr.EX /\ ~block_EX
         \/ ~load_EX /\ instr.MEM /\ MEM' = MEM
BY DEF LoadBuffers

prepared_in_MEM == prepared(MEM, MEM_insn, MEM.PC, reg_file_written)

(* After a cycle MEM still holds what its instruction accesses and         *)
(* computes.                                                               *)
LEMMA PreparedStep ==
  ASSUME PipelineInv, EXCarries, MEMCarries, OperandInv, PreparedInv, HostAlone', Agreed, Cycle
  PROVE  PreparedInv'
<1> USE DEF Cycle, Running
<1> SUFFICES ASSUME instr'.MEM
             PROVE  prepared_in_MEM'
  BY DEF PreparedInv, prepared_in_MEM
<1>1. prepared_in_MEM' <=> prepared(MEM', MEM_insn', MEM'.PC, reg_file_written')
  BY DEF prepared_in_MEM, prepared, computed, division, first, second, constant, fits
<1>2. CASE load_EX /\ instr.EX /\ ~block_EX
  <2>1. MEM_insn' = EX.IR /\ MEM'.PC = EX.PC
    BY <1>2, InstructionLeaves
  <2> QED
    BY <1>1, <1>2, <2>1, PreparedLeaves
<1>3. CASE ~load_EX /\ instr.MEM /\ MEM' = MEM
  <2>1. reg_file_written' = reg_file_written
    BY <1>3, RegistersStay DEF HostAlone, OperandInv
  <2>2. MEM_insn' = MEM_insn
    BY <1>3 DEF MEM_insn
  <2> QED
    BY <1>1, <1>3, <2>1, <2>2 DEF PreparedInv
<1> QED
  BY <1>2, <1>3, InMEM
-----------------------------------------------------------------------------
(***************************************************************************)
(* The program counter of the machine.                                     *)
(***************************************************************************)

(* Behind the instruction in MEM comes the one that it goes on to.         *)
SuccessorInv ==
  instr.MEM /\ ~DMEM_error => pc_EX = successor(MEM_insn, MEM.PC, reg_file_written)

successor_in_MEM == successor(MEM_insn, MEM.PC, reg_file_written)

(* As long as nothing is let go from EX and from MEM, nothing is from ID.  *)
LEMMA PathWaits ==
  ASSUME LoadBuffers, ~load_EX
  PROVE  pc_EX' = pc_EX /\ MEM' = MEM /\ instr'.MEM = instr.MEM
<1>1. ~load_ID
  BY LoadsInOrder
<1> QED
  BY <1>1, InstructionStays DEF pc_EX, pc_ID

(* After a cycle the next address is still the one to which the            *)
(* instruction in MEM goes on.                                             *)
LEMMA SuccessorStep ==
  ASSUME PipelineInv, EXCarries, MEMCarries, OperandInv, StopInv, SuccessorInv, HostAlone',
         Agreed, Cycle
  PROVE  SuccessorInv'
<1> USE DEF Cycle, Running
<1> SUFFICES ASSUME instr'.MEM, ~DMEM_error'
             PROVE  pc_EX' = successor_in_MEM'
  BY DEF SuccessorInv, successor_in_MEM
<1>1. successor_in_MEM' = successor(MEM_insn', MEM'.PC, reg_file_written')
  BY DEF successor_in_MEM, successor, branches, first, second, constant, fits
<1>2. CASE load_EX /\ instr.EX /\ ~block_EX
  <2> DEFINE i == EX.IR
  <2>1. /\ MEM_insn' = i /\ MEM'.PC = EX.PC /\ load_ID
    BY <1>2, InstructionLeaves
  <2>2. EX_volatile_taken_branch <=> branches(i, EX.PC, reg_file_written')
    BY <1>2, BranchLeaves
  <2>3. pc_ID = straight_on(i, EX.PC)
    BY <1>2 DEF OperandInv, PathInv
  <2>4. pc_EX' = IF EX_volatile_taken_branch THEN EX.token ELSE pc_ID
    <3>1. CASE instr'.EX
      <4>1. ~EX_taken_branch /\ EX'.PC = pc_ID
        BY <2>1, <3>1, FetchedBehind DEF OperandInv, PipelineInv
      <4> QED
        BY <3>1, <4>1 DEF pc_EX, EX_taken_branch
    <3>2. CASE ~instr'.EX
      BY <2>1, <3>2, FetchedBehindBubble DEF OperandInv, PipelineInv, Agreed, pc_EX
    <3> QED
      BY <3>1, <3>2
  <2>5. EX_volatile_taken_branch =>
          /\ EX.token = JumpTo(NextPC(EX.PC), i.offset)
          /\ ~Control(i).jump /\ ~Control(i).jump32
    <3>1. EX.branch => sig_branch(i)
      BY <1>2 DEF EXCarries
    <3> QED
      BY <3>1 DEF EX_volatile_taken_branch, OperandInv, PathInv, sig_branch, Control
  <2>6. successor(i, EX.PC, reg_file_written') =
          IF EX_volatile_taken_branch THEN EX.token ELSE straight_on(i, EX.PC)
    BY <2>2, <2>5 DEF successor, straight_on, jumps_to
  <2> QED
    BY <1>1, <2>1, <2>3, <2>4, <2>6
<1>3. CASE ~load_EX /\ instr.MEM /\ MEM' = MEM
  <2>1. reg_file_written' = reg_file_written
    BY <1>3, RegistersStay DEF HostAlone, OperandInv
  <2>2. MEM_insn' = MEM_insn /\ ~DMEM_error /\ pc_EX' = pc_EX
    BY <1>3, ErrorStays, PathWaits DEF MEM_insn
  <2> QED
    BY <1>1, <1>3, <2>1, <2>2 DEF SuccessorInv
<1> QED
  BY <1>2, <1>3, InMEM

(* An instruction is let go from MEM, or it has to wait there, or there is *)
(* none: an address that is not valid or a helper function that is not     *)
(* known is the end.                                                       *)
LEMMA WaitsInMEM ==
  ASSUME HfuInv, MEMCarries, ~error_function_id, ~load_EX
  PROVE  instr.MEM
BY MEMWaits, Blocks DEF load_EX, DMEM_error, MEM_access, MEMCarries

(* The oldest instruction that is not done.                                *)
OldestInv == architectural_pc = IF instr.MEM THEN MEM.PC ELSE pc_EX

(* The program counter of the machine is that of the oldest instruction.   *)
LEMMA Oldest == MEMCarries /\ StopInv => OldestInv
BY DEF OldestInv, architectural_pc, MEMCarries, StopInv, DMEM_error, MEM_access, pc_EX, pc_ID

(* And in the next state.                                                  *)
LEMMA OldestNext == MEMCarries' /\ StopInv' => OldestInv'
BY Oldest, PTL

(* When the instruction in MEM is done the one behind it is the oldest.    *)
LEMMA PathGoesOn ==
  ASSUME PipelineInv, EXCarries, StopInv, PathInv, Agreed, Cycle, OldestInv', load_EX
  PROVE  architectural_pc' = pc_EX
<1> USE DEF Cycle, Running
<1>1. architectural_pc' = IF instr'.MEM THEN MEM'.PC ELSE pc_EX'
  BY DEF OldestInv
<1>2. CASE instr.EX /\ ~block_EX
  BY <1>1, <1>2, InstructionLeaves DEF pc_EX
<1>3. CASE instr.EX /\ block_EX
  <2>1. ~load_ID
    BY <1>3 DEF load_ID
  <2> QED
    BY <1>1, <1>3, <2>1, InstructionStays DEF pc_EX
<1>4. CASE ~instr.EX
  <2>1. ~block_EX /\ load_ID /\ ~instr'.MEM /\ ~EX.branch
    BY <1>4, EXWaits, LoadsInOrder DEF EXCarries, LoadBuffers
  <2>2. CASE instr'.EX
    BY <1>1, <1>4, <2>1, <2>2, FetchedBehind DEF pc_EX, PipelineInv
  <2>3. CASE ~instr'.EX
    <3>1. ~EX_volatile_taken_branch
      BY <2>1 DEF EX_volatile_taken_branch
    <3>2. pc_ID' = pc_ID
      BY <2>1, <2>3, <3>1, FetchedBehindBubble DEF PipelineInv, Agreed
    <3> QED
      BY <1>1, <1>4, <2>1, <2>3, <3>2 DEF pc_EX
  <2> QED
    BY <2>2, <2>3
<1> QED
  BY <1>2, <1>3, <1>4
-----------------------------------------------------------------------------
(***************************************************************************)
(* The memory.                                                             *)
(***************************************************************************)

(* Between the two cycles of an atomic operation the interface holds what  *)
(* the first one has read.                                                 *)
MemoryInv ==
  /\ dmem_state \in {"INIT_S", "MODIFY_WRITE_S", "ERROR_S"}
  /\ dmem_state = "ERROR_S" => DMEM_error
  /\ dmem_state = "MODIFY_WRITE_S" =>
       /\ MEM_access /\ MEM.atomic /\ ~DMEM_error
       /\ DMEM_output = output(mem[MEM_word], MEM.size, MEM.C)

(* After a cycle the interface still holds the word of the atomic          *)
(* operation in its second half.                                           *)
LEMMA MemoryStep ==
  ASSUME MemoryInv, Cycle
  PROVE  MemoryInv'
<1> USE DEF Cycle, Running
<1>1. CASE DMEM_error
  BY <1>1, ErrorStays DEF DataMemoryStep, MemoryInv
<1>2. CASE ~DMEM_error
  <2>1. dmem_state' \in {"INIT_S", "MODIFY_WRITE_S"} /\ dmem_state # "ERROR_S"
    BY <1>2 DEF DataMemoryStep, MemoryInv
  <2>2. ASSUME dmem_state' = "MODIFY_WRITE_S"
        PROVE  /\ MEM_access' /\ MEM'.atomic /\ ~DMEM_error'
               /\ DMEM_output' = output(mem'[MEM_word'], MEM'.size, MEM'.C)
    <3>1. MEM_serve /\ MEM.atomic
      BY <1>2, <2>2 DEF DataMemoryStep, MEM_modify
    <3>2. block_MEM /\ MEM_access
      BY <1>2, <3>1 DEF block_MEM, MEM_ready, MEM_serve
    <3>3. MEM' = MEM
      BY <3>2, LoadsInOrder DEF LoadBuffers
    <3>4. mem' = mem /\ DMEM_output' = output(mem[MEM_word], MEM.size, MEM.C)
      BY <3>1 DEF DataMemoryStep, MEM_modify, MEM_serve
    <3> QED
      BY <1>2, <3>1, <3>2, <3>3, <3>4 DEF MEM_access, DMEM_error, MEM_word
  <2> QED
    BY <2>1, <2>2 DEF MemoryInv
<1> QED
  BY <1>1, <1>2

(* The memory changes when an access is done.                              *)
LEMMA MemoryWaits ==
  ASSUME PipelineInv, MEMCarries, MemoryInv, Agreed, Cycle, ~(load_EX /\ instr.MEM)
  PROVE  mem' = mem
<1>1. CASE ~MEM_access
  BY <1>1 DEF Cycle, DataMemoryStep, MEM_serve, MEM_modify, MemoryInv
<1>2. CASE MEM_access
  <2>1. instr.MEM /\ ~load_EX
    BY <1>2 DEF MEMCarries, MEM_access
  <2>2. ~await_MEM
    BY <1>2 DEF PipelineInv, EXInv, HfuInv, Agreed, await_MEM
  <2>3. DMEM_error \/ ~MEM_ready
    BY <2>1, <2>2, Blocks DEF load_EX, block_MEM
  <2> QED
    BY <2>3 DEF MEM_ready, MEM_serve, MEM_modify, Cycle, DataMemoryStep
<1> QED
  BY <1>1, <1>2
-----------------------------------------------------------------------------
(***************************************************************************)
(* An instruction is done when it leaves MEM.                              *)
(***************************************************************************)
done == load_EX /\ instr.MEM

(* The signals in MEM, the address of an access and what there is to do.   *)
LEMMA DoneFacts ==
  ASSUME PipelineInv, AccessInv, MEMCarries, MemoryInv, Agreed, done
  PROVE  LET i == MEM_insn
         IN  /\ ~DMEM_error /\ ~block_MEM /\ (MEM_access <=> i.class \in MemClass)
             /\ i.class \in MemClass => MEM.C = address(i, reg_file_written) /\ MEM.size = i.size
             /\ MEM_word = MEM.C \div 8
             /\ MEM_access /\ ~MEM.atomic => MEM_serve /\ ~MEM_modify
             /\ MEM_access /\ MEM.atomic =>
                  MEM_modify /\ ~MEM_serve /\ DMEM_output = output(mem[MEM_word], MEM.size, MEM.C)
             /\ ~MEM_access => ~MEM_serve /\ ~MEM_modify
<1> DEFINE i == MEM_insn
<1>1. ~DMEM_error /\ ~block_MEM /\ instr.MEM
  BY Blocks DEF done, load_EX
<1>2. MEM_access <=> i.class \in MemClass
  BY <1>1 DEF MEMCarries, carries, MEM_access, Control, MemClass
<1>3. i.class \in MemClass => MEM.C = address(i, reg_file_written) /\ MEM.size = i.size
  BY <1>1, <1>2 DEF MEMCarries, carries, Control, AccessInv, AddressInv, MEM_base, address
<1>4. MEM_ready
  BY <1>1 DEF block_MEM
<1>5. MEM_access /\ ~MEM.atomic => MEM_serve /\ ~MEM_modify
  BY <1>1, <1>4 DEF MEM_ready, MemoryInv, MEM_serve, MEM_modify
<1>6. MEM_access /\ MEM.atomic =>
        MEM_modify /\ ~MEM_serve /\ DMEM_output = output(mem[MEM_word], MEM.size, MEM.C)
  BY <1>1, <1>4 DEF MEM_ready, MemoryInv, MEM_serve, MEM_modify
<1>7. ~MEM_access => ~MEM_serve /\ ~MEM_modify
  BY DEF MEM_serve, MEM_modify, MemoryInv
<1> QED
  BY <1>1, <1>2, <1>3, <1>5, <1>6, <1>7 DEF MEM_word

(* What is written to the register bank.                                   *)
LEMMA ResultDone ==
  ASSUME PipelineInv, AccessInv, MEMCarries, MemoryInv, PreparedInv, Agreed, Cycle, done,
         MEM.reg_write \/ MEM.write_r0
  PROVE  WB_reg_value' = result(MEM_insn, MEM.PC, reg_file_written, mem)
<1> USE DEF Cycle, Running
<1> DEFINE i == MEM_insn
           R == reg_file_written
<1>1. WB' = buffer_MEM /\ instr.MEM /\ ~block_MEM
  BY DoneFacts, LoadsInOrder DEF done, LoadBuffers, load_MEM
<1>2. /\ WB'.mem_to_reg = MEM.mem_to_reg /\ WB'.size = MEM.size /\ WB'.sign_ext = MEM.sign_ext
      /\ WB'.ex_value = MEM_ex_value
  BY <1>1 DEF buffer_MEM
<1>3. /\ carries(MEM, i) /\ prepared(MEM, i, MEM.PC, R)
      /\ MEM.mem_to_reg <=> i.class \in MemClass
      /\ MEM.call <=> is_call(i)
  BY <1>1 DEF MEMCarries, carries, Control, sig_addr_calc, PreparedInv
<1>4. CASE i.class \in MemClass
  <2>1. ~is_call(i)
    BY <1>4 DEF is_call, MemClass
  <2>2. MEM.read_en /\ (MEM.atomic \/ ~MEM.write_en)
    <3>1. /\ MEM.write_en <=> i.class \in {"ST", "STX"}
          /\ MEM.read_en <=> i.class = "LDX" \/ (i.class = "STX" /\ i.fetch)
          /\ MEM.atomic <=> is_atomic(i)
          /\ sig_reg_write(i) \/ is_cmpxchg(i)
      BY <1>3, <2>1 DEF carries, Control
    <3>2. i.class = "LDX" \/ (i.class = "STX" /\ i.mode # "MEM")
      BY <1>4, <3>1 DEF sig_reg_write, MemClass, is_cmpxchg, is_atomic
    <3>3. CASE i.class = "LDX"
      BY <3>1, <3>3
    <3>4. CASE i.class = "STX" /\ i.mode # "MEM"
      <4>1. valid_store(i)
        BY <1>3, <3>4 DEF carries, valid_instruction, AluClass, JumpClass
      <4>2. i.mode = "ATOMIC" /\ (is_cmpxchg(i) => i.fetch)
        BY <3>4, <4>1 DEF valid_store, is_cmpxchg, is_atomic_op, is_atomic_fetch,
                          is_atomic_cmpxchg, SimpleAtomics
      <4> QED
        BY <3>1, <3>4, <4>2 DEF is_atomic, sig_reg_write
    <3> QED
      BY <3>2, <3>3, <3>4
  <2>3. DMEM_output' = output(mem[MEM_word], MEM.size, MEM.C)
    BY <1>4, <2>2, DoneFacts DEF DataMemoryStep
  <2>4. /\ MEM.C = address(i, R) /\ MEM.size = i.size /\ MEM_word = address(i, R) \div 8
    BY <1>4, DoneFacts
  <2>5. MEM.sign_ext <=> Control(i).sign_ext
    BY <1>3 DEF carries
  <2>6. WB_reg_value' = byte_mask(DMEM_output', MEM.size, MEM.sign_ext)
    BY <1>2, <1>3, <1>4 DEF WB_reg_value, WB_mem_value
  <2> QED
    BY <1>4, <2>1, <2>3, <2>4, <2>5, <2>6 DEF result, fetched, byte_mask
<1>5. CASE is_call(i)
  <2>1. i.class \notin MemClass
    BY <1>5 DEF is_call, MemClass
  <2>2. map_info = Maps[LOOKUP_id(MEM.token)]
    BY <1>1, <1>3, <1>5 DEF PipelineInv, HfuInv, Agreed, block_MEM, await_MEM
  <2>3. MEM.token = R[1] /\ MEM.data = R[2]
    BY <1>3, <1>5 DEF prepared
  <2> QED
    BY <1>2, <1>3, <1>5, <2>1, <2>2, <2>3
       DEF result, WB_reg_value, MEM_ex_value, MEM_call_value, MapLookup
<1>6. CASE i.class \notin MemClass /\ ~is_call(i)
  <2>1. MEM.reg_write /\ i.class \in AluClass \union {"LD"}
    BY <1>3, <1>6 DEF carries, Control, is_cmpxchg, is_atomic, MemClass, sig_reg_write, is_jump,
                      valid_instruction
  <2>2. MEM.C = computed(i, MEM.PC, R)
    BY <1>3, <2>1 DEF prepared
  <2> QED
    BY <1>2, <1>3, <1>6, <2>2 DEF result, WB_reg_value, MEM_ex_value
<1> QED
  BY <1>4, <1>5, <1>6

(* The registers change as the instruction says in the cycle it leaves     *)
(* MEM.                                                                    *)
LEMMA RegistersDone ==
  ASSUME PipelineInv, AccessInv, MEMCarries, MemoryInv, PreparedInv, HostAlone', Agreed, Cycle,
         done, RegInput
  PROVE  reg_file_written' = regs_after(MEM_insn, MEM.PC, reg_file_written, mem)
<1> USE DEF Cycle, Running
<1> DEFINE i == MEM_insn
           R == reg_file_written
           v == result(i, MEM.PC, R, mem)
<1>1. ~CORE_reg'.write /\ load_EX
  BY HostWaits DEF done
<1>2. R' = [r \in Regs |-> IF consume(MEM, r) THEN WB_reg_value' ELSE R[r]]
  BY <1>1, RegistersWritten
<1>3. R = [r \in Regs |-> R[r]] /\ DOMAIN R = Regs
  BY DEF reg_file_written
<1>4. /\ MEM.reg_write <=> Control(i).reg_write
      /\ MEM.write_r0 <=> Control(i).write_r0
      /\ MEM.dst = IF i.class = "STX" /\ i.fetch THEN i.src ELSE i.dst
  BY DEF done, MEMCarries, carries
<1>5. CASE Control(i).reg_write \/ Control(i).write_r0
  <2>1. ~(Control(i).reg_write /\ Control(i).write_r0)
    BY DEF Control, sig_reg_write, is_cmpxchg, is_atomic, is_call, is_jump, JumpClass
  <2>2. Control(i).reg_write /\ i.class = "STX" => i.fetch
    BY DEF Control, sig_reg_write
  <2>3. \A r : consume(MEM, r) <=> r = target(i)
    BY <1>4, <1>5, <2>1, <2>2 DEF consume, target
  <2>4. WB_reg_value' = v
    BY <1>4, <1>5, ResultDone
  <2>5. R' = [r \in Regs |-> IF r = target(i) THEN v ELSE R[r]]
    BY <1>2, <2>3, <2>4
  <2>6. [R EXCEPT ![target(i)] = v] = [r \in Regs |-> IF r = target(i) THEN v ELSE R[r]]
    BY <1>3
  <2> QED
    BY <1>5, <2>5, <2>6 DEF regs_after
<1>6. CASE ~Control(i).reg_write /\ ~Control(i).write_r0
  BY <1>2, <1>3, <1>4, <1>6 DEF regs_after, consume
<1> QED
  BY <1>5, <1>6

(* And so does the memory.                                                 *)
LEMMA MemoryDone ==
  ASSUME PipelineInv, AccessInv, MEMCarries, MemoryInv, PreparedInv, Agreed, Cycle, done
  PROVE  mem' = mem_after(MEM_insn, MEM.PC, reg_file_written, mem)
<1> USE DEF Cycle, Running
<1> DEFINE i == MEM_insn
           R == reg_file_written
<1>1. /\ carries(MEM, i) /\ prepared(MEM, i, MEM.PC, R) /\ MEM.aop = i.aop
      /\ MEM.write_en <=> i.class \in {"ST", "STX"}
      /\ MEM.atomic <=> is_atomic(i)
      /\ Control(i).write_en <=> i.class \in {"ST", "STX"}
  BY DEF done, MEMCarries, carries, Control, PreparedInv
<1>2. CASE ~Control(i).write_en
  <2>1. ~MEM.write_en /\ ~MEM.atomic
    BY <1>1, <1>2 DEF is_atomic
  <2> QED
    BY <1>2, <2>1, DoneFacts DEF DataMemoryStep, mem_after
<1>3. CASE Control(i).write_en
  <2>1. /\ i.class \in MemClass /\ MEM_access
        /\ MEM.C = address(i, R) /\ MEM.size = i.size /\ MEM_word = address(i, R) \div 8
    BY <1>1, <1>3, DoneFacts DEF MemClass
  <2>2. CASE is_atomic(i)
    <3>1. MEM_modify /\ ~MEM_serve /\ MEM.data = R[i.src]
          /\ (i.aop = "CMPXCHG" => MEM.token = R[0])
      BY <1>1, <2>1, <2>2, DoneFacts DEF prepared, is_atomic, is_cmpxchg
    <3>2. mem' = [mem EXCEPT ![MEM_word] =
                    modified(MEM.aop, @, MEM.data, MEM.token, MEM.size, MEM.C)]
      BY <3>1 DEF DataMemoryStep
    <3>3. \A old : modified(MEM.aop, old, MEM.data, MEM.token, MEM.size, MEM.C)
                     = modified(i.aop, old, R[i.src], R[0], i.size, address(i, R))
      BY <1>1, <2>1, <3>1 DEF modified
    <3>4. mem' = [mem EXCEPT ![MEM_word] = modified(i.aop, @, R[i.src], R[0], i.size, address(i, R))]
      BY <3>2, <3>3
    <3> QED
      BY <1>3, <2>1, <2>2, <3>4 DEF mem_after
  <2>3. CASE ~is_atomic(i)
    <3>1. MEM_serve /\ ~MEM.atomic
      BY <1>1, <2>1, <2>3, DoneFacts
    <3>2. MEM.write_en /\ ~MEM.read_en
      BY <1>1, <1>3, <2>3
         DEF carries, Control, is_atomic, valid_instruction, valid_store, AluClass, JumpClass
    <3>3. MEM.data = IF i.class = "ST" THEN constant(i, MEM.PC) ELSE R[i.src]
      BY <1>1, <1>3 DEF prepared
    <3> QED
      BY <1>3, <2>1, <2>3, <3>1, <3>2, <3>3 DEF DataMemoryStep, mem_after
  <2> QED
    BY <2>2, <2>3
<1> QED
  BY <1>2, <1>3

(* Nothing is wrong with an instruction that gets there.                   *)
LEMMA FaultlessDone ==
  ASSUME PipelineInv, AccessInv, MEMCarries, MemoryInv, Agreed, done
  PROVE  ~Sequential!Exits(MEM_insn) /\ ~Sequential!Faults(MEM_insn)
<1> DEFINE i == MEM_insn
<1>1. carries(MEM, i)
  BY DEF done, MEMCarries
<1>2. is_call(i) => i.imm = LOOKUP_FUNCTION
  BY <1>1 DEF carries
<1>3. i.class \in MemClass => address(i, reg_file_written) \in ValidAddr
  BY DoneFacts DEF DMEM_error
<1>4. Sequential!MemAddr(i) = address(i, reg_file_written)
  BY SameInstructions DEF address
<1> QED
  BY <1>1, <1>2, <1>3, <1>4, SameInstructions DEF carries, Sequential!Faults, is_call
-----------------------------------------------------------------------------
(***************************************************************************)
(* The invariant.                                                          *)
(***************************************************************************)
InOrderInv ==
  /\ CarryInv /\ OperandInv /\ StopInv /\ PreparedInv /\ SuccessorInv /\ MemoryInv

(* What is proved of the pipeline elsewhere.                               *)
BaseInv == PipelineInv /\ AccessInv /\ DividerInv

(* A core that is switched on has nothing under way that could disagree.   *)
LEMMA InOrderInit == Init => InOrderInv
<1> SUFFICES ASSUME Init PROVE InOrderInv
  OBVIOUS
<1>1. /\ IF_PC = 0 /\ ID = ID_reset /\ EX = EX_reset /\ MEM = MEM_reset /\ WB = WB_reset
      /\ ~instr.EX /\ ~instr.MEM /\ dmem_state = "INIT_S" /\ ~EX_saved_taken_branch
      /\ CORE_reg = NoWrite /\ hfu_state = "INIT_S" /\ div_state = "INIT_S"
      /\ divider = DividerIdle /\ imem \in [PC -> Instruction]
  BY ProgramsOK DEF Init, PowerUp, HfuInit, DivInit
<1>2. CarryInv
  BY <1>1 DEF CarryInv, EXCarries, MEMCarries, CallInv, EX_reset, MEM_reset
<1>3. PathInv
  BY <1>1, PCs DEF PathInv, ID_reset, EX_reset
<1>4. HostAlone /\ HeldInv /\ InTimeInv /\ DivisionInv /\ QuotientInv
  BY <1>1 DEF HostAlone, NoWrite, HeldInv, InTimeInv, DivisionInv, divides, QuotientInv
<1>5. DividerInv
  BY <1>1, DivLatencyOK DEF DividerInv, DivState, DividerIdle
<1>6. StopInv /\ PreparedInv /\ SuccessorInv /\ MemoryInv
  BY <1>1 DEF StopInv, EX_volatile_taken_branch, EX_reset, PreparedInv, SuccessorInv, MemoryInv
<1> QED
  BY <1>2, <1>3, <1>4, <1>5, <1>6 DEF InOrderInv, OperandInv

(* Every cycle of a core that runs keeps what the stages know of their     *)
(* instructions.                                                           *)
LEMMA InOrderCycle ==
  ASSUME HostSleeps # "any", BaseInv, BaseInv', Agreed, Agreed', InOrderInv, Next, ~CORE_reset
  PROVE  InOrderInv'
<1> USE DEF InOrderInv, OperandInv, BaseInv, Agreed, CarryInv
<1>1. Cycle /\ RegInput /\ SleepInput
  BY DEF Next, InReset, Cycle
<1>2. CarryInv'
  BY <1>1, CarryStep
<1>3. HostAlone'
  BY <1>1, HostAloneStep DEF Cycle
<1>4. InTimeInv'
  BY <1>1, InTimeStep DEF Cycle, PipelineInv
<1>5. HeldInv'
  BY <1>1, <1>2, HeldStep DEF AccessInv
<1>6. StopInv'
  BY <1>1, StopStep
<1>7. PathInv'
  BY <1>1, PathStep
<1>8. DivisionInv' /\ QuotientInv'
  BY <1>1, <1>3, DivisionStep, QuotientStep
<1>9. PreparedInv' /\ SuccessorInv'
  BY <1>1, <1>3, PreparedStep, SuccessorStep
<1>10. MemoryInv'
  BY <1>1, MemoryStep
<1> QED
  BY <1>2, <1>3, <1>4, <1>5, <1>6, <1>7, <1>8, <1>9, <1>10

(* A reset leaves nothing under way.                                       *)
LEMMA InOrderReset ==
  ASSUME BaseInv, BaseInv', InOrderInv, Next, CORE_reset
  PROVE  InOrderInv'
<1>1. /\ IF_PC' = 0 /\ ID' = ID_reset /\ EX' = EX_reset /\ MEM' = MEM_reset /\ WB' = WB_reset
      /\ ~instr'.EX /\ ~instr'.MEM /\ ~EX_saved_taken_branch'
      /\ hfu_state' = "INIT_S" /\ imem' = imem
  BY DEF Next, Running, InReset, ResetBuffers, ResetFlags
<1>2. ~MEM_access /\ dmem_state = "INIT_S"
  BY DEF BaseInv, PipelineInv, ResetInv, InOrderInv, MemoryInv, DMEM_error
<1>3. dmem_state' = "INIT_S"
  BY <1>2 DEF Next, DataMemoryStep, DMEM_error, MEM_serve, MEM_modify
<1>4. ~divides'
  BY DEF Next, DividerStep, NextDivState, divides
<1>5. CarryInv'
  BY <1>1 DEF CarryInv, EXCarries, MEMCarries, CallInv, EX_reset, MEM_reset
<1>6. PathInv'
  BY <1>1, PCs DEF InOrderInv, OperandInv, PathInv, ID_reset, EX_reset
<1>7. HostAlone' /\ HeldInv' /\ InTimeInv' /\ DivisionInv' /\ QuotientInv'
  BY <1>1, <1>4 DEF HostAlone, WB_reset, HeldInv, InTimeInv, DivisionInv, QuotientInv
<1>8. StopInv' /\ PreparedInv' /\ SuccessorInv' /\ MemoryInv'
  BY <1>1, <1>3 DEF StopInv, EX_volatile_taken_branch, EX_reset, PreparedInv, SuccessorInv,
                    MemoryInv
<1> QED
  BY <1>5, <1>6, <1>7, <1>8 DEF InOrderInv, OperandInv, BaseInv

(* A step in which nothing happens changes nothing of it.                  *)
LEMMA InOrderStutter ==
  ASSUME InOrderInv, UNCHANGED vars
  PROVE  InOrderInv'
<1>1. /\ UNCHANGED <<imem, IF_PC, ID, EX, MEM, WB, reg_file, mem, dmem_state, DMEM_output>>
      /\ UNCHANGED <<CORE_reg, CORE_sleep, instr, hfu_state, map_info>> /\ UNCHANGED flagVars
      /\ UNCHANGED <<div_state, saved_operand, neg_result, divider>>
  BY DEF vars, stageVars, inputVars, hfuVars, divVars
<1>2. UNCHANGED <<reg_file_written, MEM_ex_value, DMEM_error, MEM_access, MEM_insn, MEM_word>>
  BY <1>1 DEF reg_file_written, bank_write, bank_dst, bank_input, WB_reg_value, WB_mem_value,
              MEM_ex_value, MEM_call_value, DMEM_error, MEM_access, MEM_insn, MEM_word
<1>3. UNCHANGED <<EX_volatile_taken_branch, EX_taken_branch>>
  BY <1>1
     DEF flagVars, EX_taken_branch, EX_volatile_taken_branch, EX_operand_A, EX_operand_B, EX_cut,
         EX_fw_operand_A, EX_fw_operand_B, EX_operand, forwarded, EX_imm64, EX_uses_imm,
         MEM_ex_value, MEM_call_value, WB_reg_value, WB_mem_value
<1>4. UNCHANGED <<ID_call, ID_IR>>
  BY <1>1, <1>3 DEF ID_call, ID_control, ID_discard_ID, ID_IR
<1>5. UNCHANGED <<pc_ID, pc_EX, settled_regs, fresh, divides>>
  BY <1>1, <1>2 DEF pc_ID, pc_EX, settled_regs, settled, fresh, divides
<1>6. UNCHANGED <<settled_division, prepared_in_MEM, successor_in_MEM>>
  <2>1. settled_division' = settled_division
    BY <1>1, <1>5 DEF settled_division, division, first, second, constant, fits
  <2>2. prepared_in_MEM' = prepared_in_MEM
    BY <1>1, <1>2 DEF prepared_in_MEM, prepared, computed, division, first, second, constant, fits
  <2>3. successor_in_MEM' = successor_in_MEM
    BY <1>1, <1>2 DEF successor_in_MEM, successor, branches, first, second, constant, fits
  <2> QED
    BY <2>1, <2>2, <2>3
<1>7. CarryInv'
  BY <1>1, <1>2, <1>4 DEF InOrderInv, CarryInv, EXCarries, MEMCarries, CallInv, carries
<1>8. PathInv'
  BY <1>1, <1>5 DEF InOrderInv, OperandInv, PathInv
<1>9. HostAlone' /\ HeldInv' /\ InTimeInv'
  BY <1>1, <1>2, <1>5
     DEF InOrderInv, OperandInv, HostAlone, HeldInv, InTimeInv, held, EX_reg_A, EX_reg_B,
         EX_reg_token
<1>10. DivisionInv' /\ DividerInv' /\ QuotientInv'
  BY <1>1, <1>2, <1>5, <1>6
     DEF InOrderInv, OperandInv, DivisionInv, DividerInv, QuotientInv, under_way
<1>11. StopInv' /\ PreparedInv' /\ SuccessorInv' /\ MemoryInv'
  <2>1. StopInv' /\ MemoryInv'
    BY <1>1, <1>2, <1>3 DEF InOrderInv, StopInv, MemoryInv, flagVars
  <2>2. PreparedInv' /\ SuccessorInv'
    BY <1>1, <1>2, <1>5, <1>6
       DEF InOrderInv, PreparedInv, SuccessorInv, prepared_in_MEM, successor_in_MEM
  <2> QED
    BY <2>1, <2>2
<1> QED
  BY <1>7, <1>8, <1>9, <1>10, <1>11 DEF InOrderInv, OperandInv

(* The three together, for every step.                                     *)
LEMMA InOrderNextInv ==
  ASSUME HostSleeps # "any"
  PROVE  /\ BaseInv /\ CORE_reset \in BOOLEAN /\ Agreed /\ InOrderInv
         /\ [Next]_vars /\ BaseInv' /\ Agreed'
         => InOrderInv'
BY InOrderCycle, InOrderReset, InOrderStutter

(* What BpfCore_proofs proves of the pipeline holds in every state where   *)
(* no load is lost.                                                        *)
LEMMA BaseInvHolds == Spec /\ []Agreed => []BaseInv
<1>1. Agreed => LoadKept
  BY DEF Agreed, LoadWrittenOnce, LoadKept
<1>2. PipelineInv /\ AccessInv /\ DividerInv => BaseInv
  BY DEF BaseInv
<1> QED
  BY <1>1, <1>2, PipelineInit, PipelineNext, AccessInvHolds, DividerInvHolds, PTL DEF Spec

(* The inductive invariant of the refinement: what each buffer holds is    *)
(* what its instruction needs.                                             *)
LEMMA InOrderInvHolds ==
  ASSUME HostSleeps # "any"
  PROVE  Spec /\ []Agreed => [](BaseInv /\ InOrderInv)
BY InOrderInit, InOrderNextInv, BaseInvHolds, DividerInvHolds, PTL DEF Spec
-----------------------------------------------------------------------------
(***************************************************************************)
(* One instruction after the other.                                        *)
(***************************************************************************)

(* An instruction is done.                                                 *)
LEMMA ExecuteStep ==
  ASSUME BaseInv, InOrderInv, InOrderInv', Agreed, Cycle, RegInput, done
  PROVE  Execute(imem[architectural_pc])
<1> USE DEF BaseInv, InOrderInv, OperandInv, CarryInv
<1>1. OldestInv /\ OldestInv'
  BY Oldest, OldestNext
<1>2. architectural_pc = MEM.PC /\ imem[architectural_pc] = MEM_insn
  BY <1>1 DEF OldestInv, done, MEM_insn
<1>3. pc_EX = successor(MEM_insn, MEM.PC, reg_file_written)
  BY DoneFacts DEF SuccessorInv, done
<1>4. architectural_pc' = pc_EX
  BY <1>1, PathGoesOn DEF done
<1>5. reg_file_written' = regs_after(MEM_insn, MEM.PC, reg_file_written, mem)
  BY RegistersDone
<1>6. mem' = mem_after(MEM_insn, MEM.PC, reg_file_written, mem)
  BY MemoryDone
<1>7. ~Sequential!Exits(MEM_insn) /\ ~Sequential!Faults(MEM_insn)
  BY FaultlessDone
<1> QED
  BY <1>2, <1>3, <1>4, <1>5, <1>6, <1>7 DEF Execute, Cycle

(* None is: nothing changes but what the host writes.                      *)
LEMMA NoneDone ==
  ASSUME BaseInv, InOrderInv, InOrderInv', Agreed, Cycle, RegInput, ~done
  PROVE  Sequential!HostWrite \/ UNCHANGED Sequential!vars
<1> USE DEF BaseInv, InOrderInv, OperandInv, CarryInv, Cycle, Running
<1>1. OldestInv /\ OldestInv'
  BY Oldest, OldestNext
<1>2. architectural_pc' = architectural_pc
  <2>1. CASE load_EX
    <3>1. architectural_pc' = pc_EX /\ ~instr.MEM
      BY <1>1, <2>1, PathGoesOn DEF done
    <3> QED
      BY <1>1, <3>1 DEF OldestInv
  <2>2. CASE ~load_EX
    <3>1. instr.MEM
      BY <2>2, WaitsInMEM DEF PipelineInv, Agreed
    <3> QED
      BY <1>1, <2>2, <3>1, PathWaits DEF OldestInv
  <2> QED
    BY <2>1, <2>2
<1>3. mem' = mem
  BY MemoryWaits DEF done
<1>4. reg_file_written' =
        IF CORE_reg'.write THEN [reg_file_written EXCEPT ![CORE_reg'.dst] = CORE_reg'.input]
                           ELSE reg_file_written
  BY RegistersStay DEF done
<1> QED
  BY <1>2, <1>3, <1>4 DEF Sequential!HostWrite, Sequential!with_host_write, Sequential!vars

(* In the machine of one instruction at a time a reset is a restart.       *)
LEMMA RestartStep ==
  ASSUME BaseInv, Next, CORE_reset
  PROVE  Sequential!Restart
<1>1. architectural_pc' = 0 /\ WB_is_noop' /\ reg_file' = RegBankReset /\ imem' = imem
  BY DEF Next, Running, InReset, ResetBuffers, ResetFlags, ID_reset, WB_reset, WB_is_noop,
         architectural_pc
<1>2. mem' = mem
  BY DEF BaseInv, PipelineInv, ResetInv, Next, DataMemoryStep, MEM_serve, MEM_modify
<1>3. reg_file_written' = Sequential!with_host_write([r \in Sequential!Regs |-> 0])
  BY <1>1, BankQuiet DEF Sequential!with_host_write, Sequential!Regs, Regs, RegBankReset
<1> QED
  BY <1>1, <1>2, <1>3 DEF Sequential!Restart

(* A step in which nothing happens is one of the machine.                  *)
LEMMA InOrderStutters ==
  ASSUME UNCHANGED vars
  PROVE  UNCHANGED Sequential!vars
<1>1. /\ UNCHANGED <<imem, IF_PC, ID, EX, MEM, WB, reg_file, mem, DMEM_output>>
      /\ UNCHANGED <<CORE_reg, instr, EX_saved_taken_branch>>
  BY DEF vars, stageVars, inputVars, flagVars
<1>2. UNCHANGED <<reg_file_written, architectural_pc>>
  BY <1>1 DEF reg_file_written, bank_write, bank_dst, bank_input, WB_reg_value, WB_mem_value,
              architectural_pc, EX_PC_taken
<1> QED
  BY <1>1, <1>2 DEF Sequential!vars

(* The pipeline (BPF_Core.vhd) executes one instruction after the other:   *)
(* whatever is under way in its stages, whatever stalls or is discarded,   *)
(* the program counter, the registers and the memory change as they do in  *)
(* a machine whose units work on one instruction at a time, and the host   *)
(* restarts that machine and writes its registers between instructions.    *)
THEOREM InOrderImplemented ==
  ASSUME HostSleeps # "any"
  PROVE  Spec /\ []Agreed => InOrderSpec
<1>1. Init => Sequential!Init
  <2> SUFFICES ASSUME Init PROVE Sequential!Init
    OBVIOUS
  <2>1. architectural_pc = 0
    BY DEF Init, PowerUp, ID_reset, architectural_pc
  <2>2. reg_file_written = [r \in Sequential!Regs |-> 0]
    BY DEF Init, PowerUp, WB_reset, NoWrite, RegBankReset, reg_file_written, bank_write,
           Sequential!Regs, Regs
  <2> QED
    BY <2>1, <2>2 DEF Sequential!Init
<1>2. /\ BaseInv /\ InOrderInv /\ Agreed /\ [Next]_vars /\ InOrderInv'
      => [InOrderNext]_(Sequential!vars)
  <2> SUFFICES ASSUME BaseInv, InOrderInv, Agreed, [Next]_vars, InOrderInv'
               PROVE  InOrderNext \/ UNCHANGED Sequential!vars
    OBVIOUS
  <2>1. CASE UNCHANGED vars
    BY <2>1, InOrderStutters
  <2>2. CASE Next /\ CORE_reset
    BY <2>2, RestartStep DEF InOrderNext
  <2>3. CASE Next /\ ~CORE_reset
    <3>1. Cycle /\ RegInput
      BY <2>3 DEF Next, InReset, Cycle
    <3> QED
      BY <2>3, <3>1, ExecuteStep, NoneDone DEF InOrderNext
  <2> QED
    BY <2>1, <2>2, <2>3
<1> QED
  BY <1>1, <1>2, InOrderInvHolds, PTL DEF Spec, InOrderSpec
=============================================================================
