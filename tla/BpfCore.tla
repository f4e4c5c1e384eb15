------------------------------- MODULE BpfCore --------------------------------
(***************************************************************************)
(* The five stage pipeline (BPF_Core.vhd), with its control, forwarding,   *)
(* exception and helper functions units.  Registers are variables, wires   *)
(* are operators of them, and one step is one clock cycle.                 *)
(*                                                                         *)
(* The environment chooses the inputs of each cycle: whether the host      *)
(* wants the core asleep or in reset or writes a register of a sleeping    *)
(* core, and whether the two arbiters grant what the core asks for.        *)
(***************************************************************************)
EXTENDS ControlUnit, ExceptionUnit, ForwardingUnit, HelperFunctions, Divider, Alu, BranchChecker,
        ByteLanes

CONSTANTS
  Programs,       \* contents of the instruction memory
  Memories,       \* initial contents of the data memories
  Maps,           \* the map registers, [0 .. 1 -> MapInfo]
  HostSleeps,     \* "never", "untaken" (not when a taken branch is in EX) or "any"
  HostResets,     \* "never", "stopped" (a core that has stopped) or "any" (not in the
                  \*   middle of a memory access)
  HostWrites      \* [dst, input]: what the host writes to registers of a sleeping core

(* Every instruction word is some instruction, a valid one or not.         *)
ASSUME ProgramsOK == Programs \subseteq [PC -> Instruction]

(* Memories hold words, maps have registers, the host writes words to      *)
(* registers, and an address of an element fits a register.                *)
ASSUME MemoriesOK == Memories \subseteq Memory
ASSUME MapsOK == Maps \in [0 .. 1 -> MapInfo] /\ SharedBase + PtrMod <= WordMod
ASSUME HostWritesOK == \A w \in HostWrites : w.dst \in Regs /\ w.input \in Data

VARIABLES
  imem,           \* the instruction memory; the host loads it before it starts the core
  IF_PC,
  ID,             \* [PC, discard, call_2]: the instruction read at ID.PC is in ID
  EX, MEM, WB,    \* the buffers in front of these stages
  reg_file, mem,
  dmem_state, DMEM_output,    \* data memory interface: its state and what was last read
  CTRL_saved_exception, CTRL_saved_finish, EX_saved_taken_branch,
  CORE_sleep, CORE_reset, CORE_reg, DATA_granted, MAP_granted,   \* inputs, with divider_ready
  instr           \* history: which of EX and MEM hold an instruction, not a bubble

stageVars == <<IF_PC, ID, EX, MEM, WB, reg_file>>
flagVars == <<CTRL_saved_exception, CTRL_saved_finish, EX_saved_taken_branch>>
inputVars == <<CORE_sleep, CORE_reset, CORE_reg, DATA_granted, MAP_granted, divider_ready>>
vars == <<imem, stageVars, mem, dmem_state, DMEM_output, divVars, flagVars, inputVars,
          instr, hfuVars>>
-----------------------------------------------------------------------------
(* Stage WB.                                                               *)
WB_mem_value == byte_mask(DMEM_output, WB.size, WB.sign_ext)
WB_reg_value == IF WB.mem_to_reg THEN WB_mem_value ELSE WB.ex_value

(* The port of the register bank: a write of the host, in CORE_reg, takes  *)
(* it from stage WB.  The bank writes in the middle of the cycle: this is  *)
(* what stage ID reads in the same cycle.                                  *)
bank_write == WB.reg_write \/ CORE_reg.write
bank_dst == IF CORE_reg.write THEN CORE_reg.dst ELSE WB.dst
bank_input == IF CORE_reg.write THEN CORE_reg.input ELSE WB_reg_value

reg_file_written ==
  [r \in Regs |-> IF (bank_write /\ bank_dst = r) \/ (WB.write_r0 /\ r = 0)
                  THEN bank_input ELSE reg_file[r]]
-----------------------------------------------------------------------------
(* Stage MEM.                                                              *)
MEM_access == MEM.write_en \/ MEM.read_en
MEM_word == MEM.C \div 8
DMEM_error == MEM_access /\ MEM.C \notin ValidAddr
MEM_serve == MEM_access /\ ~DMEM_error /\ dmem_state = "INIT_S" /\ DATA_granted
MEM_modify == ~DMEM_error /\ dmem_state = "MODIFY_WRITE_S"

MEM_ready == \/ DMEM_error \/ dmem_state # "INIT_S" \/ ~MEM_access
             \/ (MEM_serve /\ ~MEM.atomic)

block_MEM == ~MEM_ready \/ await_MEM

MEM_call_value == LOOKUP_bus(map_info, MEM.data)
MEM_ex_value == IF MEM.call THEN MEM_call_value ELSE MEM.C
-----------------------------------------------------------------------------
(* Stage EX.                                                               *)
forwarded(from, own) ==
  IF from = "none" THEN own ELSE IF from = "MEM" THEN MEM_ex_value ELSE WB_reg_value

EX_operand(reg, own) == forwarded(forward(reg, MEM, WB), own)

EX_fw_operand_A == EX_operand(register_A(EX.IR.dst, EX.call), EX.A)
EX_fw_operand_B == EX_operand(register_B(EX.IR.src, EX.call), EX.B)
EX_fw_cmpxchg_token == EX_operand(register_token(EX.call), EX.token)

EX_cut(v) == IF EX.alu64 THEN v ELSE Low(v)

EX_imm64 == IF EX.imm64 THEN Join(imem[ID.PC].imm, EX.IR.imm) ELSE SignExtend(EX.IR.imm)
EX_uses_imm == (EX.IR.source # "REG" \/ EX.force_imm) /\ ~EX.call
EX_operand_A == EX_cut(EX_fw_operand_A)
EX_operand_B == EX_cut(IF EX_uses_imm THEN EX_imm64 ELSE EX_fw_operand_B)

EX_stx_data == IF EX.force_imm THEN EX_imm64
               ELSE IF EX.call THEN EX_fw_operand_A ELSE EX_fw_operand_B

EX_alu_op == IF EX.imm64 \/ EX.call THEN "MOV" ELSE EX.IR.code
EX_division ==
  [en |-> EX.alu_en /\ EX_alu_op \in {"DIV", "MOD"}, op |-> EX_alu_op, is64 |-> EX.alu64,
   signed |-> EX.IR.offset % 2 = 1, A |-> EX_operand_A, B |-> EX_operand_B]
EX_alu_ready == alu_ready(EX_division, CORE_reset)
EX_alu_output == EX_cut(IF EX_alu_op \in {"DIV", "MOD"} THEN division_output(EX_division)
                        ELSE alu_bus(EX_alu_op, EX.alu64, EX.size, EX_operand_A, EX_operand_B))

EX_addr == Address(IF EX.write_en THEN EX_fw_operand_A ELSE EX_fw_operand_B, EX.IR.offset)
EX_C == IF EX.addr_calc THEN EX_addr ELSE EX_alu_output

EX_dst_reg == IF EX.write_en /\ EX.read_en THEN EX.IR.src ELSE EX.IR.dst

EX_volatile_taken_branch == EX.branch /\ taken(EX.IR.code, EX.alu64, EX_operand_A, EX_operand_B)
EX_taken_branch == EX_volatile_taken_branch \/ EX_saved_taken_branch
EX_PC_taken == EX.token % PCMod

block_EX == ~EX_alu_ready
-----------------------------------------------------------------------------
(* Stage ID.                                                               *)
ID_IR == imem[ID.PC]
ID_discard_ID == ID.discard \/ EX_taken_branch
ID_control == IF ID_discard_ID THEN NoControl ELSE Control(ID_IR)

EX_producer == [reg_write |-> EX.reg_write, write_r0 |-> EX.write_r0, dst |-> EX_dst_reg,
                mem |-> EX.mem_to_reg \/ EX.call]
ID_blocked == ~ID_discard_ID /\ block_ID(ID_IR, num_params(ID_IR.imm), EX_producer)

ID_PC_taken == JumpTo(NextPC(ID.PC),
                      IF ID_control.jump32 THEN ID_IR.imm ELSE ID_IR.offset)

ID_call == ID_control.call
ID_jump_or_taken_branch == ID_control.jump \/ EX_taken_branch

(* The three outputs of the register bank: a call reads r1, r2 and r3, the *)
(* bubble behind it r4 and r5.                                             *)
read_register(r) == IF r \in Regs THEN reg_file_written[r] ELSE 0
ID_A == read_register(IF ID_call THEN 2 ELSE IF ID.call_2 THEN 4 ELSE ID_IR.dst)
ID_B == read_register(IF ID_call THEN 3 ELSE IF ID.call_2 THEN 5 ELSE ID_IR.src)
ID_R0 == read_register(IF ID_call THEN 1 ELSE 0)
-----------------------------------------------------------------------------
(* Exceptions, finish and sleep: the pipeline is stopped at one stage, and *)
(* the later stages go on until they are empty.                            *)
gen_exception ==
  (IF error_function_id THEN {"ID"} ELSE {}) \union (IF DMEM_error THEN {"MEM"} ELSE {})
ID_illegal == ~ID_discard_ID /\ ~valid_instruction(ID_IR)

CTRL_exception == exception(gen_exception, ID_illegal)
CTRL_exception_stage == exception_stage(gen_exception, ID_illegal)

FLAG_exception == CTRL_saved_exception \/ CTRL_exception
FLAG_finish == CTRL_saved_finish \/ ID_control.finish

CTRL_flush_pipeline == FLAG_exception \/ FLAG_finish \/ CORE_sleep
CTRL_flush_stage == IF FLAG_exception THEN CTRL_exception_stage ELSE "ID"

stop_at(stages) == CTRL_flush_pipeline /\ CTRL_flush_stage \in stages
ID_make_noop == stop_at({"IF"})
EX_make_noop == stop_at({"ID"})
MEM_make_noop == stop_at({"EX"})
WB_make_noop == stop_at({"MEM"})

CTRL_block_IF == stop_at({"IF", "ID", "EX", "MEM"})
CTRL_block_ID == stop_at({"ID", "EX", "MEM"})
CTRL_block_EX == stop_at({"EX", "MEM"})
CTRL_block_MEM == stop_at({"MEM"})

(* Fault: for an exception in ID, the address that is being fetched.       *)
CTRL_PC_fetched == IF CTRL_exception_stage = "MEM" THEN MEM.PC
                   ELSE IF CTRL_exception_stage = "EX" THEN EX.PC ELSE IF_PC

CTRL_PC == IF CTRL_exception_stage = "MEM" THEN MEM.PC
           ELSE IF CTRL_exception_stage = "EX" THEN EX.PC
           ELSE IF CTRL_exception_stage = "ID" THEN ID.PC ELSE IF_PC

CORE_output == IF FLAG_exception /\ ~ID_make_noop THEN CTRL_PC ELSE ID_R0

EX_is_noop == ~(EX.branch \/ EX.write_en \/ EX.read_en \/ EX.reg_write \/ EX.write_r0)
MEM_is_noop == ~(MEM_access \/ MEM.reg_write \/ MEM.write_r0)
WB_is_noop == ~(WB.reg_write \/ WB.write_r0)
ID_is_noop == ~(\E s \in {"imm64", "jump", "branch", "write_en", "read_en",
                          "reg_write", "write_r0"} : ID_control[s])

(* Fault: the core reports before the instruction in MEM is done.          *)
CTRL_flushed_early ==
  WB_is_noop /\ (WB_make_noop \/ (EX_is_noop /\ (EX_make_noop \/ (ID_is_noop /\ ID_make_noop))))

CTRL_flushed ==
  WB_is_noop /\
    \/ WB_make_noop
    \/ MEM_is_noop /\
         \/ MEM_make_noop
         \/ EX_is_noop /\ (EX_make_noop \/ (ID_is_noop /\ ID_make_noop))

CORE_sleeping == CTRL_flushed /\ CORE_sleep /\ ~FLAG_exception /\ ~FLAG_finish
CORE_finish == CTRL_flushed /\ FLAG_finish /\ ~(FLAG_exception /\ ~ID_make_noop)
CORE_exception == CTRL_flushed /\ FLAG_exception /\ ~(FLAG_finish /\ ID_make_noop)
-----------------------------------------------------------------------------
(* Which buffers load in this cycle.                                       *)

(* Faults: a stage behind the one that is stopped goes on, and stage MEM   *)
(* does not drain.                                                         *)
load_IF_unblocked == ~(ID_blocked \/ block_EX \/ block_MEM)
load_EX_unblocked == ~block_MEM
load_MEM_stopped == ~block_MEM /\ ~CTRL_flush_pipeline

load_PC == ~(ID_call \/ ID_blocked \/ block_EX \/ block_MEM \/ CTRL_block_IF)
load_IF == ~(ID_blocked \/ block_EX \/ block_MEM \/ CTRL_block_ID)
load_ID == ~(block_EX \/ block_MEM \/ CTRL_block_EX)
load_EX == ~(block_MEM \/ CTRL_block_MEM)
load_MEM == ~block_MEM

go_ID == ID_call /\ load_ID
go_EX == EX.call /\ load_EX

IF_PC_next == IF ~ID_jump_or_taken_branch THEN NextPC(IF_PC)
              ELSE IF EX_taken_branch THEN EX_PC_taken ELSE ID_PC_taken

(* Fault: the instruction fetched behind a taken branch is not discarded.  *)
buffer_IF_behind_branch ==
  [PC |-> IF_PC, call_2 |-> ID_call,
   discard |-> ID_control.discard_IF \/ ID_control.jump \/ ID_make_noop]

buffer_IF ==
  [PC |-> IF_PC, call_2 |-> ID_call,
   discard |-> ID_control.discard_IF \/ ID_jump_or_taken_branch \/ ID_make_noop]

(* A bubble keeps everything but what would have an effect.                *)
buffer_ID ==
  LET go == ~(ID_blocked \/ EX_make_noop)
      c == ID_control
  IN  [branch |-> c.branch /\ go, write_en |-> c.write_en /\ go,
       read_en |-> c.read_en /\ go, reg_write |-> c.reg_write /\ go,
       atomic |-> c.atomic /\ go, write_r0 |-> c.write_r0 /\ go,
       alu_en |-> c.alu_en /\ go, call |-> c.call /\ go,
       imm64 |-> c.imm64, alu64 |-> c.alu64, addr_calc |-> c.addr_calc,
       force_imm |-> c.force_imm, sign_ext |-> c.sign_ext, size |-> c.size,
       mem_to_reg |-> c.mem_to_reg,
       token |-> IF c.branch THEN ID_PC_taken ELSE ID_R0,
       A |-> ID_A, B |-> ID_B, IR |-> ID_IR, PC |-> ID.PC]

buffer_EX ==
  LET go == ~(block_EX \/ MEM_make_noop)
  IN  [write_en |-> EX.write_en /\ go, read_en |-> EX.read_en /\ go,
       reg_write |-> EX.reg_write /\ go, write_r0 |-> EX.write_r0 /\ go,
       sign_ext |-> EX.sign_ext, size |-> EX.size, mem_to_reg |-> EX.mem_to_reg,
       atomic |-> EX.atomic, call |-> EX.call, token |-> EX_fw_cmpxchg_token,
       data |-> EX_stx_data, C |-> EX_C, aop |-> EX.IR.aop, dst |-> EX_dst_reg,
       PC |-> EX.PC]

buffer_MEM ==
  LET go == ~(block_MEM \/ WB_make_noop)
  IN  [reg_write |-> MEM.reg_write /\ go, write_r0 |-> MEM.write_r0 /\ go,
       mem_to_reg |-> MEM.mem_to_reg, sign_ext |-> MEM.sign_ext, size |-> MEM.size,
       ex_value |-> MEM_ex_value, dst |-> MEM.dst]
-----------------------------------------------------------------------------
ID_reset == [PC |-> 0, discard |-> TRUE, call_2 |-> FALSE]

EX_reset ==
  [branch |-> FALSE, write_en |-> FALSE, read_en |-> FALSE, reg_write |-> FALSE,
   atomic |-> FALSE, write_r0 |-> FALSE, alu_en |-> FALSE, call |-> FALSE,
   imm64 |-> FALSE, alu64 |-> FALSE, addr_calc |-> FALSE, force_imm |-> FALSE,
   sign_ext |-> FALSE, size |-> "SIZE32", mem_to_reg |-> FALSE,
   token |-> 0, A |-> 0, B |-> 0, IR |-> ZeroInsn, PC |-> 0]

MEM_reset ==
  [write_en |-> FALSE, read_en |-> FALSE, reg_write |-> FALSE, write_r0 |-> FALSE,
   sign_ext |-> FALSE, size |-> "SIZE32", mem_to_reg |-> FALSE, atomic |-> FALSE,
   call |-> FALSE, token |-> 0, data |-> 0, C |-> 0, aop |-> "ADD", dst |-> 0, PC |-> 0]

WB_reset ==
  [reg_write |-> FALSE, write_r0 |-> FALSE, mem_to_reg |-> FALSE, sign_ext |-> FALSE,
   size |-> "SIZE32", ex_value |-> 0, dst |-> 0]

NoWrite == [write |-> FALSE, dst |-> 0, input |-> 0]
RegBankReset == [r \in Regs |-> 0]

LoadBuffers ==
  /\ IF_PC' = IF load_PC THEN IF_PC_next ELSE IF_PC
  /\ ID' = IF load_IF THEN buffer_IF ELSE ID
  /\ EX' = IF load_ID THEN buffer_ID ELSE EX
  /\ MEM' = IF load_EX THEN buffer_EX ELSE MEM
  /\ WB' = IF load_MEM THEN buffer_MEM ELSE WB
  /\ reg_file' = reg_file_written
  /\ instr' = [EX |-> IF load_ID THEN ~(ID_discard_ID \/ ID_blocked \/ EX_make_noop)
                      ELSE instr.EX,
               MEM |-> IF load_EX THEN instr.EX /\ ~(block_EX \/ MEM_make_noop)
                       ELSE instr.MEM]

ResetBuffers ==
  /\ IF_PC' = 0 /\ ID' = ID_reset /\ EX' = EX_reset /\ MEM' = MEM_reset /\ WB' = WB_reset
  /\ reg_file' = RegBankReset
  /\ instr' = [EX |-> FALSE, MEM |-> FALSE]

(* A taken branch is remembered while the fetch is stopped.                *)
FlagStep ==
  /\ CTRL_saved_exception' = (CTRL_saved_exception \/ CTRL_exception)
  /\ CTRL_saved_finish' = (CTRL_saved_finish \/ ID_control.finish)
  /\ EX_saved_taken_branch' =
       (CTRL_block_IF /\ (EX_volatile_taken_branch \/ EX_saved_taken_branch))

ResetFlags ==
  /\ CTRL_saved_exception' = FALSE /\ CTRL_saved_finish' = FALSE
  /\ EX_saved_taken_branch' = FALSE

(* The data memories are not in the core: a reset does not reach them.     *)
DataMemoryStep ==
  /\ dmem_state' = IF DMEM_error THEN "ERROR_S"
                   ELSE IF MEM_serve /\ MEM.atomic THEN "MODIFY_WRITE_S"
                   ELSE IF MEM_modify THEN "INIT_S" ELSE dmem_state
  /\ DMEM_output' = IF MEM_serve /\ (MEM.atomic \/ ~MEM.write_en)
                    THEN output(mem[MEM_word], MEM.size, MEM.C) ELSE DMEM_output
  /\ mem' = IF MEM_serve /\ MEM.write_en /\ ~MEM.read_en /\ ~MEM.atomic
            THEN [mem EXCEPT ![MEM_word] = stored(@, MEM.data, MEM.size, MEM.C)]
            ELSE IF MEM_modify
            THEN [mem EXCEPT ![MEM_word] =
                    modified(MEM.aop, @, MEM.data, MEM.token, MEM.size, MEM.C)]
            ELSE mem

(* The host asserts sleep and releases it when it likes, within HostSleeps.*)
SleepInput ==
  CORE_sleep' \in
    IF HostSleeps = "never" THEN {FALSE}
    ELSE IF HostSleeps = "any" \/ CORE_sleep \/ ~EX_volatile_taken_branch' THEN BOOLEAN
    ELSE {FALSE}

(* The arbiters deny a request for one cycle at most.                      *)
GrantInputs ==
  /\ DATA_granted' \in IF DATA_granted /\ MEM_access' THEN BOOLEAN ELSE {TRUE}
  /\ MAP_granted' \in IF MAP_granted /\ await_MEM' THEN BOOLEAN ELSE {TRUE}

(* The divider lets a division wait for one cycle at most; whether it is   *)
(* ready is only seen by one that waits.                                   *)
DividerInput ==
  divider_ready' \in IF divider_ready /\ wants_divider(EX_division)' THEN BOOLEAN ELSE {TRUE}

(* The host starts a core that has stopped, or starts it over while it     *)
(* runs, but not after an access error: no access is served from then on   *)
(* (ServesValidAccess of IoMem).                                           *)
may_reset ==
  \/ CORE_reset
  \/ HostResets = "stopped" /\ (CORE_finish \/ CORE_exception \/ CORE_sleeping)
  \/ HostResets = "any" /\ ~MEM_access'

ResetInput ==
  CORE_reset' \in IF may_reset /\ dmem_state' # "ERROR_S" THEN BOOLEAN ELSE {FALSE}

(* It writes a register only while the core sleeps, and lets it sleep on:  *)
(* as the first thing after a reset, or when it has read over the bus that *)
(* the core sleeps.  By then a jump or a branch, which sleeping does not   *)
(* wait for, has left the pipeline.                                        *)
RegInput ==
  CORE_reg' \in {NoWrite} \union
    IF /\ CORE_sleep' /\ ~CORE_reset'
       /\ CORE_reset \/ (CORE_sleeping /\ ~instr.EX /\ ~instr.MEM)
    THEN {[write |-> TRUE, dst |-> w.dst, input |-> w.input] : w \in HostWrites} ELSE {}

Running ==
  /\ ~CORE_reset
  /\ LoadBuffers /\ FlagStep
  /\ HfuStep(go_ID, go_EX, ID_IR.imm, MAP_granted, Maps[LOOKUP_id(MEM.token)])

InReset ==
  /\ CORE_reset
  /\ ResetBuffers /\ ResetFlags
  /\ hfu_state' = "INIT_S" /\ map_info' = NoMap

PowerUp ==
  /\ IF_PC = 0 /\ ID = ID_reset /\ EX = EX_reset /\ MEM = MEM_reset /\ WB = WB_reset
  /\ reg_file = RegBankReset /\ instr = [EX |-> FALSE, MEM |-> FALSE]
  /\ dmem_state = "INIT_S" /\ DMEM_output = 0
  /\ CTRL_saved_exception = FALSE /\ CTRL_saved_finish = FALSE
  /\ EX_saved_taken_branch = FALSE
  /\ CORE_sleep = FALSE /\ CORE_reset = FALSE /\ CORE_reg = NoWrite
  /\ DATA_granted = TRUE /\ MAP_granted = TRUE /\ divider_ready = TRUE
  /\ HfuInit /\ DivInit

Init == imem \in Programs /\ mem \in Memories /\ PowerUp

Next ==
  /\ Running \/ InReset
  /\ DataMemoryStep /\ DividerStep(EX_division, CORE_reset)
  /\ UNCHANGED imem
  /\ SleepInput /\ GrantInputs /\ DividerInput /\ ResetInput /\ RegInput

(* The clock runs.  Nothing may change for ever only in a state where a    *)
(* cycle may change nothing: the host does not have to move to help.       *)
quiet == ENABLED (UNCHANGED vars /\ Next)
ClockRuns == []<><<Next>>_vars \/ []<>quiet

Spec == Init /\ [][Next]_vars /\ ClockRuns
-----------------------------------------------------------------------------
(***************************************************************************)
(* The program counter of the sequential machine: the oldest instruction   *)
(* that is not done.                                                       *)
(***************************************************************************)
architectural_pc ==
  IF instr.MEM THEN MEM.PC
  ELSE IF instr.EX THEN EX.PC
  ELSE IF EX_saved_taken_branch THEN EX_PC_taken
  ELSE IF ID.discard THEN IF_PC ELSE ID.PC

MapLookup(map, key) == LOOKUP_bus(Maps[LOOKUP_id(map)], key)

Sequential == INSTANCE SequentialMachine WITH
         pc <- architectural_pc, regs <- reg_file_written, reset <- CORE_reset, host <- CORE_reg,
         Lookup <- MapLookup, KnownFunction <- {LOOKUP_FUNCTION}

(* What the core says of itself, and the core that the host sees.          *)
CORE_outcome ==
  IF ~CTRL_flushed THEN "none" ELSE IF CORE_finish THEN "finish" ELSE IF CORE_exception THEN "exception"
  ELSE IF CORE_sleeping THEN "sleeping" ELSE "none"

Ctl == INSTANCE CoreControl WITH
         outcome <- CORE_outcome, regs <- reg_file_written, memory <- mem,
         Outputs <- Data, Contents <- Memory

-----------------------------------------------------------------------------
(***************************************************************************)
(* Properties.                                                             *)
(***************************************************************************)

(* The type invariant of the buffers and flags of the pipeline, and of     *)
(* what stage WB puts into the register bank.                              *)
TypeOK ==
  /\ imem \in [PC -> Instruction] /\ mem \in Memory
  /\ IF_PC \in PC /\ ID \in [PC : PC, discard : BOOLEAN, call_2 : BOOLEAN]
  /\ EX \in [branch : BOOLEAN, write_en : BOOLEAN, read_en : BOOLEAN, reg_write : BOOLEAN,
             atomic : BOOLEAN, write_r0 : BOOLEAN, alu_en : BOOLEAN, call : BOOLEAN,
             imm64 : BOOLEAN, alu64 : BOOLEAN, addr_calc : BOOLEAN, force_imm : BOOLEAN,
             sign_ext : BOOLEAN, size : Size, mem_to_reg : BOOLEAN,
             token : Data, A : Data, B : Data, IR : Instruction, PC : PC]
  /\ MEM \in [write_en : BOOLEAN, read_en : BOOLEAN, reg_write : BOOLEAN,
              write_r0 : BOOLEAN, sign_ext : BOOLEAN, size : Size, mem_to_reg : BOOLEAN,
              atomic : BOOLEAN, call : BOOLEAN, token : Data, data : Data,
              C : Data, aop : SimpleAtomics \union {"XCHG", "CMPXCHG"}, dst : 0 .. 15, PC : PC]
  /\ WB \in [reg_write : BOOLEAN, write_r0 : BOOLEAN, mem_to_reg : BOOLEAN,
             sign_ext : BOOLEAN, size : Size, ex_value : Data, dst : 0 .. 15]
  /\ reg_file \in [Regs -> Data] /\ reg_file_written \in [Regs -> Data]
  /\ dmem_state \in {"INIT_S", "MODIFY_WRITE_S", "ERROR_S"} /\ DMEM_output \in Data
  /\ div_state \in DivState /\ saved_operand \in [A : Data, B : Data] /\ neg_result \in BOOLEAN
  /\ divider \in [left : 0 .. DivLatency, A : Data, B : Data, ok : BOOLEAN, reset_cycles : 0 .. 1]
  /\ CTRL_saved_exception \in BOOLEAN /\ CTRL_saved_finish \in BOOLEAN
  /\ EX_saved_taken_branch \in BOOLEAN
  /\ CORE_sleep \in BOOLEAN /\ CORE_reset \in BOOLEAN
  /\ CORE_reg \in [write : BOOLEAN, dst : Regs, input : Data]
  /\ DATA_granted \in BOOLEAN /\ MAP_granted \in BOOLEAN /\ divider_ready \in BOOLEAN
  /\ instr \in [EX : BOOLEAN, MEM : BOOLEAN]
  /\ hfu_state \in HfuState /\ map_info \in MapInfo

(* The pipeline executes programs as if one instruction followed the       *)
(* other: with forwarding, stalls, discarded fetches, late results of      *)
(* memory and of helper functions, sleeps and restarts, the registers, the *)
(* memory and the program counter only change as instructions say.         *)
SequentialSpec == Sequential!Spec

(* When the core says that the program has finished, every instruction     *)
(* before the exit is done, the host reads the final r0, and the exit was  *)
(* reached: it is not behind a branch that is taken or an exception.       *)
FinishPrecise ==
  CORE_finish =>
    /\ ~ID_discard_ID /\ Sequential!Exits(ID_IR)
    /\ EX_is_noop /\ MEM_is_noop /\ WB_is_noop /\ ~MEM_modify
    /\ CORE_output = reg_file_written[0]

(* When the core says that the program raised an exception and nothing is  *)
(* in front of the stage it belongs to, the host reads the address of the  *)
(* oldest instruction that is not done, and that instruction is at fault.  *)
ExceptionPrecise ==
  CORE_exception /\ (CTRL_flush_stage = "ID" => ~instr.EX /\ ~instr.MEM) =>
    /\ CORE_output = architectural_pc
    /\ Sequential!Faults(imem[architectural_pc])

(* For the host the core is what CoreControl says: a program that sleeps   *)
(* has nothing under way and goes on as it was, one that has ended stays   *)
(* ended with its outcome, its value and the memory, and a reset core has  *)
(* cleared registers and nothing of the last program.                      *)
HostView == Ctl!Spec

(* The stage of an exception is not saved: it is the live output of the    *)
(* exception unit, so the cause has to be there as long as the flag.       *)
StageHeld == CTRL_saved_exception /\ ~CORE_reset => CTRL_exception

(* The helper functions unit is told of a call in ID and in EX and follows *)
(* it on its own: it looks a map up when the call is in MEM, for its       *)
(* parameters, and never for an instruction that is not there.             *)
HfuFollowsCall ==
  /\ hfu_state \in {"LOOKUP_MEM_REQ_S", "LOOKUP_MEM_S"} <=> MEM.call /\ ~error_function_id
  /\ hfu_state = "LOOKUP_EX_S" => EX.call \/ ID_call
  /\ EX.call => hfu_state \in {"LOOKUP_EX_S", "ERROR_ID_S"}
  /\ hfu_state = "LOOKUP_MEM_S" => map_info = Maps[LOOKUP_id(MEM.token)]

stopped == CORE_outcome # "none" \/ CORE_reset
retiring == instr.MEM /\ load_MEM

(* A core that runs completes one instruction after the other: no stall of *)
(* one stage waits for another for ever.                                   *)
Progress == []<>(stopped \/ retiring)

(* A core that is told to sleep stops, unless it is told otherwise.        *)
SleepAnswered == Ctl!SleepAnswered
=============================================================================
