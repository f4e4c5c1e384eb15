---------------------------- MODULE BpfCore_proofs ----------------------------
(***************************************************************************)
(* Proofs about the pipeline, for every program, memory, host and latency  *)
(* of the divider: what its parts know of each other while it stalls, is   *)
(* stopped, sleeps and starts over.                                        *)
(***************************************************************************)
EXTENDS InOrder, Arithmetic_proofs

(***************************************************************************)
(* The divider and the FSM in front of it.                                 *)
(***************************************************************************)

(* Behind a reset the divider may still count; RESET_S is left when it has *)
(* seen the second cycle of it.                                            *)
DividerInv ==
  /\ div_state \in DivState
  /\ divider.left \in 0 .. DivLatency
  /\ div_state \in {"INIT_S", "READY_TO_DIVIDE_S"} => divider.left = 0 /\ ~divider.ok
  /\ div_state = "RESET_S" =>
       divider.reset_cycles = 1 \/ (divider.left = 0 /\ ~divider.ok)
  /\ div_state = "DIVIDING_S" => (divider.left = 0 <=> divider.ok)

(* No cycle of the divider, whatever EX asks for, breaks it.               *)
LEMMA DividerStepInv ==
  ASSUME DividerInv, NEW d, NEW reset \in BOOLEAN, DividerStep(d, reset)
  PROVE  DividerInv'
<1>1. /\ div_state' = NextDivState(d, reset)
      /\ divider' = NextDivider(d, reset)
  BY DEF DividerStep
<1>2. DivLatency \in Nat \ {0}
  BY DivLatencyOK
<1>3. CASE ~aresetn(reset)
  BY <1>1, <1>2, <1>3
     DEF DividerInv, DivState, NextDivState, NextDivider, aresetn, DividerIdle
<1>4. CASE aresetn(reset) /\ ok_operands(d, reset)
  <2>1. div_state' = "DIVIDING_S"
    BY <1>1, <1>4 DEF NextDivState, aresetn, ok_operands, wants_divider
  <2>2. divider'.left = DivLatency /\ ~divider'.ok
    BY <1>1, <1>4 DEF NextDivider, DividerIdle
  <2> QED
    BY <1>2, <2>1, <2>2 DEF DividerInv, DivState
<1>5. CASE aresetn(reset) /\ ~ok_operands(d, reset)
  <2>1. CASE div_state = "DIVIDING_S"
    BY <1>1, <1>2, <1>5, <2>1
       DEF DividerInv, DivState, NextDivState, NextDivider, aresetn, DividerIdle, ok_div
  <2>2. CASE div_state # "DIVIDING_S"
    <3>1. div_state' \in {"INIT_S", "READY_TO_DIVIDE_S"}
      BY <1>1, <1>5, <2>2
         DEF DividerInv, DivState, NextDivState, aresetn, ok_operands, wants_divider
    <3>2. divider' = DividerIdle
      BY <1>1, <1>2, <1>5, <2>2 DEF DividerInv, DivState, NextDivider, aresetn
    <3> QED
      BY <1>2, <3>1, <3>2 DEF DividerInv, DivState, DividerIdle
  <2> QED
    BY <2>1, <2>2
<1> QED
  BY <1>3, <1>4, <1>5

(* What the FSM and the divider know of each other holds in every state.   *)
LEMMA DividerInvHolds == Spec => [](DividerInv /\ CORE_reset \in BOOLEAN)
<1> DEFINE IInv == DividerInv /\ CORE_reset \in BOOLEAN
<1>1. Init => IInv
  <2>1. DivLatency \in Nat \ {0}
    BY DivLatencyOK
  <2>2. Init => div_state = "INIT_S" /\ divider.left = 0 /\ ~divider.ok
    BY DEF Init, PowerUp, DivInit, DividerIdle
  <2>3. Init => CORE_reset \in BOOLEAN
    BY DEF Init, PowerUp
  <2> QED
    BY <2>1, <2>2, <2>3 DEF DividerInv, DivState
<1>2. IInv /\ [Next]_vars => IInv'
  <2> SUFFICES ASSUME IInv, [Next]_vars PROVE IInv'
    OBVIOUS
  <2>1. CASE Next
    BY <2>1, DividerStepInv DEF Next, ResetInput
  <2>2. CASE UNCHANGED vars
    BY <2>2 DEF vars, divVars, inputVars, DividerInv
  <2> QED
    BY <2>1, <2>2
<1> QED
  BY <1>1, <1>2, PTL DEF Spec

(* Every answer of the divider is one the FSM waits for: no division goes  *)
(* on, nor is one answered, after a reset or for an instruction that is    *)
(* gone (BPF_ALU.vhd).                                                     *)
THEOREM AnswersAreExpected == Spec => []AnswerExpected
<1>1. DividerInv => AnswerExpected
  BY DivLatencyOK DEF DividerInv, DivState, AnswerExpected
<1> QED
  BY <1>1, DividerInvHolds, PTL
-----------------------------------------------------------------------------
(***************************************************************************)
(* What holds in any state of the pipeline, by its wires.                  *)
(***************************************************************************)

(* The control signals of an instruction that is discarded if d holds.     *)
Decoded(d, i) == IF d THEN NoControl ELSE Control(i)

(* A bubble calls nothing, branches nowhere and ends nothing.              *)
LEMMA NoSignal ==
  ~NoControl.call /\ ~NoControl.branch /\ ~NoControl.finish
BY DEF NoControl

(* A call and a branch have none of the signals of the other, and of the   *)
(* instructions that wait in EX or access the memory.                      *)
LEMMA DecodedFacts ==
  ASSUME NEW d, NEW i
  PROVE  LET c == Decoded(d, i)
         IN  /\ c.call <=> ~d /\ is_call(i)
             /\ c.branch <=> ~d /\ sig_branch(i)
             /\ c.finish <=> ~d /\ Sequential!Exits(i)
             /\ c.call => /\ ~c.branch /\ ~c.alu_en /\ ~c.write_en /\ ~c.read_en
                          /\ c.write_r0 /\ c.discard_IF
             /\ c.branch => ~c.alu_en /\ ~c.imm64 /\ ~c.force_imm
<1>1. CASE d
  BY <1>1, NoSignal DEF Decoded
<1>2. CASE ~d
  BY <1>2
     DEF Decoded, Control, is_call, is_jump, sig_branch, sig_alu_en, sig_force_imm, is_cmpxchg,
         is_atomic, JumpClass, Sequential!Exits
<1> QED
  BY <1>1, <1>2

(* ID decodes the instruction it holds, unless it discards it.             *)
LEMMA IDIsDecoded == ID_control = Decoded(ID_discard_ID, ID_IR)
BY DEF ID_control, Decoded

(* Nothing generates an exception in EX; one of the memory goes first.     *)
LEMMA Stages ==
  /\ CTRL_exception <=> DMEM_error \/ ID_illegal \/ error_function_id
  /\ DMEM_error => CTRL_exception_stage = "MEM"
  /\ ~DMEM_error /\ CTRL_exception => CTRL_exception_stage = "ID"
  /\ ~CTRL_exception => CTRL_exception_stage = "IF"
BY DEF CTRL_exception, CTRL_exception_stage, exception, exception_stage, gen_exception

(* A stage that stops stops those behind it.                               *)
LEMMA Blocks ==
  /\ ~MEM_make_noop
  /\ CTRL_block_EX <=> WB_make_noop
  /\ CTRL_block_MEM <=> WB_make_noop
  /\ CTRL_block_ID <=> EX_make_noop \/ WB_make_noop
  /\ CTRL_block_IF <=> ID_make_noop \/ EX_make_noop \/ WB_make_noop
  /\ WB_make_noop <=> DMEM_error
<1>1. CTRL_flush_stage \in {"IF", "ID", "MEM"}
  BY Stages DEF CTRL_flush_stage
<1>2. CTRL_flush_stage = "MEM" <=> DMEM_error
  BY Stages DEF CTRL_flush_stage, FLAG_exception
<1>3. DMEM_error => CTRL_flush_pipeline
  BY Stages DEF CTRL_flush_pipeline, FLAG_exception
<1> QED
  BY <1>1, <1>2, <1>3
     DEF MEM_make_noop, CTRL_block_EX, CTRL_block_MEM, CTRL_block_ID, CTRL_block_IF, EX_make_noop,
         ID_make_noop, WB_make_noop, stop_at

(* A stage takes the next instruction only when the one before it can.     *)
LEMMA LoadsInOrder ==
  /\ load_PC => load_IF
  /\ load_IF => load_ID /\ ~ID_blocked /\ ~EX_make_noop
  /\ load_ID => load_EX
  /\ load_ID /\ ~ID_blocked /\ ~EX_make_noop => load_IF
  /\ load_EX /\ ~block_EX => load_ID
  /\ load_EX => ~block_MEM
BY Blocks DEF load_PC, load_IF, load_ID, load_EX

(* Only a division keeps EX waiting.                                       *)
LEMMA EXWaits == block_EX => EX.alu_en
BY DEF block_EX, EX_alu_ready, alu_ready, use_divider, EX_division
-----------------------------------------------------------------------------
(***************************************************************************)
(* Calls.                                                                  *)
(***************************************************************************)

EXInv ==
  /\ EX.call => /\ ~EX.branch /\ ~EX.alu_en /\ ~EX.write_en /\ ~EX.read_en
                /\ EX.write_r0 /\ ID.discard
  /\ EX.branch => ~EX.alu_en /\ ~EX.imm64 /\ ~EX.force_imm
  /\ MEM.call => ~MEM_access

(* A call that is unknown is left in the pipeline, and the unit in its     *)
(* error state.                                                            *)
HfuInv ==
  /\ ~error_function_id => (hfu_state \in {"LOOKUP_MEM_REQ_S", "LOOKUP_MEM_S"} <=> MEM.call)
  /\ hfu_state = "LOOKUP_EX_S" => EX.call \/ (ID_call /\ ~EX.branch)
  /\ EX.call => hfu_state \in {"LOOKUP_EX_S", "ERROR_ID_S"}
  /\ hfu_state = "LOOKUP_MEM_S" => map_info = Maps[LOOKUP_id(MEM.token)]

(* What EX and MEM know of the signals of their instructions, after a      *)
(* cycle.                                                                  *)
LEMMA EXStep ==
  ASSUME EXInv, LoadBuffers
  PROVE  EXInv'
<1> DEFINE c == ID_control
<1>1. /\ c.call => /\ ~c.branch /\ ~c.alu_en /\ ~c.write_en /\ ~c.read_en
                   /\ c.write_r0 /\ c.discard_IF
      /\ c.branch => ~c.alu_en /\ ~c.imm64 /\ ~c.force_imm
  BY DecodedFacts, IDIsDecoded
<1>2. MEM'.call => ~MEM_access'
  BY DEF EXInv, LoadBuffers, buffer_EX, MEM_access
<1>3. CASE load_ID
  <2>1. EX' = buffer_ID
    BY <1>3 DEF LoadBuffers
  <2>2. EX'.branch => ~EX'.alu_en /\ ~EX'.imm64 /\ ~EX'.force_imm
    BY <1>1, <2>1 DEF buffer_ID
  <2>3. EX'.call => /\ ~EX'.branch /\ ~EX'.alu_en /\ ~EX'.write_en /\ ~EX'.read_en
                    /\ EX'.write_r0
    BY <1>1, <2>1 DEF buffer_ID
  <2>4. ASSUME EX'.call PROVE ID'.discard
    <3>1. c.call /\ ~ID_blocked /\ ~EX_make_noop
      BY <2>1, <2>4 DEF buffer_ID
    <3>2. ID' = buffer_IF
      BY <1>3, <3>1, LoadsInOrder DEF LoadBuffers
    <3> QED
      BY <1>1, <3>1, <3>2 DEF buffer_IF
  <2> QED
    BY <1>2, <2>2, <2>3, <2>4 DEF EXInv
<1>4. CASE ~load_ID
  <2>1. EX' = EX /\ ID' = ID
    BY <1>4, LoadsInOrder DEF LoadBuffers
  <2> QED
    BY <1>2, <2>1 DEF EXInv
<1> QED
  BY <1>3, <1>4

(* A call that stays in ID is still a call in the next cycle.              *)
LEMMA CallStays ==
  ASSUME ID_call, ID' = ID, imem' = imem, FlagStep, ~EX'.branch
  PROVE  ID_call'
<1>1. ~ID_discard_ID /\ is_call(ID_IR)
  BY DecodedFacts, IDIsDecoded DEF ID_call
<1>2. ~EX_taken_branch'
  BY <1>1 DEF ID_discard_ID, EX_taken_branch, EX_volatile_taken_branch, FlagStep
<1>3. ~ID_discard_ID'
  BY <1>1, <1>2 DEF ID_discard_ID
<1>4. ID_IR' = ID_IR
  BY DEF ID_IR
<1>5. ID_control' = Decoded(ID_discard_ID', ID_IR')
  BY DEF ID_control, Decoded
<1> QED
  BY <1>1, <1>3, <1>4, <1>5, DecodedFacts DEF ID_call

(* The helper functions unit follows the call through a cycle: whichever   *)
(* stage waits, it is where the call is.                                   *)
LEMMA HfuRunning ==
  ASSUME EXInv, HfuInv, Running, imem' = imem
  PROVE  HfuInv'
<1> USE DEF Running
<1> DEFINE function_id == ID_IR.imm
           info == Maps[LOOKUP_id(MEM.token)]
<1>1. CASE Dispatch(go_ID, function_id)
  <2>1. hfu_state \in {"INIT_S", "LOOKUP_MEM_S"} /\ ~EX.call
    BY <1>1 DEF Dispatch, may_dispatch, HfuInv
  <2>2. ~MEM'.call
    <3>1. CASE load_EX
      BY <2>1, <3>1 DEF LoadBuffers, buffer_EX
    <3>2. CASE ~load_EX
      <4>1. MEM' = MEM
        BY <3>2 DEF LoadBuffers
      <4>2. ~MEM.call
        BY <2>1, <3>2, Blocks
           DEF HfuInv, EXInv, error_function_id, load_EX, block_MEM, await_MEM, MEM_ready, DMEM_error
      <4> QED
        BY <4>1, <4>2
    <3> QED
      BY <3>1, <3>2
  <2>3. CASE go_ID
    <3>1. hfu_state' \in {"LOOKUP_EX_S", "ERROR_ID_S"}
      BY <1>1, <2>3 DEF Dispatch
    <3>2. ID_call /\ load_ID /\ EX' = buffer_ID
      BY <2>3 DEF go_ID, LoadBuffers
    <3>3. EX'.call \/ (ID_call' /\ ~EX'.branch)
      <4>1. CASE ID_blocked \/ EX_make_noop
        <5>1. ~EX'.branch
          BY <3>2, <4>1 DEF buffer_ID
        <5>2. ID' = ID
          BY <4>1, LoadsInOrder DEF LoadBuffers
        <5> QED
          BY <3>2, <5>1, <5>2, CallStays
      <4>2. CASE ~(ID_blocked \/ EX_make_noop)
        BY <3>2, <4>2 DEF buffer_ID, ID_call
      <4> QED
        BY <4>1, <4>2
    <3> QED
      BY <2>2, <3>1, <3>3 DEF HfuInv, error_function_id
  <2>4. CASE ~go_ID
    <3>1. hfu_state' = "INIT_S"
      BY <1>1, <2>4 DEF Dispatch
    <3>2. ~EX'.call
      BY <2>1, <2>4 DEF go_ID, LoadBuffers, buffer_ID, ID_call
    <3> QED
      BY <2>2, <3>1, <3>2 DEF HfuInv, error_function_id
  <2> QED
    BY <2>3, <2>4
<1>2. CASE LookupEX(go_EX)
  <2>1. hfu_state = "LOOKUP_EX_S" /\ ~MEM.call
    BY <1>2 DEF LookupEX, HfuInv, error_function_id
  <2>2. CASE go_EX
    <3>1. hfu_state' = "LOOKUP_MEM_REQ_S"
      BY <1>2, <2>2 DEF LookupEX
    <3>2. EX.call /\ load_EX /\ load_ID /\ ~ID_call
      BY <2>2, LoadsInOrder, EXWaits, DecodedFacts, IDIsDecoded
         DEF go_EX, EXInv, ID_call, ID_discard_ID
    <3>3. MEM'.call /\ ~EX'.call
      BY <3>2 DEF LoadBuffers, buffer_EX, buffer_ID, ID_call
    <3> QED
      BY <3>1, <3>3 DEF HfuInv, error_function_id
  <2>3. CASE ~go_EX
    <3>1. hfu_state' = "LOOKUP_EX_S"
      BY <1>2, <2>3 DEF LookupEX
    <3>2. ~MEM'.call
      BY <2>1, <2>3 DEF go_EX, LoadBuffers, buffer_EX
    <3>3. EX'.call \/ (ID_call' /\ ~EX'.branch)
      <4>1. CASE EX.call
        BY <2>3, <4>1, LoadsInOrder DEF go_EX, LoadBuffers
      <4>2. CASE ~EX.call
        <5>1. ID_call /\ ~EX.branch
          BY <2>1, <4>2 DEF HfuInv
        <5>2. CASE load_IF
          BY <5>1, <5>2, LoadsInOrder DEF LoadBuffers, buffer_ID, ID_call
        <5>3. CASE ~load_IF
          <6>1. ID_control.call => ~ID_control.branch
            BY DecodedFacts, IDIsDecoded
          <6>2. ~EX'.branch
            BY <5>1, <6>1 DEF LoadBuffers, buffer_ID, ID_call
          <6> QED
            BY <5>1, <5>3, <6>2, CallStays DEF LoadBuffers
        <5> QED
          BY <5>2, <5>3
      <4> QED
        BY <4>1, <4>2
    <3> QED
      BY <3>1, <3>2, <3>3 DEF HfuInv, error_function_id
  <2> QED
    BY <2>2, <2>3
<1>3. CASE LookupMEM(MAP_granted, info)
  <2>1. hfu_state = "LOOKUP_MEM_REQ_S" /\ MEM.call /\ ~EX.call
    BY <1>3 DEF LookupMEM, HfuInv, error_function_id
  <2>2. MEM' = MEM /\ EX' = EX
    BY <2>1, LoadsInOrder DEF LoadBuffers, block_MEM, await_MEM
  <2>3. /\ hfu_state' \in {"LOOKUP_MEM_REQ_S", "LOOKUP_MEM_S"}
        /\ hfu_state' = "LOOKUP_MEM_S" => map_info' = info
    BY <1>3, <2>1 DEF LookupMEM, hfuVars
  <2> QED
    BY <2>1, <2>2, <2>3 DEF HfuInv, error_function_id
<1>4. CASE ErrorID
  BY <1>4 DEF ErrorID, hfuVars, HfuInv, error_function_id
<1> QED
  BY <1>1, <1>2, <1>3, <1>4 DEF HfuStep

(* Nothing is called in a core that is held in reset.                      *)
LEMMA CallsInReset ==
  ASSUME InReset
  PROVE  (EXInv /\ HfuInv)'
BY DEF InReset, ResetBuffers, ID_reset, EX_reset, MEM_reset, EXInv, HfuInv, MEM_access,
       error_function_id

(* Nor in one that is switched on.                                         *)
LEMMA CallsInit == Init => EXInv /\ HfuInv
BY DEF Init, PowerUp, HfuInit, ID_reset, EX_reset, MEM_reset, EXInv, HfuInv, MEM_access,
       error_function_id

(* Unit and pipeline agree on the call after every step.                   *)
LEMMA CallsNext == EXInv /\ HfuInv /\ [Next]_vars => (EXInv /\ HfuInv)'
<1> SUFFICES ASSUME EXInv, HfuInv, [Next]_vars PROVE (EXInv /\ HfuInv)'
  OBVIOUS
<1>1. CASE Running /\ imem' = imem
  BY <1>1, EXStep, HfuRunning DEF Running
<1>2. CASE InReset
  BY <1>2, CallsInReset
<1>3. CASE UNCHANGED vars
  <2>1. /\ UNCHANGED <<ID, EX, MEM, WB, imem, hfu_state, map_info, EX_saved_taken_branch>>
        /\ UNCHANGED DMEM_output
    BY <1>3 DEF vars, stageVars, flagVars, hfuVars
  <2>2. EXInv'
    BY <2>1 DEF EXInv, MEM_access
  <2>3. ID_call' = ID_call
    BY <2>1 DEF ID_call, ID_control, ID_discard_ID, EX_taken_branch, EX_volatile_taken_branch,
                EX_operand_A, EX_operand_B, EX_cut, EX_fw_operand_A, EX_fw_operand_B, EX_operand,
                forwarded, EX_imm64, EX_uses_imm, MEM_ex_value, MEM_call_value, WB_reg_value,
                WB_mem_value, ID_IR
  <2>4. HfuInv'
    BY <2>1, <2>3 DEF HfuInv, error_function_id
  <2> QED
    BY <2>2, <2>4
<1> QED
  BY <1>1, <1>2, <1>3 DEF Next

(* The helper functions unit follows a call through the pipeline: it looks *)
(* a map up when the call is in MEM, for its parameters, and never for an  *)
(* instruction that is not there (BPF_Helper_Functions_Unit.vhd).          *)
THEOREM UnitFollowsCall == Spec => []HfuFollowsCall
<1>1. EXInv /\ HfuInv => HfuFollowsCall
  BY DEF HfuInv, HfuFollowsCall, error_function_id
<1> QED
  BY <1>1, CallsInit, CallsNext, PTL DEF Spec
-----------------------------------------------------------------------------
(***************************************************************************)
(* Branches that wait.  The instructions behind a branch in EX are         *)
(* discarded if it is taken, and stop the pipeline if it is not and they   *)
(* are at fault or exits: it must not change its mind as it waits.         *)
(***************************************************************************)

(* A branch reads no register that a call in MEM is about to write: it     *)
(* waited in ID as long as the call was in EX.                             *)
SourceInv ==
  EX.branch /\ MEM.call =>
    ~consume(MEM, EX.IR.dst) /\ (EX.IR.source = "REG" => ~consume(MEM, EX.IR.src))

(* In every cycle a branch enters EX only when no call before it is about  *)
(* to write what it reads.                                                 *)
LEMMA SourceStep ==
  ASSUME EXInv, SourceInv, LoadBuffers
  PROVE  SourceInv'
<1> SUFFICES ASSUME EX'.branch, MEM'.call
             PROVE  /\ ~consume(MEM', EX'.IR.dst)
                    /\ EX'.IR.source = "REG" => ~consume(MEM', EX'.IR.src)
  BY DEF SourceInv
<1>1. CASE load_ID
  <2>1. EX' = buffer_ID /\ MEM' = buffer_EX
    BY <1>1, LoadsInOrder DEF LoadBuffers
  <2>2. ID_control.branch /\ ~ID_blocked /\ EX'.IR = ID_IR /\ EX.call
    BY <2>1 DEF buffer_ID, buffer_EX
  <2>3. ~ID_discard_ID /\ sig_branch(ID_IR)
    BY <2>2, DecodedFacts, IDIsDecoded
  <2>4. /\ EX_producer.mem
        /\ \A reg : consume(MEM', reg) => consumed_from_EX(EX_producer, reg)
    BY <2>1, <2>2 DEF EX_producer, buffer_EX, consume, consumed_from_EX
  <2>5. ~block_ID(ID_IR, num_params(ID_IR.imm), EX_producer)
    BY <2>2, <2>3 DEF ID_blocked
  <2> QED
    BY <2>2, <2>3, <2>4, <2>5 DEF block_ID, sig_use_dst, sig_use_src
<1>2. CASE ~load_ID
  <2>1. EX' = EX
    BY <1>2 DEF LoadBuffers
  <2>2. ~load_EX
    BY <1>2, <2>1, LoadsInOrder, EXWaits DEF EXInv
  <2> QED
    BY <2>1, <2>2 DEF LoadBuffers, SourceInv
<1> QED
  BY <1>1, <1>2

(* What the source gets wrong: the data memory interface has one output    *)
(* register, so the first cycle of an atomic operation in MEM replaces the *)
(* value of a load in WB, which the instruction in EX still reads.         *)
Loads(buffer) == buffer.mem_to_reg /\ (buffer.reg_write \/ buffer.write_r0)
LoadKept == ~(Loads(WB) /\ MEM_access /\ MEM.atomic /\ EX.branch)

(* A branch that waits in EX because MEM waits does not change its mind:   *)
(* what it compares is forwarded from the same place.                      *)
LEMMA BranchDecided ==
  ASSUME EXInv, HfuInv, SourceInv, LoadKept, LoadBuffers, DataMemoryStep, imem' = imem,
         EX.branch, block_MEM
  PROVE  EX_volatile_taken_branch' = EX_volatile_taken_branch
<1>1. EX' = EX /\ MEM' = MEM /\ WB' = WB /\ ID' = ID
  BY LoadsInOrder DEF LoadBuffers, load_MEM
<1>2. ~EX.call /\ ~EX.imm64 /\ ~EX.force_imm
  BY DEF EXInv
<1>3. Loads(WB) => DMEM_output' = DMEM_output
  <2> SUFFICES ASSUME Loads(WB), MEM_serve PROVE FALSE
    BY DEF DataMemoryStep
  <2>1. ~MEM.atomic
    BY DEF LoadKept, MEM_serve
  <2>2. MEM_ready
    BY <2>1 DEF MEM_ready
  <2>3. MEM.call
    BY <2>2 DEF block_MEM, await_MEM, HfuInv, error_function_id
  <2> QED
    BY <2>3 DEF EXInv, MEM_serve
<1>4. \A reg : consume(WB, reg) => WB_reg_value' = WB_reg_value
  BY <1>1, <1>3 DEF consume, Loads, WB_reg_value, WB_mem_value
<1>5. ~MEM.call => MEM_ex_value' = MEM_ex_value
  BY <1>1 DEF MEM_ex_value
<1>6. ASSUME NEW reg, NEW own, MEM.call => ~consume(MEM, reg)
      PROVE  forwarded(forward(reg, MEM, WB), own)' = forwarded(forward(reg, MEM, WB), own)
  BY <1>1, <1>4, <1>5, <1>6 DEF forwarded, forward
<1>7. EX_operand_A' = EX_operand_A
  BY <1>1, <1>2, <1>6
     DEF SourceInv, EX_operand_A, EX_fw_operand_A, EX_operand, register_A, EX_cut, forwarded
<1>8. EX_operand_B' = EX_operand_B
  <2>1. EX_uses_imm' = EX_uses_imm /\ EX_imm64' = EX_imm64
    BY <1>1 DEF EX_uses_imm, EX_imm64
  <2>2. CASE EX_uses_imm
    BY <1>1, <2>1, <2>2 DEF EX_operand_B, EX_cut
  <2>3. CASE ~EX_uses_imm
    <3>1. MEM.call => ~consume(MEM, EX.IR.src)
      BY <1>2, <2>3 DEF SourceInv, EX_uses_imm
    <3> QED
      BY <1>1, <1>2, <1>6, <2>1, <2>3, <3>1
         DEF EX_operand_B, EX_fw_operand_B, EX_operand, register_B, EX_cut, forwarded
  <2> QED
    BY <2>2, <2>3
<1> QED
  BY <1>1, <1>7, <1>8 DEF EX_volatile_taken_branch
-----------------------------------------------------------------------------
(***************************************************************************)
(* Atomic operations and resets.                                           *)
(***************************************************************************)

(* The host does not reset the core while an access is in MEM, so that the *)
(* second half of an atomic operation finds its instruction there.         *)
ResetInv ==
  /\ CORE_reset => ~MEM_access
  /\ dmem_state = "MODIFY_WRITE_S" => MEM_access /\ ~CORE_reset

(* In a core that has flushed its stages and has no access error no access *)
(* is under way, nor in the next cycle.                                    *)
LEMMA AccessGone ==
  ASSUME CTRL_flushed, ~DMEM_error, LoadBuffers
  PROVE  ~MEM_access /\ ~MEM_access'
<1>1. MEM_is_noop /\ EX_is_noop
  BY Blocks DEF CTRL_flushed
<1> QED
  BY <1>1 DEF MEM_is_noop, EX_is_noop, LoadBuffers, buffer_EX, MEM_access

(* The second half of an atomic operation finds its instruction in MEM,    *)
(* after every step.                                                       *)
LEMMA ResetStep ==
  ASSUME ResetInv, Next
  PROVE  ResetInv'
<1> USE DEF Next
<1>1. CORE_reset' => ~MEM_access'
  <2> SUFFICES ASSUME CORE_reset' PROVE ~MEM_access'
    OBVIOUS
  <2>1. may_reset /\ dmem_state' # "ERROR_S"
    BY DEF ResetInput
  <2>2. CASE CORE_reset
    BY <2>2 DEF Running, InReset, ResetBuffers, MEM_reset, MEM_access
  <2>3. CASE ~CORE_reset
    BY <2>1, <2>3, AccessGone
       DEF may_reset, Running, InReset, DataMemoryStep, CORE_finish, CORE_exception, CORE_sleeping
  <2> QED
    BY <2>2, <2>3
<1>2. ASSUME dmem_state' = "MODIFY_WRITE_S" PROVE MEM_access' /\ ~CORE_reset'
  <2>1. MEM_serve /\ MEM.atomic
    BY <1>2 DEF DataMemoryStep, MEM_modify
  <2>2. MEM_access /\ ~CORE_reset /\ Running
    BY <2>1 DEF MEM_serve, ResetInv, InReset
  <2>3. ~MEM_ready
    BY <2>1 DEF MEM_ready, MEM_serve
  <2>4. MEM' = MEM
    BY <2>2, <2>3, LoadsInOrder DEF block_MEM, Running, LoadBuffers
  <2> QED
    BY <1>1, <2>2, <2>4 DEF MEM_access
<1> QED
  BY <1>1, <1>2 DEF ResetInv
-----------------------------------------------------------------------------
(***************************************************************************)
(* Exceptions and the end of a program.                                    *)
(***************************************************************************)

StageInv == CTRL_saved_exception => CTRL_exception
FinishInv == CTRL_saved_finish => CTRL_exception \/ ID_control.finish

(* What ID holds, when nothing is wrong in MEM and it is stopped, it still *)
(* holds in the next cycle.                                                *)
LEMMA IDHeld ==
  ASSUME EXInv, HfuInv, SourceInv, LoadKept, LoadBuffers, FlagStep, DataMemoryStep, imem' = imem,
         ~DMEM_error, EX_make_noop, ~ID_discard_ID
  PROVE  ~ID_discard_ID' /\ ID_IR' = ID_IR
<1>1. ID' = ID
  BY LoadsInOrder DEF LoadBuffers
<1>2. ~EX_saved_taken_branch' /\ ~EX_volatile_taken_branch
  BY DEF FlagStep, ID_discard_ID, EX_taken_branch
<1>3. ~EX_volatile_taken_branch'
  <2>1. CASE load_ID
    BY <2>1 DEF LoadBuffers, buffer_ID, EX_volatile_taken_branch
  <2>2. CASE ~load_ID
    <3>1. EX' = EX
      BY <2>2 DEF LoadBuffers
    <3>2. CASE EX.branch
      <4>1. block_MEM
        BY <2>2, <3>2, Blocks, EXWaits DEF load_ID, EXInv
      <4> QED
        BY <1>2, <3>2, <4>1, BranchDecided
    <3>3. CASE ~EX.branch
      BY <3>1, <3>3 DEF EX_volatile_taken_branch
    <3> QED
      BY <3>2, <3>3
  <2> QED
    BY <2>1, <2>2
<1> QED
  BY <1>1, <1>2, <1>3 DEF ID_discard_ID, EX_taken_branch, ID_IR

(* An exception has its cause until the core is reset.                     *)
LEMMA ExceptionStays ==
  ASSUME EXInv, HfuInv, SourceInv, LoadKept, Running, DataMemoryStep, imem' = imem,
         CTRL_exception
  PROVE  CTRL_exception'
<1>1. CTRL_exception' <=> DMEM_error' \/ ID_illegal' \/ error_function_id'
  BY DEF CTRL_exception, exception, gen_exception
<1>2. CASE DMEM_error
  <2>1. MEM' = MEM
    BY <1>2, Blocks DEF load_EX, Running, LoadBuffers
  <2> QED
    BY <1>1, <1>2, <2>1 DEF DMEM_error, MEM_access
<1>3. CASE error_function_id
  <2>1. hfu_state' = hfu_state
    BY <1>3 DEF error_function_id, Running, HfuStep, Dispatch, may_dispatch, LookupEX, LookupMEM,
                ErrorID, hfuVars
  <2> QED
    BY <1>1, <1>3, <2>1 DEF error_function_id
<1>4. CASE ID_illegal /\ ~DMEM_error
  <2>1. EX_make_noop
    BY <1>4, Stages DEF EX_make_noop, stop_at, CTRL_flush_pipeline, CTRL_flush_stage, FLAG_exception
  <2>2. ~ID_discard_ID' /\ ID_IR' = ID_IR
    BY <1>4, <2>1, IDHeld DEF ID_illegal, Running
  <2> QED
    BY <1>1, <1>4, <2>2 DEF ID_illegal
<1> QED
  BY <1>2, <1>3, <1>4, Stages

(* An exception that was seen is still there in the next cycle of a core   *)
(* that runs.                                                              *)
LEMMA StageRunning ==
  ASSUME EXInv, HfuInv, SourceInv, LoadKept, StageInv, Running, DataMemoryStep, imem' = imem
  PROVE  StageInv'
BY ExceptionStays DEF StageInv, Running, FlagStep

(* And the exit that was seen, unless an exception came before it.         *)
LEMMA FinishRunning ==
  ASSUME EXInv, HfuInv, SourceInv, LoadKept, StageInv, FinishInv, Running, DataMemoryStep,
         imem' = imem
  PROVE  FinishInv'
<1> SUFFICES ASSUME CTRL_saved_finish' PROVE CTRL_exception' \/ ID_control'.finish
  BY DEF FinishInv
<1>1. CASE CTRL_exception
  BY <1>1, ExceptionStays
<1>2. CASE ~CTRL_exception
  <2>1. ID_control.finish
    BY <1>2 DEF Running, FlagStep, FinishInv
  <2>2. ~ID_discard_ID /\ Sequential!Exits(ID_IR)
    BY <2>1, DecodedFacts, IDIsDecoded
  <2>3. EX_make_noop /\ ~DMEM_error
    BY <1>2, <2>1, Stages
       DEF EX_make_noop, stop_at, CTRL_flush_pipeline, CTRL_flush_stage, FLAG_exception, FLAG_finish,
           StageInv
  <2>4. ~ID_discard_ID' /\ ID_IR' = ID_IR
    BY <2>2, <2>3, IDHeld DEF Running
  <2>5. ID_control' = Decoded(ID_discard_ID', ID_IR')
    BY DEF ID_control, Decoded
  <2> QED
    BY <2>2, <2>4, <2>5, DecodedFacts
<1> QED
  BY <1>1, <1>2
-----------------------------------------------------------------------------
PipelineInv ==
  /\ EXInv /\ HfuInv /\ SourceInv /\ ResetInv /\ StageInv /\ FinishInv

(* A core that is switched on has no exception, no exit and nothing under  *)
(* way.                                                                    *)
LEMMA PipelineInit == Init => PipelineInv
<1> SUFFICES ASSUME Init PROVE PipelineInv
  OBVIOUS
<1>1. EXInv /\ HfuInv
  BY CallsInit
<1>2. SourceInv /\ ResetInv /\ StageInv /\ FinishInv
  BY DEF Init, PowerUp, EX_reset, SourceInv, ResetInv, StageInv, FinishInv
<1> QED
  BY <1>1, <1>2 DEF PipelineInv

(* A cycle in which nothing changes.                                       *)
LEMMA PipelineStutter ==
  ASSUME PipelineInv, UNCHANGED vars
  PROVE  PipelineInv'
<1>1. /\ UNCHANGED <<imem, ID, EX, MEM, WB, DMEM_output, dmem_state, CORE_reset>>
      /\ UNCHANGED <<hfu_state, map_info>> /\ UNCHANGED flagVars
  BY DEF vars, stageVars, inputVars, hfuVars
<1>2. EX_taken_branch' = EX_taken_branch
  BY <1>1
     DEF flagVars, EX_taken_branch, EX_volatile_taken_branch, EX_operand_A, EX_operand_B, EX_cut,
         EX_fw_operand_A, EX_fw_operand_B, EX_operand, forwarded, EX_imm64, EX_uses_imm,
         MEM_ex_value, MEM_call_value, WB_reg_value, WB_mem_value
<1>3. ID_control' = ID_control /\ CTRL_exception' = CTRL_exception
  BY <1>1, <1>2
     DEF ID_control, ID_discard_ID, ID_IR, CTRL_exception, gen_exception, error_function_id,
         DMEM_error, MEM_access, ID_illegal
<1> QED
  BY <1>1, <1>3
     DEF PipelineInv, EXInv, HfuInv, SourceInv, ResetInv, StageInv, FinishInv, MEM_access,
         error_function_id, ID_call, flagVars

(* What the parts of the pipeline know of each other holds after every     *)
(* step.                                                                   *)
LEMMA PipelineNext == PipelineInv /\ LoadKept /\ [Next]_vars => PipelineInv'
<1> SUFFICES ASSUME PipelineInv, LoadKept, [Next]_vars PROVE PipelineInv'
  OBVIOUS
<1> USE DEF PipelineInv
<1>1. CASE Next /\ Running
  <2>1. LoadBuffers /\ DataMemoryStep /\ imem' = imem
    BY <1>1 DEF Next, Running
  <2> QED
    BY <1>1, <2>1, EXStep, HfuRunning, SourceStep, ResetStep, StageRunning, FinishRunning
<1>2. CASE Next /\ InReset
  <2>1. SourceInv' /\ StageInv' /\ FinishInv'
    BY <1>2 DEF InReset, ResetBuffers, ResetFlags, EX_reset, SourceInv, StageInv, FinishInv
  <2> QED
    BY <1>2, <2>1, CallsInReset, ResetStep
<1>3. CASE UNCHANGED vars
  BY <1>3, PipelineStutter
<1> QED
  BY <1>1, <1>2, <1>3 DEF Next

(* The stage of an exception is the live output of the exception unit: as  *)
(* long as the flag is set its cause is there, whatever the host, the      *)
(* arbiters and the instructions in front of it do (BPF_Core.vhd).  It may *)
(* not be when an atomic operation changes what a branch reads.            *)
THEOREM StageIsHeld == Spec /\ []LoadKept => []StageHeld
<1>1. PipelineInv => StageHeld
  BY DEF PipelineInv, StageInv, StageHeld
<1> QED
  BY <1>1, PipelineInit, PipelineNext, PTL DEF Spec

(* When the core reports that a program has finished, its exit was reached *)
(* and nothing before it is under way, half of an atomic operation neither *)
(* (BPF_Core.vhd, CORE_finish).                                            *)
THEOREM FinishIsPrecise == Spec /\ []LoadKept => []FinishPrecise
<1>1. PipelineInv => FinishPrecise
  <2> SUFFICES ASSUME PipelineInv, CORE_finish
               PROVE  /\ ~ID_discard_ID /\ Sequential!Exits(ID_IR)
                      /\ EX_is_noop /\ MEM_is_noop /\ WB_is_noop /\ ~MEM_modify
                      /\ CORE_output = reg_file_written[0]
    BY DEF FinishPrecise
  <2>1. CTRL_flushed /\ FLAG_finish
    BY DEF CORE_finish
  <2>2. ~FLAG_exception
    <3> SUFFICES ASSUME FLAG_exception PROVE FALSE
      OBVIOUS
    <3>1. CTRL_exception
      BY DEF FLAG_exception, PipelineInv, StageInv
    <3>2. ~ID_make_noop
      BY <3>1, Stages DEF ID_make_noop, stop_at, CTRL_flush_stage
    <3> QED
      BY <3>2 DEF CORE_finish
  <2>3. ~CTRL_exception /\ ~DMEM_error
    BY <2>2, Stages DEF FLAG_exception
  <2>4. ID_control.finish
    BY <2>1, <2>3 DEF FLAG_finish, PipelineInv, FinishInv
  <2>5. ~ID_discard_ID /\ Sequential!Exits(ID_IR)
    BY <2>4, DecodedFacts, IDIsDecoded
  <2>6. CTRL_flush_stage = "ID"
    BY <2>2 DEF CTRL_flush_stage
  <2>7. WB_is_noop /\ MEM_is_noop /\ EX_is_noop
    BY <2>1, <2>6 DEF CTRL_flushed, WB_make_noop, MEM_make_noop, stop_at
  <2>8. ~MEM_modify
    BY <2>7 DEF MEM_modify, MEM_is_noop, PipelineInv, ResetInv
  <2>9. CORE_output = reg_file_written[0]
    <3>1. ~ID_call
      BY <2>5, DecodedFacts, IDIsDecoded DEF ID_call, is_call, Sequential!Exits
    <3> QED
      BY <2>2, <3>1 DEF CORE_output, ID_R0, read_register, Regs
  <2> QED
    BY <2>5, <2>7, <2>8, <2>9
<1> QED
  BY <1>1, PipelineInit, PipelineNext, PTL DEF Spec
-----------------------------------------------------------------------------
(***************************************************************************)
(* The address of an access.  It is computed in EX, of a base register     *)
(* that older instructions in MEM and in WB may be about to write; in MEM  *)
(* it is the address that the registers give when all of them are done.    *)
(***************************************************************************)
EX_access == EX.write_en \/ EX.read_en
EX_base == base_register(EX.IR)
EX_own == IF EX.write_en THEN EX.A ELSE EX.B
MEM_insn == imem[MEM.PC]
MEM_base == base_register(MEM_insn)

(* An access is an instruction, read at its address, of a register there   *)
(* is; the bubble behind a call is discarded.                              *)
FetchInv ==
  /\ ID.call_2 => ID.discard
  /\ EX_access =>
       /\ instr.EX /\ EX.IR = imem[EX.PC] /\ EX.IR.class \in MemClass
       /\ EX.write_en <=> EX.IR.class # "LDX"
       /\ EX.addr_calc /\ ~EX.alu_en /\ ~EX.call /\ EX_base \in Regs
  /\ MEM_access => instr.MEM /\ MEM_insn.class \in MemClass /\ MEM_base \in Regs

(* What comes late, out of a memory or of the helper unit, is not read     *)
(* from MEM: the reader waited in ID.  When it is read from WB, its reader *)
(* has not gone on to MEM.                                                 *)
LateInv ==
  /\ EX_access /\ consume(MEM, EX_base) => ~MEM.mem_to_reg
  /\ MEM_access /\ consume(WB, MEM_base) => ~WB.mem_to_reg

(* What was read in ID is what the register bank holds, unless it is being *)
(* forwarded; the host writes no register under an access.                 *)
OwnInv ==
  EX_access /\ ~DMEM_error /\ ~consume(MEM, EX_base) /\ ~consume(WB, EX_base)
    => EX_own = reg_file[EX_base]

HostWriteInv == CORE_reg.write => ~EX_access /\ ~MEM_access

AddressInv == MEM_access => MEM.C = Address(reg_file_written[MEM_base], MEM_insn.offset)

AccessInv == FetchInv /\ LateInv /\ OwnInv /\ HostWriteInv /\ AddressInv

(* The signals of an access, and the registers of one that is valid.       *)
LEMMA AccessDecoded ==
  ASSUME NEW d, NEW i, LET c == Decoded(d, i) IN c.write_en \/ c.read_en
  PROVE  LET c == Decoded(d, i)
         IN  /\ ~d /\ i.class \in MemClass /\ (c.write_en <=> i.class # "LDX")
             /\ c.addr_calc /\ ~c.alu_en /\ ~c.call
             /\ valid_instruction(i) => base_register(i) \in Regs
             /\ IF i.class = "LDX" THEN sig_use_src(i) ELSE sig_use_dst(i)
<1>1. ~d
  BY DEF Decoded, NoControl
<1>2. Decoded(d, i) = Control(i)
  BY <1>1 DEF Decoded
<1>3. i.class \in MemClass
  <2>1. Control(i).write_en \/ Control(i).read_en
    BY <1>2
  <2> QED
    BY <2>1 DEF Control, MemClass
<1>4. /\ Control(i).write_en <=> i.class # "LDX"
      /\ Control(i).addr_calc /\ ~Control(i).alu_en /\ ~Control(i).call
  BY <1>3 DEF Control, MemClass, sig_addr_calc, sig_alu_en, is_call
<1>5. valid_instruction(i) => base_register(i) \in Regs
  BY <1>3 DEF MemClass, valid_instruction, valid_store, AluClass, JumpClass, readable,
              base_register, Regs
<1>6. IF i.class = "LDX" THEN sig_use_src(i) ELSE sig_use_dst(i)
  BY <1>3 DEF MemClass, sig_use_src, sig_use_dst, sig_addr_calc, sig_force_imm
<1> QED
  BY <1>1, <1>2, <1>3, <1>4, <1>5, <1>6

(* An access that enters EX, and one that enters MEM.                      *)
LEMMA EntersEX ==
  ASSUME LoadBuffers, load_ID, EX_access'
  PROVE  /\ EX' = buffer_ID /\ MEM' = buffer_EX /\ ~ID_discard_ID /\ ~ID_blocked
         /\ ~EX_make_noop /\ valid_instruction(ID_IR)
         /\ ID_control.write_en \/ ID_control.read_en
<1>1. EX' = buffer_ID /\ MEM' = buffer_EX /\ ~DMEM_error
  BY LoadsInOrder, Blocks DEF LoadBuffers, load_ID
<1>2. /\ ~ID_blocked /\ ~EX_make_noop
      /\ ID_control.write_en \/ ID_control.read_en
  BY <1>1 DEF EX_access, buffer_ID
<1>3. ~ID_discard_ID
  BY <1>2, IDIsDecoded, AccessDecoded
<1>4. ~ID_illegal
  BY <1>1, <1>2, Stages
     DEF EX_make_noop, stop_at, CTRL_flush_pipeline, CTRL_flush_stage, FLAG_exception
<1> QED
  BY <1>1, <1>2, <1>3, <1>4 DEF ID_illegal

(* An access that enters MEM comes from EX, unchanged, and takes what was  *)
(* in MEM on to WB.                                                        *)
LEMMA EntersMEM ==
  ASSUME FetchInv, LoadBuffers, load_EX, MEM_access', imem' = imem
  PROVE  /\ EX_access /\ ~block_EX /\ ~DMEM_error /\ ~block_MEM
         /\ MEM' = buffer_EX /\ WB' = buffer_MEM /\ MEM_base' = EX_base /\ MEM_insn' = EX.IR
<1>1. MEM' = buffer_EX /\ WB' = buffer_MEM /\ ~DMEM_error /\ ~block_MEM
  BY LoadsInOrder, Blocks DEF LoadBuffers, load_EX, load_MEM
<1>2. EX_access /\ ~block_EX
  BY <1>1 DEF MEM_access, buffer_EX, EX_access
<1>3. MEM'.PC = EX.PC
  BY <1>1 DEF buffer_EX
<1> QED
  BY <1>1, <1>2, <1>3 DEF FetchInv, MEM_base, MEM_insn, EX_base

(* An access that stays in EX keeps the one in MEM where it is.            *)
LEMMA StaysInEX ==
  ASSUME FetchInv, LoadBuffers, ~load_ID, EX_access'
  PROVE  EX' = EX /\ EX_access /\ ~load_EX /\ MEM' = MEM
<1>1. EX' = EX /\ EX_access
  BY DEF LoadBuffers, EX_access
<1>2. ~load_EX
  BY <1>1, LoadsInOrder, EXWaits DEF FetchInv
<1> QED
  BY <1>1, <1>2 DEF LoadBuffers

(* After a cycle an access is still an instruction read at its address.    *)
LEMMA FetchStep ==
  ASSUME FetchInv, LoadBuffers, imem' = imem
  PROVE  FetchInv'
<1>1. ID'.call_2 => ID'.discard
  <2>1. ID_call => ID_control.discard_IF
    BY DecodedFacts, IDIsDecoded DEF ID_call
  <2> QED
    BY <2>1 DEF LoadBuffers, buffer_IF, FetchInv
<1>2. ASSUME EX_access'
      PROVE  /\ instr'.EX /\ EX'.IR = imem'[EX'.PC] /\ EX'.IR.class \in MemClass
             /\ EX'.write_en <=> EX'.IR.class # "LDX"
             /\ EX'.addr_calc /\ ~EX'.alu_en /\ ~EX'.call /\ EX_base' \in Regs
  <2>1. CASE load_ID
    <3>1. /\ EX' = buffer_ID /\ ~ID_discard_ID /\ ~ID_blocked
          /\ ~EX_make_noop /\ valid_instruction(ID_IR)
          /\ ID_control.write_en \/ ID_control.read_en
      BY <1>2, <2>1, EntersEX
    <3>2. /\ ID_IR.class \in MemClass /\ (ID_control.write_en <=> ID_IR.class # "LDX")
          /\ ID_control.addr_calc /\ ~ID_control.alu_en /\ ~ID_control.call
          /\ base_register(ID_IR) \in Regs
      BY <3>1, IDIsDecoded, AccessDecoded
    <3>3. instr'.EX
      BY <2>1, <3>1 DEF LoadBuffers
    <3>4. /\ EX'.IR = ID_IR /\ EX'.PC = ID.PC
          /\ EX'.write_en <=> ID_control.write_en
          /\ EX'.addr_calc = ID_control.addr_calc
          /\ EX'.alu_en <=> ID_control.alu_en
          /\ EX'.call <=> ID_control.call
      BY <3>1 DEF buffer_ID
    <3> QED
      BY <3>2, <3>3, <3>4 DEF EX_base, ID_IR
  <2>2. CASE ~load_ID
    BY <1>2, <2>2, StaysInEX DEF FetchInv, LoadBuffers, EX_base
  <2> QED
    BY <2>1, <2>2
<1>3. ASSUME MEM_access'
      PROVE  instr'.MEM /\ MEM_insn'.class \in MemClass /\ MEM_base' \in Regs
  <2>1. CASE load_EX
    BY <1>3, <2>1, EntersMEM, Blocks DEF FetchInv, LoadBuffers
  <2>2. CASE ~load_EX
    BY <1>3, <2>2 DEF FetchInv, LoadBuffers, MEM_access, MEM_insn, MEM_base
  <2> QED
    BY <2>1, <2>2
<1> QED
  BY <1>1, <1>2, <1>3 DEF FetchInv

(* After a cycle the base of an access in EX still does not come late from *)
(* MEM.                                                                    *)
LEMMA LateStep ==
  ASSUME FetchInv, LateInv, LoadBuffers, imem' = imem
  PROVE  LateInv'
<1>1. ASSUME EX_access', consume(MEM', EX_base') PROVE ~MEM'.mem_to_reg
  <2>1. CASE load_ID
    <3>1. /\ EX' = buffer_ID /\ MEM' = buffer_EX /\ ~ID_discard_ID /\ ~ID_blocked
          /\ ID_control.write_en \/ ID_control.read_en
      BY <1>1, <2>1, EntersEX
    <3>2. EX_base' = base_register(ID_IR)
      BY <3>1 DEF EX_base, buffer_ID
    <3>3. consumed_from_EX(EX_producer, base_register(ID_IR))
      BY <1>1, <3>1, <3>2 DEF consume, consumed_from_EX, EX_producer, buffer_EX
    <3>4. /\ ~block_ID(ID_IR, num_params(ID_IR.imm), EX_producer)
          /\ IF ID_IR.class = "LDX" THEN sig_use_src(ID_IR) ELSE sig_use_dst(ID_IR)
      BY <3>1, IDIsDecoded, AccessDecoded DEF ID_blocked
    <3>5. ~EX_producer.mem
      BY <3>3, <3>4 DEF block_ID, base_register
    <3> QED
      BY <3>1, <3>5 DEF EX_producer, buffer_EX
  <2>2. CASE ~load_ID
    BY <1>1, <2>2, StaysInEX DEF LateInv, EX_base
  <2> QED
    BY <2>1, <2>2
<1>2. ASSUME MEM_access', consume(WB', MEM_base') PROVE ~WB'.mem_to_reg
  <2>1. CASE load_EX
    <3>1. EX_access /\ WB' = buffer_MEM /\ MEM_base' = EX_base
      BY <1>2, <2>1, EntersMEM
    <3>2. consume(MEM, EX_base)
      BY <1>2, <3>1 DEF consume, buffer_MEM
    <3> QED
      BY <3>1, <3>2 DEF LateInv, buffer_MEM
  <2>2. CASE ~load_EX
    <3>1. MEM' = MEM /\ MEM_access /\ MEM_base' = MEM_base
      BY <1>2, <2>2 DEF LoadBuffers, MEM_access, MEM_base, MEM_insn
    <3>2. CASE load_MEM
      <4>1. WB' = buffer_MEM /\ WB_make_noop
        BY <2>2, <3>2, Blocks DEF LoadBuffers, load_EX, load_MEM
      <4> QED
        BY <1>2, <4>1 DEF consume, buffer_MEM
    <3>3. CASE ~load_MEM
      BY <1>2, <3>1, <3>3 DEF LateInv, LoadBuffers
    <3> QED
      BY <3>2, <3>3
  <2> QED
    BY <2>1, <2>2
<1> QED
  BY <1>1, <1>2 DEF LateInv

(* A register that WB does not write keeps what it holds.                  *)
LEMMA BankKeeps ==
  ASSUME NEW r \in Regs, ~CORE_reg.write, ~consume(WB, r)
  PROVE  reg_file_written[r] = reg_file[r]
BY DEF reg_file_written, bank_write, bank_dst, consume

(* The value in WB is the one that a register it writes has at the end of  *)
(* the cycle.                                                              *)
LEMMA BankTakes ==
  ASSUME NEW r \in Regs, ~CORE_reg.write, consume(WB, r)
  PROVE  reg_file_written[r] = WB_reg_value
BY DEF reg_file_written, bank_write, bank_dst, bank_input, consume

(* After a cycle the base that an access has read in ID is that of the     *)
(* bank, unless it is going to be forwarded.                               *)
LEMMA OwnStep ==
  ASSUME FetchInv, OwnInv, HostWriteInv, LoadBuffers
  PROVE  OwnInv'
<1> SUFFICES ASSUME EX_access', ~DMEM_error', ~consume(MEM', EX_base'), ~consume(WB', EX_base')
             PROVE  EX_own' = reg_file'[EX_base']
  BY DEF OwnInv
<1>1. CASE load_ID
  <2>1. /\ EX' = buffer_ID /\ ~ID_discard_ID /\ valid_instruction(ID_IR)
        /\ ID_control.write_en \/ ID_control.read_en
    BY <1>1, EntersEX
  <2>2. /\ ~ID_call /\ ~ID.call_2 /\ base_register(ID_IR) \in Regs
        /\ EX'.write_en <=> ID_IR.class # "LDX"
    <3>1. /\ ~ID_control.call /\ (ID_control.write_en <=> ID_IR.class # "LDX")
          /\ base_register(ID_IR) \in Regs
      BY <2>1, IDIsDecoded, AccessDecoded
    <3>2. EX'.write_en <=> ID_control.write_en
      BY <1>1, <2>1, EntersEX DEF buffer_ID
    <3> QED
      BY <2>1, <3>1, <3>2 DEF ID_call, FetchInv, ID_discard_ID
  <2>3. EX_base' = base_register(ID_IR) /\ EX_own' = reg_file_written[base_register(ID_IR)]
    BY <2>1, <2>2
       DEF EX_base, EX_own, buffer_ID, base_register, ID_A, ID_B, read_register
  <2> QED
    BY <2>3 DEF LoadBuffers
<1>2. CASE ~load_ID
  <2>1. EX' = EX /\ EX_access /\ MEM' = MEM /\ ~load_EX
    BY <1>2, StaysInEX
  <2>2. ~DMEM_error
    BY <2>1 DEF DMEM_error, MEM_access
  <2>3. WB' = WB
    BY <2>1, <2>2, Blocks DEF LoadBuffers, load_EX, load_MEM
  <2>4. EX_own = reg_file[EX_base] /\ EX_base' = EX_base /\ EX_own' = EX_own
    BY <2>1, <2>2, <2>3 DEF OwnInv, EX_base, EX_own
  <2>5. reg_file_written[EX_base] = reg_file[EX_base]
    BY <2>1, <2>3, <2>4, BankKeeps DEF HostWriteInv, FetchInv
  <2> QED
    BY <2>4, <2>5 DEF LoadBuffers
<1> QED
  BY <1>1, <1>2

(* The host reads that the core sleeps before it writes a register.        *)
LEMMA HostWriteStep ==
  ASSUME FetchInv, Running, RegInput
  PROVE  HostWriteInv'
<1> SUFFICES ASSUME CORE_reg'.write PROVE ~EX_access' /\ ~MEM_access'
  BY DEF HostWriteInv
<1>1. CORE_sleeping /\ ~instr.EX /\ ~instr.MEM
  BY DEF RegInput, NoWrite, Running
<1>2. ~EX_access /\ ~MEM_access
  BY <1>1 DEF FetchInv
<1>3. EX_make_noop
  BY <1>1 DEF CORE_sleeping, EX_make_noop, stop_at, CTRL_flush_pipeline, CTRL_flush_stage
<1> QED
  BY <1>2, <1>3
     DEF Running, LoadBuffers, buffer_ID, buffer_EX, EX_access, MEM_access

(* The address is of the value that the register will have.                *)
LEMMA AddressStep ==
  ASSUME AccessInv, HostWriteInv', LoadBuffers, imem' = imem
  PROVE  AddressInv'
<1> USE DEF AccessInv
<1> SUFFICES ASSUME MEM_access'
             PROVE  MEM'.C = Address(reg_file_written'[MEM_base'], MEM_insn'.offset)
  BY DEF AddressInv
<1>1. ~CORE_reg'.write
  BY DEF HostWriteInv
<1>2. reg_file' = reg_file_written
  BY DEF LoadBuffers
<1>3. CASE load_EX
  <2>1. /\ EX_access /\ ~block_EX /\ ~DMEM_error /\ ~block_MEM
        /\ MEM' = buffer_EX /\ WB' = buffer_MEM /\ MEM_base' = EX_base /\ MEM_insn' = EX.IR
    BY <1>3, EntersMEM
  <2>2. /\ EX.addr_calc /\ ~EX.call /\ EX_base \in Regs /\ ~CORE_reg.write
        /\ EX.write_en <=> EX.IR.class # "LDX"
    BY <2>1 DEF FetchInv, HostWriteInv
  <2>3. MEM'.C = Address(EX_operand(EX_base, EX_own), EX.IR.offset)
    BY <2>1, <2>2
       DEF buffer_EX, EX_C, EX_addr, EX_fw_operand_A, EX_fw_operand_B, EX_base, EX_own,
           base_register, register_A, register_B
  <2>4. consume(WB', EX_base) <=> consume(MEM, EX_base)
    BY <2>1, Blocks DEF consume, buffer_MEM
  <2>5. EX_operand(EX_base, EX_own) = reg_file_written'[EX_base]
    <3>1. CASE consume(MEM, EX_base)
      <4>1. EX_operand(EX_base, EX_own) = MEM_ex_value
        BY <3>1 DEF EX_operand, forward, forwarded
      <4>2. WB_reg_value' = MEM_ex_value
        BY <2>1, <3>1 DEF LateInv, WB_reg_value, buffer_MEM
      <4>3. reg_file_written'[EX_base] = WB_reg_value'
        BY <1>1, <2>2, <2>4, <3>1
           DEF reg_file_written, bank_write, bank_dst, bank_input, consume
      <4> QED
        BY <4>1, <4>2, <4>3
    <3>2. CASE ~consume(MEM, EX_base)
      <4>1. reg_file_written'[EX_base] = reg_file_written[EX_base]
        BY <1>1, <1>2, <2>2, <2>4, <3>2
           DEF reg_file_written, bank_write, bank_dst, consume
      <4>2. CASE consume(WB, EX_base)
        BY <2>2, <3>2, <4>1, <4>2, BankTakes DEF EX_operand, forward, forwarded
      <4>3. CASE ~consume(WB, EX_base)
        BY <2>1, <2>2, <3>2, <4>1, <4>3, BankKeeps DEF OwnInv, EX_operand, forward, forwarded
      <4> QED
        BY <4>2, <4>3
    <3> QED
      BY <3>1, <3>2
  <2> QED
    BY <2>1, <2>3, <2>5
<1>4. CASE ~load_EX
  <2>1. MEM' = MEM /\ MEM_access /\ MEM_base' = MEM_base /\ MEM_insn' = MEM_insn
    BY <1>4 DEF LoadBuffers, MEM_access, MEM_base, MEM_insn
  <2>2. MEM_base \in Regs /\ ~CORE_reg.write
    BY <2>1 DEF FetchInv, HostWriteInv
  <2>3. reg_file_written'[MEM_base] = reg_file_written[MEM_base]
    <3>1. CASE load_MEM
      <4>1. WB' = buffer_MEM /\ WB_make_noop
        BY <1>4, <3>1, Blocks DEF LoadBuffers, load_EX, load_MEM
      <4> QED
        BY <1>1, <1>2, <2>2, <4>1
           DEF reg_file_written, bank_write, bank_dst, buffer_MEM
    <3>2. CASE ~load_MEM
      <4>1. WB' = WB
        BY <3>2 DEF LoadBuffers
      <4>2. CASE consume(WB, MEM_base)
        <5>1. WB_reg_value' = WB_reg_value
          BY <2>1, <4>1, <4>2 DEF LateInv, WB_reg_value
        <5>2. reg_file_written'[MEM_base] = WB_reg_value'
          BY <1>1, <2>2, <4>1, <4>2
             DEF reg_file_written, bank_write, bank_dst, bank_input, consume
        <5> QED
          BY <2>2, <4>2, <5>1, <5>2, BankTakes
      <4>3. CASE ~consume(WB, MEM_base)
        BY <1>1, <1>2, <2>2, <4>1, <4>3
           DEF reg_file_written, bank_write, bank_dst, consume
      <4> QED
        BY <4>2, <4>3
    <3> QED
      BY <3>1, <3>2
  <2> QED
    BY <2>1, <2>3 DEF AddressInv
<1> QED
  BY <1>3, <1>4

(* Nothing happens to an access in a step in which nothing happens.        *)
LEMMA AccessStutter ==
  ASSUME AccessInv, UNCHANGED vars
  PROVE  AccessInv'
<1>1. UNCHANGED <<imem, ID, EX, MEM, WB, reg_file, DMEM_output, CORE_reg, instr>>
  BY DEF vars, stageVars, inputVars
<1>2. reg_file_written' = reg_file_written
  BY <1>1 DEF reg_file_written, bank_write, bank_dst, bank_input, WB_reg_value, WB_mem_value
<1> QED
  BY <1>1, <1>2
     DEF AccessInv, FetchInv, LateInv, OwnInv, HostWriteInv, AddressInv, EX_access, EX_base,
         EX_own, MEM_access, MEM_insn, MEM_base, DMEM_error

(* Nothing is under way in a core that is reset.                           *)
LEMMA AccessReset ==
  ASSUME ~EX_access, ~MEM_access, ID.call_2 => ID.discard
  PROVE  AccessInv
BY DEF AccessInv, FetchInv, LateInv, OwnInv, HostWriteInv, AddressInv

(* The address of an access in MEM is base plus offset, in every state.    *)
LEMMA AccessInvHolds == Spec => []AccessInv
<1>1. Init => AccessInv
  BY AccessReset DEF Init, PowerUp, ID_reset, EX_reset, MEM_reset, EX_access, MEM_access
<1>2. AccessInv /\ [Next]_vars => AccessInv'
  <2> SUFFICES ASSUME AccessInv, [Next]_vars PROVE AccessInv'
    OBVIOUS
  <2>1. CASE Next /\ Running
    <3>1. LoadBuffers /\ RegInput /\ imem' = imem
      BY <2>1 DEF Next, Running
    <3>2. FetchInv' /\ LateInv' /\ OwnInv' /\ HostWriteInv'
      BY <2>1, <3>1, FetchStep, LateStep, OwnStep, HostWriteStep DEF AccessInv
    <3> QED
      BY <3>1, <3>2, AddressStep DEF AccessInv
  <2>2. CASE Next /\ InReset
    <3>1. ~EX_access' /\ ~MEM_access' /\ ~ID'.call_2
      BY <2>2 DEF InReset, ResetBuffers, ID_reset, EX_reset, MEM_reset, EX_access, MEM_access
    <3> QED
      BY <3>1 DEF AccessInv, FetchInv, LateInv, OwnInv, HostWriteInv, AddressInv
  <2>3. CASE UNCHANGED vars
    BY <2>3, AccessStutter
  <2> QED
    BY <2>1, <2>2, <2>3 DEF Next
<1> QED
  BY <1>1, <1>2, PTL DEF Spec

(* The sequential machine has a copy of the table of valid instructions    *)
(* and of what an address is: the same definitions.                        *)
LEMMA SameInstructions ==
  ASSUME NEW i
  PROVE  /\ Sequential!valid_instruction(i) <=> valid_instruction(i)
         /\ Sequential!MemClass = MemClass
         /\ Sequential!MemAddr(i) = Address(reg_file_written[base_register(i)], i.offset)
<1>1. Sequential!valid_alu(i) <=> valid_alu(i)
  BY DEF Sequential!valid_alu, valid_alu, Sequential!writable, writable, Sequential!readable,
         readable, Sequential!RegularOps, RegularOps, Sequential!SignedOps, SignedOps,
         Sequential!mov_size_ok, mov_size_ok, Sequential!end_size_ok, end_size_ok
<1>2. Sequential!valid_jump(i) <=> valid_jump(i)
  BY DEF Sequential!valid_jump, valid_jump, Sequential!readable, readable, Sequential!BranchOps,
         BranchOps
<1>3. Sequential!valid_store(i) <=> valid_store(i)
  BY DEF Sequential!valid_store, valid_store, Sequential!writable, writable,
         Sequential!readable, readable, Sequential!atomic_mem_size_ok, atomic_mem_size_ok,
         Sequential!is_atomic_op, is_atomic_op, Sequential!is_atomic_fetch, is_atomic_fetch,
         Sequential!is_atomic_cmpxchg, is_atomic_cmpxchg, Sequential!SimpleAtomics, SimpleAtomics
<1>4. Sequential!valid_instruction(i) <=> valid_instruction(i)
  BY <1>1, <1>2, <1>3
     DEF Sequential!valid_instruction, valid_instruction, Sequential!writable, writable,
         Sequential!readable, readable, Sequential!AluClass, AluClass, Sequential!JumpClass,
         JumpClass
<1> QED
  BY <1>4
     DEF Sequential!MemClass, MemClass, Sequential!MemAddr, Sequential!Address, Address,
         Sequential!WordMod, WordMod, base_register

(* The host is told the address of the instruction that is at fault: the   *)
(* oldest one that is not done, invalid or with an address that is outside *)
(* the memories once every instruction before it is done (BPF_Core.vhd,    *)
(* CORE_output).  A call of an unknown function is reported at the         *)
(* instruction behind it.                                                  *)
THEOREM ExceptionIsPrecise == Spec /\ []LoadKept /\ []~error_function_id => []ExceptionPrecise
<1>1. PipelineInv /\ AccessInv /\ ~error_function_id => ExceptionPrecise
  <2> SUFFICES ASSUME PipelineInv, AccessInv, ~error_function_id, CORE_exception,
                      CTRL_flush_stage = "ID" => ~instr.EX /\ ~instr.MEM
               PROVE  /\ CORE_output = architectural_pc
                      /\ Sequential!Faults(imem[architectural_pc])
    BY DEF ExceptionPrecise
  <2>1. FLAG_exception /\ CTRL_exception
    BY DEF CORE_exception, FLAG_exception, PipelineInv, StageInv
  <2>2. ~ID_make_noop
    BY <2>1, Stages DEF ID_make_noop, stop_at, CTRL_flush_stage
  <2>3. CORE_output = CTRL_PC
    BY <2>1, <2>2 DEF CORE_output
  <2>4. CASE DMEM_error
    <3>1. MEM_access /\ MEM.C \notin ValidAddr
      BY <2>4 DEF DMEM_error
    <3>2. architectural_pc = MEM.PC /\ CTRL_PC = MEM.PC
      BY <2>4, <3>1, Stages DEF architectural_pc, CTRL_PC, AccessInv, FetchInv
    <3>3. /\ MEM_insn.class \in MemClass
          /\ Address(reg_file_written[base_register(MEM_insn)], MEM_insn.offset) \notin ValidAddr
      BY <3>1 DEF AccessInv, FetchInv, AddressInv, MEM_base
    <3>4. Sequential!Faults(MEM_insn)
      BY <3>3, SameInstructions DEF Sequential!Faults
    <3> QED
      BY <2>3, <3>2, <3>4 DEF MEM_insn
  <2>5. CASE ~DMEM_error
    <3>1. ID_illegal /\ CTRL_exception_stage = "ID"
      BY <2>1, <2>5, Stages
    <3>2. ~instr.EX /\ ~instr.MEM /\ CTRL_PC = ID.PC
      BY <2>1, <3>1 DEF CTRL_flush_stage, CTRL_PC
    <3>3. ~ID_discard_ID /\ ~valid_instruction(ID_IR)
      BY <3>1 DEF ID_illegal
    <3>4. architectural_pc = ID.PC
      BY <3>2, <3>3 DEF architectural_pc, ID_discard_ID, EX_taken_branch
    <3>5. Sequential!Faults(ID_IR)
      BY <3>3, SameInstructions DEF Sequential!Faults
    <3> QED
      BY <2>3, <3>2, <3>4, <3>5 DEF ID_IR
  <2> QED
    BY <2>4, <2>5
<1> QED
  BY <1>1, PipelineInit, PipelineNext, AccessInvHolds, PTL DEF Spec
-----------------------------------------------------------------------------
(***************************************************************************)
(* The types.  That every register holds a value of its width rests on the *)
(* arithmetic of the units (Arithmetic_proofs): nothing the ALU, the       *)
(* divider, a load, a store or a lookup computes leaves a register.        *)
(***************************************************************************)

(* Between the cycle a division is asked for and that in which the divider *)
(* takes it, its instruction stays in EX; the divider never divides by     *)
(* zero.                                                                   *)
DivideInv ==
  /\ div_state = "READY_TO_DIVIDE_S" =>
       /\ EX.alu_en /\ ~EX.imm64 /\ ~EX.call /\ EX.IR.code \in {"DIV", "MOD"}
       /\ saved_operand.A \in 0 .. values(EX.alu64) - 1
       /\ saved_operand.B \in 1 .. values(EX.alu64) - 1
  /\ divider.left > 0 => divider.B # 0

TypeInv == TypeOK /\ DivideInv

(* A lookup gives an address of a register's width, or zero.               *)
LEMMA LookupType ==
  ASSUME NEW info \in MapInfo, NEW key \in Int
  PROVE  LOOKUP_bus(info, key) \in Data
<1>1. LOOKUP_key_masked(info, key) \in Int
  <2>1. info.keysz \in 0 .. 3
    BY DEF MapInfo
  <2>2. KeyMod(info.keysz) \in Nat \ {0}
    BY <2>1, LookupOK
  <2> QED
    BY <2>2, Quotient DEF LOOKUP_key_masked
<1>2. PtrMod \in Nat \ {0} /\ Align \in Nat /\ SharedBase \in Nat /\ SharedBase + PtrMod <= WordMod
  BY LookupOK, MapsOK
<1>3. 2^info.valsz \in Nat
  <2>1. info.valsz \in 0 .. 3
    BY DEF MapInfo
  <2>2. 2^0 \in Nat /\ 2^1 \in Nat /\ 2^2 \in Nat /\ 2^3 \in Nat
    OBVIOUS
  <2>3. info.valsz \in {0, 1, 2, 3}
    BY <2>1
  <2> QED
    BY <2>2, <2>3
<1>4. info.base_ptr * Align \in Int
  BY <1>2 DEF MapInfo
<1>5. LOOKUP_elem_ptr(info, key) \in 0 .. PtrMod - 1
  <2>1. LOOKUP_key_masked(info, key) % PtrMod \in Int
    BY <1>1, <1>2, Quotient
  <2>2. PICK x \in Int, y \in Int, z \in Nat :
          x = info.base_ptr * Align /\ y = LOOKUP_key_masked(info, key) % PtrMod /\ z = 2^info.valsz
    BY <1>3, <1>4, <2>1
  <2>3. x + y * z \in Int
    OBVIOUS
  <2>4. (x + y * z) % PtrMod \in 0 .. PtrMod - 1
    BY <1>2, <2>3, Quotient
  <2> QED
    BY <2>2, <2>4 DEF LOOKUP_elem_ptr
<1>6. SharedBase + LOOKUP_elem_ptr(info, key) \in Data
  BY <1>2, <1>5, WordsArePowers DEF Data
<1>7. (SharedBase + LOOKUP_elem_ptr(info, key)) % (2 * PtrMod) \in Data
  <2>1. \A x \in Data, n \in Nat \ {0} : x % n \in Data
    BY WordsArePowers DEF Data
  <2>2. 2 * PtrMod \in Nat \ {0}
    BY <1>2
  <2> QED
    BY <1>6, <2>1, <2>2
<1> QED
  BY <1>7, Halves DEF LOOKUP_bus

(* What stages ID, EX and MEM read and compute.                            *)
LEMMA OperandTypes ==
  ASSUME TypeOK
  PROVE  /\ ID_IR \in Instruction /\ ID_A \in Data /\ ID_B \in Data /\ ID_R0 \in Data
         /\ ID_PC_taken \in PC /\ EX_PC_taken \in PC
         /\ EX_fw_operand_A \in Data /\ EX_fw_operand_B \in Data /\ EX_fw_cmpxchg_token \in Data
         /\ MEM_ex_value \in Data /\ WB_reg_value \in Data /\ EX_imm64 \in Data
<1>0. Data \subseteq Int /\ 0 \in Data /\ PCMod \in Nat \ {0}
  BY Halves, WordsArePowers, PCOK DEF Data
<1>1. ID_IR \in Instruction
  BY DEF TypeOK, ID_IR
<1>2. \A r : read_register(r) \in Data
  BY <1>0 DEF TypeOK, read_register
<1>3. ID_A \in Data /\ ID_B \in Data /\ ID_R0 \in Data
  BY <1>2 DEF ID_A, ID_B, ID_R0
<1>4. \A x \in Int : x % PCMod \in PC
  BY <1>0, Quotient DEF PC
<1>5. ID_PC_taken \in PC
  <2>1. ID.PC \in Int /\ ID_IR.imm \in Int /\ ID_IR.offset \in Int
    BY <1>0, <1>1, HalfOK DEF TypeOK, PC, Instruction, Half32
  <2>2. NextPC(ID.PC) \in Int
    BY <1>0, <1>4, <2>1 DEF NextPC, PC
  <2> QED
    BY <1>4, <2>1, <2>2 DEF ID_PC_taken, JumpTo
<1>6. EX_PC_taken \in PC
  BY <1>0, <1>4 DEF TypeOK, EX_PC_taken
<1>7. MEM_ex_value \in Data
  <2>1. MEM.data \in Int /\ MEM.C \in Data /\ map_info \in MapInfo
    BY <1>0 DEF TypeOK
  <2> QED
    BY <2>1, LookupType DEF MEM_ex_value, MEM_call_value
<1>8. WB_reg_value \in Data
  <2>1. DMEM_output \in Int /\ WB.size \in Size /\ WB.ex_value \in Data
    BY <1>0 DEF TypeOK
  <2> QED
    BY <2>1, ByteMaskType DEF WB_reg_value, WB_mem_value
<1>9. \A reg, own : own \in Data => EX_operand(reg, own) \in Data
  BY <1>7, <1>8 DEF EX_operand, forwarded
<1>10. EX_fw_operand_A \in Data /\ EX_fw_operand_B \in Data /\ EX_fw_cmpxchg_token \in Data
  <2>1. EX.A \in Data /\ EX.B \in Data /\ EX.token \in Data
    BY DEF TypeOK
  <2> QED
    BY <1>9, <2>1 DEF EX_fw_operand_A, EX_fw_operand_B, EX_fw_cmpxchg_token
<1>11. EX_imm64 \in Data
  <2>1. EX.IR.imm \in Half32 /\ imem[ID.PC].imm \in Half32
    BY <1>1 DEF TypeOK, ID_IR, Instruction
  <2> QED
    BY <2>1, Halves, SignExtendType DEF EX_imm64
<1> QED
  BY <1>1, <1>3, <1>5, <1>6, <1>7, <1>8, <1>10, <1>11

(* The control signals.                                                    *)
LEMMA ControlTypes ==
  /\ \A s \in {"jump", "branch", "jump32", "imm64", "alu64", "addr_calc", "write_en",
               "read_en", "force_imm", "sign_ext", "mem_to_reg", "reg_write",
               "discard_IF", "finish", "atomic", "write_r0", "alu_en", "call"} : NoControl[s] = FALSE
  /\ NoControl.size \in Size
  /\ \A i \in Instruction :
       /\ Control(i) \in [jump : BOOLEAN, branch : BOOLEAN, jump32 : BOOLEAN, imm64 : BOOLEAN,
            alu64 : BOOLEAN, addr_calc : BOOLEAN, write_en : BOOLEAN, read_en : BOOLEAN,
            force_imm : BOOLEAN, sign_ext : BOOLEAN, size : Size, mem_to_reg : BOOLEAN,
            reg_write : BOOLEAN, discard_IF : BOOLEAN, finish : BOOLEAN, atomic : BOOLEAN,
            write_r0 : BOOLEAN, alu_en : BOOLEAN, call : BOOLEAN]
<1>1. ASSUME NEW i \in Instruction
      PROVE  Control(i) \in [jump : BOOLEAN, branch : BOOLEAN, jump32 : BOOLEAN, imm64 : BOOLEAN,
            alu64 : BOOLEAN, addr_calc : BOOLEAN, write_en : BOOLEAN, read_en : BOOLEAN,
            force_imm : BOOLEAN, sign_ext : BOOLEAN, size : Size, mem_to_reg : BOOLEAN,
            reg_write : BOOLEAN, discard_IF : BOOLEAN, finish : BOOLEAN, atomic : BOOLEAN,
            write_r0 : BOOLEAN, alu_en : BOOLEAN, call : BOOLEAN]
  <2>1. movsx_size(i) \in Size
    BY DEF movsx_size, Size
  <2>2. i.fetch \in BOOLEAN /\ i.size \in Size
    BY DEF Instruction
  <2>3. sig_reg_write(i) \in BOOLEAN /\ sig_force_imm(i) \in BOOLEAN /\ sig_branch(i) \in BOOLEAN
        /\ sig_addr_calc(i) \in BOOLEAN /\ sig_alu_en(i) \in BOOLEAN /\ is_jump(i) \in BOOLEAN
        /\ is_atomic(i) \in BOOLEAN /\ is_cmpxchg(i) \in BOOLEAN /\ is_call(i) \in BOOLEAN
    BY DEF is_jump, sig_branch, sig_addr_calc, is_atomic, is_cmpxchg,
        is_call, sig_force_imm, sig_reg_write, sig_alu_en
  <2>4. (IF i.class \in MemClass THEN i.size
            ELSE IF i.class \in AluClass /\ i.code = "MOV" THEN movsx_size(i) ELSE "SIZE64") \in Size
    BY <2>1, <2>2 DEF Size
  <2>5. (is_jump(i) /\ i.code = "JA") \in BOOLEAN /\ (i.class = "JMP32" /\ i.code = "JA") \in BOOLEAN
        /\ (i.class = "LD") \in BOOLEAN
        /\ (~(i.class = "ALU" /\ i.code # "END") /\ i.class # "JMP32") \in BOOLEAN
        /\ (i.class \in {"ST", "STX"}) \in BOOLEAN
        /\ (i.class = "LDX" \/ (i.class = "STX" /\ i.fetch)) \in BOOLEAN
        /\ ((i.class = "LDX" /\ i.mode = "MEMSX") \/ (i.class \in AluClass /\ i.code = "MOV")) \in BOOLEAN
        /\ (i.class = "LD" \/ is_call(i)) \in BOOLEAN
        /\ (i.class = "JMP" /\ i.code = "JEXIT") \in BOOLEAN
        /\ (is_cmpxchg(i) \/ is_call(i)) \in BOOLEAN
    OBVIOUS
  <2> QED
    BY <2>3, <2>4, <2>5 DEF Control
<1> QED
  BY <1>1 DEF NoControl, Size


(* The operands of EX have the width of the instruction.                   *)
LEMMA ExecuteTypes ==
  ASSUME TypeOK
  PROVE  /\ EX_operand_A \in 0 .. values(EX.alu64) - 1 /\ EX_operand_B \in 0 .. values(EX.alu64) - 1
         /\ EX_operand_A \in Data /\ EX_operand_B \in Data
         /\ EX_stx_data \in Data /\ EX_C \in Data /\ EX_dst_reg \in 0 .. 15
<1>1. EX_fw_operand_A \in Data /\ EX_fw_operand_B \in Data /\ EX_imm64 \in Data
  BY OperandTypes
<1>2. \A v \in Data : EX_cut(v) \in 0 .. values(EX.alu64) - 1 /\ EX_cut(v) \in Data
  <2>1. \A v \in Data : Low(v) \in 0 .. HalfMod - 1 /\ Low(v) \in Data
    BY Halves DEF Half32
  <2>2. \A v \in Data : v \in 0 .. WordMod - 1
    BY DEF Data
  <2>3. CASE EX.alu64
    BY <2>2, <2>3 DEF EX_cut, values
  <2>4. CASE ~EX.alu64
    BY <2>1, <2>4 DEF EX_cut, values
  <2> QED
    BY <2>3, <2>4
<1>3. EX_operand_A \in 0 .. values(EX.alu64) - 1 /\ EX_operand_A \in Data
  BY <1>1, <1>2 DEF EX_operand_A
<1>4. EX_operand_B \in 0 .. values(EX.alu64) - 1 /\ EX_operand_B \in Data
  BY <1>1, <1>2 DEF EX_operand_B
<1>5. EX_stx_data \in Data
  BY <1>1 DEF EX_stx_data
<1>6. division_output(EX_division) \in Data
  <2>1. WordMod \in Nat \ {0} /\ 0 \in Data
    BY WordsArePowers, Halves
  <2>2. \A v \in Data : \A neg : negated_if(neg, v) \in Data
    <3>1. \A v \in Data : WordMod - v \in Int
      BY <2>1 DEF Data
    <3> QED
      BY <3>1, RemainderType DEF negated_if
  <2>3. divider.A \in Data /\ divider.B \in Data
    BY DEF TypeOK
  <2> QED
    BY <1>3, <2>1, <2>2, <2>3 DEF division_output, div_bus, mod_bus, EX_division
<1>7. EX_alu_output \in Data
  <2>1. EX.alu64 \in BOOLEAN /\ EX.size \in Size
    BY DEF TypeOK
  <2>2. alu_bus(EX_alu_op, EX.alu64, EX.size, EX_operand_A, EX_operand_B) \in Data
    BY <1>3, <1>4, <2>1, AluType
  <2> QED
    BY <1>2, <1>6, <2>2 DEF EX_alu_output
<1>8. EX_addr \in Data
  <2>1. EX.IR.offset \in Int
    BY DEF TypeOK, Instruction
  <2>2. \A v \in Data : v + EX.IR.offset \in Int
    BY <2>1, WordsArePowers DEF Data
  <2> QED
    BY <1>1, <2>2, RemainderType DEF EX_addr, Address
<1>9. EX_C \in Data
  BY <1>7, <1>8 DEF EX_C
<1>10. EX_dst_reg \in 0 .. 15
  <2>1. EX.IR.src \in 0 .. 15 /\ EX.IR.dst \in 0 .. 15
    BY DEF TypeOK, Instruction
  <2> QED
    BY <2>1 DEF EX_dst_reg
<1> QED
  BY <1>3, <1>4, <1>5, <1>9, <1>10

(* What the buffers load.                                                  *)
LEMMA BufferTypes ==
  ASSUME TypeOK
  PROVE  /\ IF_PC_next \in PC
         /\ buffer_IF \in [PC : PC, discard : BOOLEAN, call_2 : BOOLEAN]
         /\ buffer_ID \in
              [branch : BOOLEAN, write_en : BOOLEAN, read_en : BOOLEAN, reg_write : BOOLEAN,
               atomic : BOOLEAN, write_r0 : BOOLEAN, alu_en : BOOLEAN, call : BOOLEAN,
               imm64 : BOOLEAN, alu64 : BOOLEAN, addr_calc : BOOLEAN, force_imm : BOOLEAN,
               sign_ext : BOOLEAN, size : Size, mem_to_reg : BOOLEAN,
               token : Data, A : Data, B : Data, IR : Instruction, PC : PC]
         /\ buffer_EX \in
              [write_en : BOOLEAN, read_en : BOOLEAN, reg_write : BOOLEAN,
               write_r0 : BOOLEAN, sign_ext : BOOLEAN, size : Size, mem_to_reg : BOOLEAN,
               atomic : BOOLEAN, call : BOOLEAN, token : Data, data : Data,
               C : Data, aop : SimpleAtomics \union {"XCHG", "CMPXCHG"}, dst : 0 .. 15, PC : PC]
         /\ buffer_MEM \in
              [reg_write : BOOLEAN, write_r0 : BOOLEAN, mem_to_reg : BOOLEAN,
               sign_ext : BOOLEAN, size : Size, ex_value : Data, dst : 0 .. 15]
<1>0. ID.PC \in PC /\ IF_PC \in PC /\ ID_IR \in Instruction
  BY OperandTypes DEF TypeOK
<1>1. /\ \A s \in {"jump", "branch", "jump32", "imm64", "alu64", "addr_calc", "write_en",
                   "read_en", "force_imm", "sign_ext", "mem_to_reg", "reg_write",
                   "discard_IF", "finish", "atomic", "write_r0", "alu_en", "call"} :
           ID_control[s] \in BOOLEAN
      /\ ID_control.size \in Size
  <2>1. CASE ID_discard_ID
    BY <2>1, ControlTypes DEF ID_control
  <2>2. CASE ~ID_discard_ID
    BY <1>0, <2>2, ControlTypes DEF ID_control
  <2> QED
    BY <2>1, <2>2
<1>2. IF_PC_next \in PC
  <2>1. NextPC(IF_PC) \in PC
    <3>1. PCMod \in Nat \ {0}
      BY PCOK, WordsArePowers
    <3> QED
      BY <1>0, <3>1, Quotient DEF NextPC, PC
  <2> QED
    BY <2>1, OperandTypes DEF IF_PC_next
<1>3. buffer_IF \in [PC : PC, discard : BOOLEAN, call_2 : BOOLEAN]
  <2>1. (ID_control.discard_IF \/ ID_jump_or_taken_branch \/ ID_make_noop) \in BOOLEAN
    OBVIOUS
  <2>2. ID_call \in BOOLEAN
    BY <1>1 DEF ID_call
  <2> QED
    BY <1>0, <2>1, <2>2 DEF buffer_IF
<1>4. buffer_ID \in
              [branch : BOOLEAN, write_en : BOOLEAN, read_en : BOOLEAN, reg_write : BOOLEAN,
               atomic : BOOLEAN, write_r0 : BOOLEAN, alu_en : BOOLEAN, call : BOOLEAN,
               imm64 : BOOLEAN, alu64 : BOOLEAN, addr_calc : BOOLEAN, force_imm : BOOLEAN,
               sign_ext : BOOLEAN, size : Size, mem_to_reg : BOOLEAN,
               token : Data, A : Data, B : Data, IR : Instruction, PC : PC]
  <2>1. (IF ID_control.branch THEN ID_PC_taken ELSE ID_R0) \in Data
    <3>1. PC \subseteq Data
      BY PCOK, WordsArePowers DEF PC, Data
    <3> QED
      BY <3>1, OperandTypes
  <2>2. ID_A \in Data /\ ID_B \in Data
    BY OperandTypes
  <2> QED
    BY <1>0, <1>1, <2>1, <2>2 DEF buffer_ID
<1>5. buffer_EX \in
              [write_en : BOOLEAN, read_en : BOOLEAN, reg_write : BOOLEAN,
               write_r0 : BOOLEAN, sign_ext : BOOLEAN, size : Size, mem_to_reg : BOOLEAN,
               atomic : BOOLEAN, call : BOOLEAN, token : Data, data : Data,
               C : Data, aop : SimpleAtomics \union {"XCHG", "CMPXCHG"}, dst : 0 .. 15, PC : PC]
  <2>1. EX_fw_cmpxchg_token \in Data /\ EX_stx_data \in Data /\ EX_C \in Data /\ EX_dst_reg \in 0 .. 15
    BY OperandTypes, ExecuteTypes
  <2>2. EX.IR.aop \in SimpleAtomics \union {"XCHG", "CMPXCHG"}
    BY DEF TypeOK, Instruction
  <2>3. /\ EX.sign_ext \in BOOLEAN /\ EX.size \in Size /\ EX.mem_to_reg \in BOOLEAN
        /\ EX.atomic \in BOOLEAN /\ EX.call \in BOOLEAN /\ EX.PC \in PC
    BY DEF TypeOK
  <2> QED
    BY <2>1, <2>2, <2>3 DEF buffer_EX
<1>6. buffer_MEM \in
              [reg_write : BOOLEAN, write_r0 : BOOLEAN, mem_to_reg : BOOLEAN,
               sign_ext : BOOLEAN, size : Size, ex_value : Data, dst : 0 .. 15]
  <2>1. MEM_ex_value \in Data
    BY OperandTypes
  <2>2. /\ MEM.mem_to_reg \in BOOLEAN /\ MEM.sign_ext \in BOOLEAN /\ MEM.size \in Size
        /\ MEM.dst \in 0 .. 15
    BY DEF TypeOK
  <2> QED
    BY <2>1, <2>2 DEF buffer_MEM
<1> QED
  BY <1>2, <1>3, <1>4, <1>5, <1>6


(* An operand without its sign is a word, and zero only if it was.         *)
LEMMA MagnitudeType ==
  ASSUME TypeOK, NEW v \in 0 .. values(EX.alu64) - 1
  PROVE  magnitude(EX_division, v) \in Data /\ (v # 0 => magnitude(EX_division, v) # 0)
<1>1. EX_division.is64 = EX.alu64
  BY DEF EX_division
<1>2. WordMod \in Nat \ {0} /\ HalfMod \in Nat \ {0} /\ HalfMod <= WordMod /\ HalfMod >= 2
  BY WordsArePowers, Halves
<1>3. values(EX.alu64) \in Nat \ {0} /\ values(EX.alu64) <= WordMod /\ values(EX.alu64) >= 2
      /\ values(EX.alu64) = (IF EX.alu64 THEN WordMod ELSE HalfMod)
  BY <1>2 DEF values
<1>4. PICK m \in Nat : m = values(EX.alu64)
  BY <1>3
<1>5. m \div 2 >= 1
  BY <1>3, <1>4
<1>6. CASE negative(EX_division, v)
  <2>1. v >= m \div 2
    BY <1>1, <1>3, <1>4, <1>6 DEF negative
  <2>2. m - v \in 1 .. m - 1
    BY <1>4, <1>5, <2>1
  <2>3. magnitude(EX_division, v) = m - v
    BY <1>1, <1>3, <1>4, <1>6 DEF magnitude
  <2> QED
    BY <1>2, <1>3, <1>4, <2>2, <2>3 DEF Data
<1>7. CASE ~negative(EX_division, v)
  BY <1>2, <1>3, <1>7 DEF magnitude, Data
<1> QED
  BY <1>6, <1>7

(* The divider holds words, and never divides by zero.                     *)
LEMMA DividerTypes ==
  ASSUME TypeInv, CORE_reset \in BOOLEAN, DividerStep(EX_division, CORE_reset)
  PROVE  /\ div_state' \in DivState /\ saved_operand' \in [A : Data, B : Data] /\ neg_result' \in BOOLEAN
         /\ divider' \in [left : 0 .. DivLatency, A : Data, B : Data, ok : BOOLEAN, reset_cycles : 0 .. 1]
         /\ divider'.left > 0 => divider'.B # 0
<1> DEFINE d == EX_division
           o == sync_operand(d)
           Divisions == [left : 0 .. DivLatency, A : Data, B : Data, ok : BOOLEAN, reset_cycles : 0 .. 1]
<1>0. 0 \in Data /\ DivLatency \in Nat \ {0} /\ Data \subseteq Nat /\ WordMod \in Nat \ {0}
  BY Halves, DivLatencyOK, WordsArePowers DEF Data
<1>1. d.A = EX_operand_A /\ d.B = EX_operand_B /\ d.A \in Data /\ d.B \in Data
  BY ExecuteTypes DEF TypeInv, EX_division
<1>2. div_state' \in DivState
  BY DEF TypeInv, TypeOK, DividerStep, NextDivState, DivState
<1>3. saved_operand' \in [A : Data, B : Data]
  BY <1>0, <1>1 DEF TypeInv, TypeOK, DividerStep, NoOperands
<1>4. neg_result' \in BOOLEAN
  BY DEF TypeInv, TypeOK, DividerStep, NextNegResult
<1>5. divider \in Divisions /\ (divider.left > 0 => divider.B # 0)
  BY DEF TypeInv, TypeOK, DivideInv
<1>6. DividerIdle \in Divisions /\ DividerIdle.left = 0
  BY <1>0 DEF DividerIdle
<1>7. divider' = NextDivider(d, CORE_reset)
  BY DEF DividerStep
<1>8. CASE ~aresetn(CORE_reset)
  <2>1. divider' = IF divider.reset_cycles = 1 THEN DividerIdle ELSE [divider EXCEPT !.reset_cycles = 1]
    BY <1>7, <1>8 DEF NextDivider
  <2> QED
    BY <1>2, <1>3, <1>4, <1>5, <1>6, <2>1
<1>9. CASE aresetn(CORE_reset) /\ ok_operands(d, CORE_reset)
  <2>1. divider' = [DividerIdle EXCEPT !.left = DivLatency, !.A = magnitude(d, o.A), !.B = magnitude(d, o.B)]
    BY <1>7, <1>9 DEF NextDivider
  <2>2. o.A \in 0 .. values(EX.alu64) - 1 /\ o.B \in 0 .. values(EX.alu64) - 1 /\ o.B # 0
    <3>1. CASE div_state = "READY_TO_DIVIDE_S"
      BY <3>1 DEF TypeInv, DivideInv, sync_operand
    <3>2. CASE div_state # "READY_TO_DIVIDE_S"
      <4>1. div_state = "INIT_S" /\ d.B # 0
        BY <1>9, <3>2 DEF ok_operands, wants_divider, use_divider, div_by_0
      <4>2. o.A = d.A /\ o.B = d.B
        BY <3>2 DEF sync_operand
      <4> QED
        BY <1>1, <4>1, <4>2, ExecuteTypes DEF TypeInv
    <3> QED
      BY <3>1, <3>2
  <2>3. magnitude(d, o.A) \in Data /\ magnitude(d, o.B) \in Data /\ magnitude(d, o.B) # 0
    BY <2>2, MagnitudeType DEF TypeInv
  <2>4. DivLatency \in 0 .. DivLatency
    BY <1>0
  <2>5. \A x \in Data, y \in Data :
          LET n == [DividerIdle EXCEPT !.left = DivLatency, !.A = x, !.B = y]
          IN  n \in Divisions /\ n.B = y
    BY <1>6, <2>4 DEF DividerIdle
  <2>6. divider' \in Divisions /\ divider'.B # 0
    BY <2>1, <2>3, <2>5
  <2> QED
    BY <1>2, <1>3, <1>4, <2>6
<1>10. CASE aresetn(CORE_reset) /\ ~ok_operands(d, CORE_reset) /\ divider.left = 1
  <2>0. divider.A \in Data /\ divider.B \in Data /\ divider.B # 0
    <3>1. divider.left > 0
      BY <1>10
    <3> QED
      BY <1>5, <3>1
  <2>1. divider.B \in Nat \ {0} /\ divider.A \in Data /\ divider.A \in Int
    <3>1. \A x \in Data : x \in Nat
      BY <1>0
    <3> QED
      BY <2>0, <3>1
  <2>2. divider.A \div divider.B \in Data
    BY <2>1, QuotientType
  <2>3. divider.A % divider.B \in Data
    <3>1. (divider.A % divider.B) \in 0 .. divider.B - 1
      <4>1. PICK x, y : x = divider.A /\ y = divider.B
        OBVIOUS
      <4>2. x \in Int /\ y \in Nat \ {0}
        BY <2>1, <4>1
      <4>3. (x % y) \in 0 .. y - 1
        BY <4>2, Quotient
      <4> QED
        BY <4>1, <4>3
    <3>2. divider.B \in Data
      BY <1>5
    <3> QED
      BY <2>1, <3>1, <3>2, <1>0 DEF Data
  <2>4. divider' = [DividerIdle EXCEPT !.A = divider.A \div divider.B,
                                      !.B = divider.A % divider.B, !.ok = TRUE]
    BY <1>7, <1>10 DEF NextDivider
  <2>5. \A x \in Data, y \in Data :
          LET n == [DividerIdle EXCEPT !.A = x, !.B = y, !.ok = TRUE]
          IN  n \in Divisions /\ n.left = 0
    BY <1>6 DEF DividerIdle
  <2>6. divider' \in Divisions /\ ~(divider'.left > 0)
    <3>1. PICK x, y : x = divider.A \div divider.B /\ y = divider.A % divider.B
      OBVIOUS
    <3>2. divider' = [DividerIdle EXCEPT !.A = x, !.B = y, !.ok = TRUE]
      BY <2>4, <3>1
    <3>3. x \in Data /\ y \in Data
      BY <2>2, <2>3, <3>1
    <3>4. divider' \in Divisions /\ divider'.left = 0
      BY <2>5, <3>2, <3>3
    <3> QED
      BY <3>4
  <2> QED
    BY <1>2, <1>3, <1>4, <2>6
<1>11. CASE aresetn(CORE_reset) /\ ~ok_operands(d, CORE_reset) /\ divider.left # 1
  <2>1. divider' = IF divider.left > 1 THEN [divider EXCEPT !.left = @ - 1, !.reset_cycles = 0]
                   ELSE DividerIdle
    BY <1>7, <1>11 DEF NextDivider
  <2>2. divider.left > 1 => divider.left - 1 \in 0 .. DivLatency
    BY <1>0, <1>5
  <2>3. CASE divider.left > 1
    <3>1. \A x \in 0 .. DivLatency :
            LET n == [divider EXCEPT !.left = x, !.reset_cycles = 0]
            IN  n \in Divisions /\ n.B = divider.B
      <4>1. divider \in Divisions
        BY <1>5
      <4>2. 0 \in 0 .. 1
        OBVIOUS
      <4> HIDE DEF d, o
      <4> QED
        BY <4>1, <4>2
    <3>2. divider' = [divider EXCEPT !.left = divider.left - 1, !.reset_cycles = 0]
      BY <2>1, <2>3
    <3>3. divider' \in Divisions /\ divider'.B = divider.B
      BY <2>2, <2>3, <3>1, <3>2
    <3>4. divider.B # 0
      <4>1. divider.left > 0
        BY <1>0, <1>5, <2>3
      <4> QED
        BY <1>5, <4>1
    <3> QED
      BY <1>2, <1>3, <1>4, <3>3, <3>4
  <2>4. CASE ~(divider.left > 1)
    BY <1>2, <1>3, <1>4, <1>6, <2>1, <2>4
  <2> QED
    BY <2>3, <2>4
<1> QED
  BY <1>8, <1>9, <1>10, <1>11


(* A division that waits for the divider keeps its instruction in EX.      *)
LEMMA WaitingDivision ==
  ASSUME TypeInv, Next
  PROVE  div_state' = "READY_TO_DIVIDE_S" =>
           /\ EX'.alu_en /\ ~EX'.imm64 /\ ~EX'.call /\ EX'.IR.code \in {"DIV", "MOD"}
           /\ saved_operand'.A \in 0 .. values(EX'.alu64) - 1
           /\ saved_operand'.B \in 1 .. values(EX'.alu64) - 1
<1> DEFINE d == EX_division
<1> SUFFICES ASSUME div_state' = "READY_TO_DIVIDE_S"
             PROVE  /\ EX'.alu_en /\ ~EX'.imm64 /\ ~EX'.call /\ EX'.IR.code \in {"DIV", "MOD"}
                    /\ saved_operand'.A \in 0 .. values(EX'.alu64) - 1
                    /\ saved_operand'.B \in 1 .. values(EX'.alu64) - 1
  OBVIOUS
<1>1. DividerStep(d, CORE_reset)
  BY DEF Next
<1>2. ~CORE_reset /\ ~divider_ready
      /\ (div_state = "READY_TO_DIVIDE_S" \/ (div_state = "INIT_S" /\ use_divider(d)))
  BY <1>1 DEF DividerStep, NextDivState
<1>3. EX.alu_en /\ ~EX.imm64 /\ ~EX.call /\ EX.IR.code \in {"DIV", "MOD"} /\ use_divider(d)
  <2>1. CASE div_state = "READY_TO_DIVIDE_S"
    BY <2>1 DEF TypeInv, DivideInv, use_divider, div_by_0, EX_division, EX_alu_op
  <2>2. CASE div_state = "INIT_S" /\ use_divider(d)
    BY <2>2 DEF use_divider, EX_division, EX_alu_op
  <2> QED
    BY <1>2, <2>1, <2>2
<1>4. block_EX
  BY <1>2, <1>3 DEF block_EX, EX_alu_ready, alu_ready, await_div
<1>5. EX' = EX
  BY <1>2, <1>4 DEF Next, Running, InReset, LoadBuffers, load_ID
<1>6. /\ saved_operand'.A \in 0 .. values(EX.alu64) - 1
      /\ saved_operand'.B \in 1 .. values(EX.alu64) - 1
  <2>1. CASE div_state = "READY_TO_DIVIDE_S"
    <3>1. saved_operand' = saved_operand
      BY <1>1, <1>2, <2>1 DEF DividerStep
    <3> QED
      BY <2>1, <3>1 DEF TypeInv, DivideInv
  <2>2. CASE div_state = "INIT_S" /\ use_divider(d)
    <3>1. saved_operand' = [A |-> EX_operand_A, B |-> EX_operand_B]
      BY <1>1, <1>2, <2>2 DEF DividerStep, EX_division
    <3>2. EX_operand_B # 0
      BY <2>2 DEF use_divider, div_by_0, EX_division
    <3>3. EX_operand_A \in 0 .. values(EX.alu64) - 1 /\ EX_operand_B \in 0 .. values(EX.alu64) - 1
      BY ExecuteTypes DEF TypeInv
    <3>4. saved_operand'.A = EX_operand_A /\ saved_operand'.B = EX_operand_B
      BY <3>1
    <3>5. EX_operand_B \in 1 .. values(EX.alu64) - 1
      BY <3>2, <3>3
    <3> QED
      BY <3>3, <3>4, <3>5
  <2> QED
    BY <1>2, <2>1, <2>2
<1> QED
  BY <1>3, <1>5, <1>6

(* The data memory interface.                                              *)
LEMMA DataMemoryTypes ==
  ASSUME TypeOK, DataMemoryStep
  PROVE  /\ mem' \in Memory /\ DMEM_output' \in Data
         /\ dmem_state' \in {"INIT_S", "MODIFY_WRITE_S", "ERROR_S"}
<1>1. dmem_state' \in {"INIT_S", "MODIFY_WRITE_S", "ERROR_S"}
  BY DEF DataMemoryStep, TypeOK
<1>2. mem \in [WordAddr -> Data] /\ MEM.data \in Data /\ MEM.size \in Size /\ MEM.C \in Data
  BY DEF TypeOK, Memory
<1>3. DMEM_output' \in Data
  <2>1. CASE MEM_serve /\ (MEM.atomic \/ ~MEM.write_en)
    <3>1. MEM_word \in WordAddr
      BY <2>1 DEF MEM_serve, DMEM_error, MEM_word, WordAddr
    <3>2. mem[MEM_word] \in Data
      BY <1>2, <3>1
    <3> QED
      BY <1>2, <2>1, <3>2, OutputType DEF DataMemoryStep
  <2>2. CASE ~(MEM_serve /\ (MEM.atomic \/ ~MEM.write_en))
    BY <2>2 DEF DataMemoryStep, TypeOK
  <2> QED
    BY <2>1, <2>2
<1>4. mem' \in Memory
  <2>1. CASE MEM_serve /\ MEM.write_en /\ ~MEM.read_en /\ ~MEM.atomic
    <3>1. mem' = [mem EXCEPT ![MEM_word] = stored(mem[MEM_word], MEM.data, MEM.size, MEM.C)]
      BY <2>1 DEF DataMemoryStep
    <3>2. MEM_word \in WordAddr => stored(mem[MEM_word], MEM.data, MEM.size, MEM.C) \in Data
      BY <1>2, StoredType
    <3> QED
      BY <1>2, <3>1, <3>2 DEF Memory
  <2>2. CASE ~(MEM_serve /\ MEM.write_en /\ ~MEM.read_en /\ ~MEM.atomic) /\ MEM_modify
    <3>1. mem' = [mem EXCEPT ![MEM_word] =
                    modified(MEM.aop, mem[MEM_word], MEM.data, MEM.token, MEM.size, MEM.C)]
      BY <2>2 DEF DataMemoryStep
    <3>2. MEM_word \in WordAddr =>
            modified(MEM.aop, mem[MEM_word], MEM.data, MEM.token, MEM.size, MEM.C) \in Data
      BY <1>2, ModifiedType
    <3> QED
      BY <1>2, <3>1, <3>2 DEF Memory
  <2>3. CASE ~(MEM_serve /\ MEM.write_en /\ ~MEM.read_en /\ ~MEM.atomic) /\ ~MEM_modify
    BY <1>2, <2>3 DEF DataMemoryStep, Memory
  <2> QED
    BY <2>1, <2>2, <2>3
<1> QED
  BY <1>1, <1>3, <1>4

(* The inputs, and the helper functions unit.                              *)
LEMMA InputTypes ==
  ASSUME TypeOK, Next
  PROVE  /\ CORE_sleep' \in BOOLEAN /\ CORE_reset' \in BOOLEAN
         /\ CORE_reg' \in [write : BOOLEAN, dst : Regs, input : Data]
         /\ DATA_granted' \in BOOLEAN /\ MAP_granted' \in BOOLEAN /\ divider_ready' \in BOOLEAN
<1>1. CORE_sleep' \in BOOLEAN
  BY DEF Next, SleepInput
<1>2. CORE_reset' \in BOOLEAN
  BY DEF Next, ResetInput
<1>3. CORE_reg' \in [write : BOOLEAN, dst : Regs, input : Data]
  <2>1. NoWrite \in [write : BOOLEAN, dst : Regs, input : Data]
    BY Halves DEF NoWrite, Regs
  <2>2. \A w \in HostWrites : [write |-> TRUE, dst |-> w.dst, input |-> w.input]
                                 \in [write : BOOLEAN, dst : Regs, input : Data]
    BY HostWritesOK
  <2>3. \/ CORE_reg' = NoWrite
        \/ \E w \in HostWrites : CORE_reg' = [write |-> TRUE, dst |-> w.dst, input |-> w.input]
    BY DEF Next, RegInput
  <2> QED
    BY <2>1, <2>2, <2>3
<1>4. DATA_granted' \in BOOLEAN /\ MAP_granted' \in BOOLEAN
  BY DEF Next, GrantInputs
<1>5. divider_ready' \in BOOLEAN
  BY DEF Next, DividerInput, wants_divider, use_divider, div_by_0
<1> QED
  BY <1>1, <1>2, <1>3, <1>4, <1>5

(* The unit is in one of its states and has read the parameters of a map.  *)
LEMMA HfuTypes ==
  ASSUME TypeOK, Next
  PROVE  hfu_state' \in HfuState /\ map_info' \in MapInfo
<1>1. NoMap \in MapInfo
  BY DEF NoMap, MapInfo
<1>2. CASE InReset
  BY <1>1, <1>2 DEF InReset, HfuState
<1>3. CASE Running
  <2>1. Maps[LOOKUP_id(MEM.token)] \in MapInfo
    <3>1. MEM.token \in Int
      BY WordsArePowers DEF TypeOK, Data
    <3>2. LOOKUP_id(MEM.token) \in 0 .. 1
      BY <3>1 DEF LOOKUP_id
    <3> QED
      BY <3>2, MapsOK
  <2>2. HfuStep(go_ID, go_EX, ID_IR.imm, MAP_granted, Maps[LOOKUP_id(MEM.token)])
    BY <1>3 DEF Running
  <2> QED
    BY <2>1, <2>2 DEF TypeOK, HfuStep, Dispatch, LookupEX, LookupMEM, ErrorID, HfuState, hfuVars
<1> QED
  BY <1>2, <1>3 DEF Next

(* A cycle keeps the types: of the stages, of the bank, and of what stage  *)
(* WB puts into it in the next cycle.                                      *)
LEMMA TypeStep ==
  ASSUME TypeInv, Next
  PROVE  TypeInv'
<1>0. TypeOK
  BY DEF TypeInv
<1>1. /\ mem' \in Memory /\ DMEM_output' \in Data
      /\ dmem_state' \in {"INIT_S", "MODIFY_WRITE_S", "ERROR_S"}
  BY <1>0, DataMemoryTypes DEF Next
<1>2. /\ CORE_sleep' \in BOOLEAN /\ CORE_reset' \in BOOLEAN
      /\ CORE_reg' \in [write : BOOLEAN, dst : Regs, input : Data]
      /\ DATA_granted' \in BOOLEAN /\ MAP_granted' \in BOOLEAN /\ divider_ready' \in BOOLEAN
  BY <1>0, InputTypes
<1>3. hfu_state' \in HfuState /\ map_info' \in MapInfo
  BY <1>0, HfuTypes
<1>4. /\ div_state' \in DivState /\ saved_operand' \in [A : Data, B : Data] /\ neg_result' \in BOOLEAN
      /\ divider' \in [left : 0 .. DivLatency, A : Data, B : Data, ok : BOOLEAN, reset_cycles : 0 .. 1]
      /\ divider'.left > 0 => divider'.B # 0
  BY DividerTypes DEF Next, TypeInv, TypeOK
<1>5. 0 \in Data /\ 0 \in PC /\ PC \subseteq Data
  BY Halves, PCOK, WordsArePowers DEF PC, Data
<1>6. /\ IF_PC' \in PC /\ ID' \in [PC : PC, discard : BOOLEAN, call_2 : BOOLEAN]
      /\ instr' \in [EX : BOOLEAN, MEM : BOOLEAN]
  <2>1. CASE InReset
    BY <1>5, <2>1 DEF InReset, ResetBuffers, ID_reset
  <2>2. CASE Running
    <3>1. IF_PC_next \in PC /\ buffer_IF \in [PC : PC, discard : BOOLEAN, call_2 : BOOLEAN]
      BY <1>0, BufferTypes
    <3>2. IF_PC \in PC /\ ID \in [PC : PC, discard : BOOLEAN, call_2 : BOOLEAN]
      BY <1>0 DEF TypeOK
    <3>3. IF_PC' \in PC /\ ID' \in [PC : PC, discard : BOOLEAN, call_2 : BOOLEAN]
      BY <2>2, <3>1, <3>2 DEF Running, LoadBuffers
    <3>4. instr.EX \in BOOLEAN /\ instr.MEM \in BOOLEAN
      BY <1>0 DEF TypeOK
    <3>5. instr' \in [EX : BOOLEAN, MEM : BOOLEAN]
      BY <2>2, <3>4 DEF Running, LoadBuffers
    <3> QED
      BY <3>3, <3>5
  <2> QED
    BY <2>1, <2>2 DEF Next
<1>7. EX' \in [branch : BOOLEAN, write_en : BOOLEAN, read_en : BOOLEAN, reg_write : BOOLEAN,
             atomic : BOOLEAN, write_r0 : BOOLEAN, alu_en : BOOLEAN, call : BOOLEAN,
             imm64 : BOOLEAN, alu64 : BOOLEAN, addr_calc : BOOLEAN, force_imm : BOOLEAN,
             sign_ext : BOOLEAN, size : Size, mem_to_reg : BOOLEAN,
             token : Data, A : Data, B : Data, IR : Instruction, PC : PC]
  <2>1. CASE InReset
    <3>1. ZeroInsn \in Instruction
      BY HalfOK DEF ZeroInsn, Instruction, Size, Half32, SimpleAtomics
    <3> QED
      BY <1>5, <2>1, <3>1 DEF InReset, ResetBuffers, EX_reset, Size
  <2>2. CASE Running
    BY <1>0, <2>2, BufferTypes DEF Running, LoadBuffers, TypeOK
  <2> QED
    BY <2>1, <2>2 DEF Next
<1>8. MEM' \in [write_en : BOOLEAN, read_en : BOOLEAN, reg_write : BOOLEAN,
              write_r0 : BOOLEAN, sign_ext : BOOLEAN, size : Size, mem_to_reg : BOOLEAN,
              atomic : BOOLEAN, call : BOOLEAN, token : Data, data : Data,
              C : Data, aop : SimpleAtomics \union {"XCHG", "CMPXCHG"}, dst : 0 .. 15, PC : PC]
  <2>1. CASE InReset
    BY <1>5, <2>1 DEF InReset, ResetBuffers, MEM_reset, Size, SimpleAtomics
  <2>2. CASE Running
    BY <1>0, <2>2, BufferTypes DEF Running, LoadBuffers, TypeOK
  <2> QED
    BY <2>1, <2>2 DEF Next
<1>9. WB' \in [reg_write : BOOLEAN, write_r0 : BOOLEAN, mem_to_reg : BOOLEAN,
             sign_ext : BOOLEAN, size : Size, ex_value : Data, dst : 0 .. 15]
  <2>1. CASE InReset
    BY <1>5, <2>1 DEF InReset, ResetBuffers, WB_reset, Size
  <2>2. CASE Running
    BY <1>0, <2>2, BufferTypes DEF Running, LoadBuffers, TypeOK
  <2> QED
    BY <2>1, <2>2 DEF Next
<1>10. reg_file' \in [Regs -> Data]
  BY <1>0, <1>5 DEF Next, Running, InReset, LoadBuffers, ResetBuffers, RegBankReset, TypeOK
<1>11. reg_file_written' \in [Regs -> Data]
  <2>1. WB_mem_value' \in Data
    <3>1. DMEM_output' \in Int /\ WB'.size \in Size
      BY <1>1, <1>9, WordsArePowers DEF Data
    <3>2. byte_mask(DMEM_output', WB'.size, WB'.sign_ext) \in Data
      BY <3>1, ByteMaskType
    <3> QED
      BY <3>2 DEF WB_mem_value
  <2>2. bank_input' \in Data
    BY <1>2, <1>9, <2>1 DEF bank_input, WB_reg_value
  <2> QED
    BY <1>10, <2>2 DEF reg_file_written
<1>12. /\ CTRL_saved_exception' \in BOOLEAN /\ CTRL_saved_finish' \in BOOLEAN
       /\ EX_saved_taken_branch' \in BOOLEAN
  BY <1>0 DEF Next, Running, InReset, FlagStep, ResetFlags, TypeOK
<1>13. imem' \in [PC -> Instruction]
  BY <1>0 DEF Next, TypeOK
<1>14. TypeOK'
  BY <1>1, <1>2, <1>3, <1>4, <1>6, <1>7, <1>8, <1>9, <1>10, <1>11, <1>12, <1>13 DEF TypeOK
<1>15. DivideInv'
  BY <1>4, WaitingDivision DEF DivideInv
<1> QED
  BY <1>14, <1>15 DEF TypeInv

(* Everything has its type in a core that is switched on.                  *)
LEMMA TypeInit ==
  ASSUME Init
  PROVE  TypeInv
<1>1. 0 \in Data /\ 0 \in PC /\ Data \subseteq Int
  BY Halves, PCOK, WordsArePowers DEF PC, Data
<1>2. imem \in [PC -> Instruction] /\ mem \in Memory
  BY ProgramsOK, MemoriesOK DEF Init
<1>3. ZeroInsn \in Instruction
  BY HalfOK DEF ZeroInsn, Instruction, Size, Half32, SimpleAtomics
<1>4. EX \in [branch : BOOLEAN, write_en : BOOLEAN, read_en : BOOLEAN, reg_write : BOOLEAN,
             atomic : BOOLEAN, write_r0 : BOOLEAN, alu_en : BOOLEAN, call : BOOLEAN,
             imm64 : BOOLEAN, alu64 : BOOLEAN, addr_calc : BOOLEAN, force_imm : BOOLEAN,
             sign_ext : BOOLEAN, size : Size, mem_to_reg : BOOLEAN,
             token : Data, A : Data, B : Data, IR : Instruction, PC : PC]
  BY <1>1, <1>3 DEF Init, PowerUp, EX_reset, Size
<1>5. MEM \in [write_en : BOOLEAN, read_en : BOOLEAN, reg_write : BOOLEAN,
              write_r0 : BOOLEAN, sign_ext : BOOLEAN, size : Size, mem_to_reg : BOOLEAN,
              atomic : BOOLEAN, call : BOOLEAN, token : Data, data : Data,
              C : Data, aop : SimpleAtomics \union {"XCHG", "CMPXCHG"}, dst : 0 .. 15, PC : PC]
  BY <1>1 DEF Init, PowerUp, MEM_reset, Size, SimpleAtomics
<1>6. WB \in [reg_write : BOOLEAN, write_r0 : BOOLEAN, mem_to_reg : BOOLEAN,
             sign_ext : BOOLEAN, size : Size, ex_value : Data, dst : 0 .. 15]
  BY <1>1 DEF Init, PowerUp, WB_reset, Size
<1>7. IF_PC \in PC /\ ID \in [PC : PC, discard : BOOLEAN, call_2 : BOOLEAN]
      /\ CORE_reg \in [write : BOOLEAN, dst : Regs, input : Data] /\ instr \in [EX : BOOLEAN, MEM : BOOLEAN]
      /\ reg_file \in [Regs -> Data]
  BY <1>1 DEF Init, PowerUp, ID_reset, NoWrite, Regs, RegBankReset
<1>8. reg_file_written \in [Regs -> Data]
  <2>1. ~bank_write /\ ~WB.write_r0
    BY DEF Init, PowerUp, bank_write, NoWrite, WB_reset
  <2> QED
    BY <1>7, <2>1 DEF reg_file_written
<1>9. /\ div_state \in DivState /\ saved_operand \in [A : Data, B : Data] /\ neg_result \in BOOLEAN
      /\ divider \in [left : 0 .. DivLatency, A : Data, B : Data, ok : BOOLEAN, reset_cycles : 0 .. 1]
      /\ div_state = "INIT_S" /\ divider.left = 0
  <2>1. 0 \in 0 .. DivLatency /\ 0 \in 0 .. 1
    BY DivLatencyOK
  <2>2. DividerIdle \in [left : 0 .. DivLatency, A : Data, B : Data, ok : BOOLEAN, reset_cycles : 0 .. 1]
        /\ DividerIdle.left = 0
    BY <1>1, <2>1 DEF DividerIdle
  <2> QED
    BY <1>1, <2>2 DEF Init, PowerUp, DivInit, DivState, NoOperands
<1>10. hfu_state \in HfuState /\ map_info \in MapInfo
  BY DEF Init, PowerUp, HfuInit, HfuState, MapInfo, NoMap
<1>11. TypeOK
  BY <1>1, <1>2, <1>4, <1>5, <1>6, <1>7, <1>8, <1>9, <1>10 DEF TypeOK, Init, PowerUp
<1>12. DivideInv
  BY <1>9 DEF DivideInv
<1> QED
  BY <1>11, <1>12 DEF TypeInv

(* And keeps it when nothing happens.                                      *)
LEMMA TypeStutter == TypeInv /\ UNCHANGED vars => TypeInv'
<1> SUFFICES ASSUME TypeInv, UNCHANGED vars
             PROVE  TypeInv'
  OBVIOUS
<1>1. WB' = WB /\ CORE_reg' = CORE_reg /\ DMEM_output' = DMEM_output /\ reg_file' = reg_file
  BY DEF vars, stageVars, inputVars
<1>2. reg_file_written' = reg_file_written
  BY <1>1 DEF reg_file_written, bank_write, bank_dst, bank_input, WB_reg_value, WB_mem_value
<1> QED
  BY <1>2 DEF TypeInv, TypeOK, DivideInv, vars, stageVars, flagVars, inputVars, hfuVars, divVars

(* Every buffer, register and word of memory of the pipeline holds a value *)
(* of its width, whatever the program computes (BPF_Core.vhd): BpfCore's   *)
(* type invariant holds for every program and every width of a byte.       *)
THEOREM TypeCorrectCore == Spec => []TypeOK
<1>1. TypeInv /\ [Next]_vars => TypeInv'
  BY TypeStep, TypeStutter
<1>2. TypeInv => TypeOK
  BY DEF TypeInv
<1> QED
  BY <1>1, <1>2, TypeInit, PTL DEF Spec
-----------------------------------------------------------------------------
(***************************************************************************)
(* The core that the host sees.  It says of itself what it says by wires   *)
(* that look at every stage: an outcome that is not "none" has to be the   *)
(* same in the next cycle, unless the host asks for another.               *)
(***************************************************************************)

Quiet == EX_is_noop /\ MEM_is_noop /\ WB_is_noop

(* What the outcome is, case by case.                                      *)
OutcomeCases ==
  /\ CORE_outcome = "sleeping" <=> CORE_sleep /\ Quiet /\ ~FLAG_exception /\ ~FLAG_finish
  /\ CORE_outcome = "finish" <=> Quiet /\ ~FLAG_exception /\ FLAG_finish
  /\ CORE_outcome = "exception" <=> CTRL_exception /\ WB_is_noop /\ (DMEM_error \/ Quiet)
  /\ CORE_outcome \in {"none", "sleeping", "finish", "exception"}
  /\ FLAG_exception <=> CTRL_exception
  /\ CTRL_exception => ~ID_make_noop
  /\ ~DMEM_error /\ (FLAG_exception \/ FLAG_finish \/ CORE_sleep) => EX_make_noop

(* What the wires to the host say, as conditions on stages and flags.      *)
LEMMA Outcomes == StageInv => OutcomeCases
<1> SUFFICES ASSUME StageInv PROVE OutcomeCases
  OBVIOUS
<1>1. FLAG_exception <=> CTRL_exception
  BY DEF FLAG_exception, StageInv
<1>2. CTRL_exception => ~ID_make_noop
  BY <1>1, Stages DEF ID_make_noop, stop_at, CTRL_flush_stage
<1>3. ~FLAG_exception => CTRL_flush_stage = "ID"
  BY DEF CTRL_flush_stage
<1>4. CTRL_exception => CTRL_flush_pipeline /\ CTRL_flush_stage = CTRL_exception_stage
  BY <1>1 DEF CTRL_flush_pipeline, CTRL_flush_stage
<1>5. ~FLAG_exception =>
        /\ ~ID_make_noop /\ ~WB_make_noop
        /\ EX_make_noop <=> FLAG_finish \/ CORE_sleep
  BY <1>3 DEF ID_make_noop, WB_make_noop, EX_make_noop, stop_at, CTRL_flush_pipeline
<1>6. CTRL_exception => (WB_make_noop <=> DMEM_error) /\ (EX_make_noop <=> ~DMEM_error)
  BY <1>4, Stages DEF WB_make_noop, EX_make_noop, stop_at
<1>7. CASE CTRL_exception
  <2>1. CTRL_flushed <=> WB_is_noop /\ (DMEM_error \/ Quiet)
    BY <1>2, <1>6, <1>7, Blocks DEF CTRL_flushed, Quiet
  <2>2. ~CORE_finish /\ ~CORE_sleeping /\ (CORE_exception <=> CTRL_flushed)
    BY <1>1, <1>2, <1>7 DEF CORE_finish, CORE_sleeping, CORE_exception
  <2> QED
    BY <1>1, <1>2, <1>6, <1>7, <2>1, <2>2 DEF OutcomeCases, CORE_outcome
<1>8. CASE ~CTRL_exception
  <2>1. CTRL_flushed <=> Quiet /\ (FLAG_finish \/ CORE_sleep)
    BY <1>1, <1>5, <1>8, Blocks DEF CTRL_flushed, Quiet
  <2>2. /\ ~CORE_exception /\ (CORE_finish <=> CTRL_flushed /\ FLAG_finish)
        /\ CORE_sleeping <=> CTRL_flushed /\ CORE_sleep /\ ~FLAG_finish
    BY <1>1, <1>8 DEF CORE_finish, CORE_sleeping, CORE_exception
  <2> QED
    BY <1>1, <1>5, <1>8, <2>1, <2>2 DEF OutcomeCases, CORE_outcome
<1> QED
  BY <1>7, <1>8

(* And of the next state.                                                  *)
LEMMA OutcomesNext == StageInv' => OutcomeCases'
BY Outcomes, PTL

(* Bubbles are followed by bubbles.                                        *)
LEMMA StaysQuiet ==
  ASSUME Quiet, LoadBuffers, EX_make_noop
  PROVE  Quiet'
<1>1. EX_is_noop'
  BY DEF Quiet, EX_is_noop, LoadBuffers, buffer_ID
<1>2. MEM_is_noop'
  BY DEF Quiet, EX_is_noop, MEM_is_noop, MEM_access, LoadBuffers, buffer_EX
<1>3. WB_is_noop'
  BY DEF Quiet, MEM_is_noop, WB_is_noop, LoadBuffers, buffer_MEM
<1> QED
  BY <1>1, <1>2, <1>3 DEF Quiet

(* What the bank holds in the next cycle, when nothing is in WB.           *)
LEMMA BankQuiet ==
  ASSUME WB_is_noop'
  PROVE  reg_file_written' =
           [r \in Regs |-> IF CORE_reg'.write /\ CORE_reg'.dst = r THEN CORE_reg'.input
                                                                ELSE reg_file'[r]]
BY DEF reg_file_written, WB_is_noop, bank_write, bank_dst, bank_input

(* Nothing in MEM, or an access that is refused, changes no memory.        *)
LEMMA MemoryQuiet ==
  ASSUME ResetInv, DataMemoryStep, MEM_is_noop \/ DMEM_error
  PROVE  mem' = mem
BY DEF ResetInv, DataMemoryStep, MEM_is_noop, MEM_serve, MEM_modify

(* What is typed of the interface.                                         *)
InterfaceOK ==
  /\ reg_file_written \in [Regs -> Data] /\ mem \in Memory
  /\ CORE_output \in Data /\ CORE_sleep \in BOOLEAN

(* What the host reads has its type.                                       *)
LEMMA InterfaceTyped == TypeOK => InterfaceOK
<1> SUFFICES ASSUME TypeOK PROVE InterfaceOK
  OBVIOUS
<1>1. WordMod \in Nat /\ WordMod > 0 /\ PCMod \in 1 .. WordMod
  <2>1. HalfMod \in Nat \ {0}
    BY HalfOK
  <2>2. HalfMod * HalfMod \in Nat /\ HalfMod * HalfMod > 0
    BY <2>1
  <2> QED
    BY <2>2, PCOK DEF WordMod
<1>2. PC \subseteq Data /\ 0 \in Data
  BY <1>1 DEF PC, Data
<1>3. CTRL_PC \in Data
  BY <1>2 DEF TypeOK, CTRL_PC
<1>4. ID_R0 \in Data
  BY <1>2 DEF TypeOK, ID_R0, read_register, Regs
<1>5. CORE_output \in Data
  BY <1>3, <1>4 DEF CORE_output
<1> QED
  BY <1>5 DEF TypeOK, InterfaceOK

(* And in the next state.                                                  *)
LEMMA InterfaceTypedNext == TypeOK' => InterfaceOK'
BY InterfaceTyped, PTL

(* An instruction that is stopped in ID, with nothing in front of it, is   *)
(* there in the next cycle, and all that the host is told of it.           *)
LEMMA StoppedInID ==
  ASSUME Quiet, EX_make_noop, LoadBuffers, FlagStep, imem' = imem
  PROVE  /\ Quiet' /\ ID' = ID
         /\ ID_control' = ID_control
         /\ ID_illegal' <=> ID_illegal
<1>1. Quiet' /\ ID' = ID
  BY StaysQuiet, LoadsInOrder DEF LoadBuffers
<1>2. ~EX_volatile_taken_branch /\ ~EX_volatile_taken_branch'
  BY <1>1 DEF Quiet, EX_is_noop, EX_volatile_taken_branch
<1>3. EX_saved_taken_branch' <=> EX_saved_taken_branch
  BY <1>2, Blocks DEF FlagStep
<1>4. ID_discard_ID' <=> ID_discard_ID
  BY <1>1, <1>2, <1>3 DEF ID_discard_ID, EX_taken_branch
<1>5. ID_IR' = ID_IR
  BY <1>1 DEF ID_IR
<1> QED
  BY <1>1, <1>4, <1>5 DEF ID_control, ID_illegal

(* It sleeps on while it is told to, and writes what it is given.          *)
LEMMA AsleepStep ==
  ASSUME PipelineInv, StageInv', TypeOK', ~error_function_id', Next, ~CORE_reset,
         CORE_outcome = "sleeping"
  PROVE  Ctl!Sleep
<1>1. Running /\ LoadBuffers /\ FlagStep /\ imem' = imem
  BY DEF Next, Running, InReset
<1>2. Quiet /\ EX_make_noop /\ ~FLAG_exception /\ ~FLAG_finish /\ ~CTRL_exception /\ ~DMEM_error
  BY Outcomes DEF OutcomeCases, PipelineInv, Quiet, MEM_is_noop, DMEM_error
<1>3. /\ Quiet' /\ ID_control' = ID_control /\ ~ID_illegal'
  BY <1>1, <1>2, StoppedInID, Stages
<1>4. ~DMEM_error'
  BY <1>3 DEF Quiet, MEM_is_noop, DMEM_error
<1>5. ~CTRL_exception'
  BY <1>3, <1>4 DEF CTRL_exception, exception, gen_exception
<1>6. ~FLAG_exception' /\ ~FLAG_finish'
  BY <1>1, <1>2, <1>3, <1>5 DEF FlagStep, FLAG_exception, FLAG_finish
<1>7. CORE_outcome' \in IF CORE_sleep' THEN {"sleeping"}
                        ELSE {"none"} \union {"finish", "exception"}
  BY <1>3, <1>6, OutcomesNext DEF OutcomeCases
<1>8. mem' = mem
  BY <1>2, MemoryQuiet DEF Next, PipelineInv, Quiet
<1>9. reg_file' = reg_file_written /\ reg_file_written = [r \in Regs |-> reg_file_written[r]]
  BY <1>1 DEF LoadBuffers, reg_file_written
<1>10. reg_file_written' = Ctl!with_input(reg_file_written)
  BY <1>3, <1>9, BankQuiet DEF Quiet, Ctl!with_input
<1> QED
  BY <1>7, <1>8, <1>10, InterfaceTypedNext DEF InterfaceOK, Ctl!Sleep, Ctl!Ended

(* What has ended stays ended, with its value.                             *)
LEMMA EndedStep ==
  ASSUME PipelineInv, StageInv', TypeOK', ~error_function_id, ~error_function_id', Next,
         ~CORE_reset, CORE_outcome \in {"finish", "exception"}
  PROVE  Ctl!Stay
<1>1. Running /\ LoadBuffers /\ FlagStep /\ DataMemoryStep /\ imem' = imem
  BY DEF Next, Running, InReset
<1>2. StageInv /\ ResetInv /\ OutcomeCases
  BY Outcomes DEF PipelineInv
<1>3. WB_is_noop /\ (DMEM_error \/ (~DMEM_error /\ Quiet /\ EX_make_noop))
  BY <1>2, Stages DEF OutcomeCases, Quiet
<1>4. mem' = mem
  BY <1>1, <1>2, <1>3, MemoryQuiet DEF Quiet
<1>5. ~CORE_reg'.write
  <2>1. ~CORE_sleeping
    BY <1>2 DEF CORE_sleeping, OutcomeCases
  <2> QED
    BY <2>1 DEF Next, RegInput, NoWrite
<1>6. OutcomeCases'
  BY OutcomesNext
<1>7. WB_is_noop'
  BY <1>1, <1>3, StaysQuiet, Blocks DEF Quiet, LoadBuffers, buffer_MEM, WB_is_noop
<1>8. reg_file_written' = reg_file_written
  <2>1. reg_file_written = [r \in Regs |-> reg_file_written[r]]
    BY DEF reg_file_written
  <2> QED
    BY <1>1, <1>5, <1>7, <2>1, BankQuiet DEF LoadBuffers
<1> DEFINE Held == CORE_outcome' = CORE_outcome /\ CORE_output' = CORE_output
<1>9. ASSUME DMEM_error PROVE Held
  <2>1. MEM' = MEM
    BY <1>1, <1>9, Blocks DEF load_EX, LoadBuffers
  <2>2. DMEM_error'
    BY <1>9, <2>1 DEF DMEM_error, MEM_access
  <2>3. CTRL_exception /\ CTRL_exception' /\ FLAG_exception /\ FLAG_exception'
    BY <1>2, <1>6, <1>9, <2>2, Stages DEF CTRL_exception, exception, gen_exception, OutcomeCases
  <2>4. CORE_outcome = "exception" /\ CORE_outcome' = "exception"
    BY <1>2, <1>3, <1>6, <1>7, <1>9, <2>2, <2>3 DEF OutcomeCases
  <2>5. CORE_output = MEM.PC /\ CORE_output' = MEM'.PC
    BY <1>2, <1>6, <1>9, <2>2, <2>3
       DEF OutcomeCases, CORE_output, CTRL_PC, CTRL_exception_stage, exception_stage, gen_exception
  <2> QED
    BY <2>1, <2>4, <2>5
<1>10. ASSUME ~DMEM_error PROVE Held
  <2>1. /\ Quiet' /\ ID' = ID /\ ID_control' = ID_control
        /\ ID_illegal' <=> ID_illegal
    BY <1>1, <1>3, <1>10, StoppedInID
  <2>2. ~DMEM_error'
    BY <2>1 DEF Quiet, MEM_is_noop, DMEM_error
  <2>3. (CTRL_exception <=> ID_illegal) /\ (CTRL_exception' <=> ID_illegal')
    BY <1>10, <2>2 DEF CTRL_exception, exception, gen_exception
  <2>4. CASE CTRL_exception
    <3>1. FLAG_exception /\ FLAG_exception' /\ CTRL_exception'
      BY <1>2, <1>6, <2>1, <2>3, <2>4 DEF OutcomeCases
    <3>2. CORE_outcome = "exception" /\ CORE_outcome' = "exception"
      BY <1>2, <1>3, <1>6, <1>10, <2>1, <2>4, <3>1 DEF OutcomeCases, Quiet
    <3>3. CORE_output = ID.PC /\ CORE_output' = ID'.PC
      BY <1>2, <1>6, <1>10, <2>1, <2>2, <2>3, <2>4, <3>1
         DEF OutcomeCases, CORE_output, CTRL_PC, CTRL_exception_stage, exception_stage,
             gen_exception
    <3> QED
      BY <2>1, <3>2, <3>3
  <2>5. CASE ~CTRL_exception
    <3>1. ~FLAG_exception /\ ~FLAG_exception' /\ ~CTRL_exception'
      BY <1>2, <1>6, <2>1, <2>3, <2>5 DEF OutcomeCases
    <3>2. CORE_outcome = "finish" /\ FLAG_finish /\ ID_control.finish
      BY <1>2, <2>5, <3>1 DEF OutcomeCases, FLAG_finish, PipelineInv, FinishInv
    <3>3. CORE_outcome' = "finish"
      BY <1>6, <2>1, <3>1, <3>2 DEF OutcomeCases, FLAG_finish
    <3>4. ~ID_call /\ ~ID_call'
      BY <2>1, <3>2, DecodedFacts, IDIsDecoded DEF ID_call, is_call, Sequential!Exits
    <3>5. /\ CORE_output = reg_file_written[0]
          /\ CORE_output' = reg_file_written'[0]
      BY <3>1, <3>4 DEF CORE_output, ID_R0, read_register, Regs
    <3> QED
      BY <1>8, <3>2, <3>3, <3>5
  <2> QED
    BY <2>4, <2>5
<1> QED
  BY <1>4, <1>5, <1>8, <1>9, <1>10, InterfaceTypedNext DEF InterfaceOK, Ctl!Stay, Ctl!Ended

(* Held in reset, the core has empty buffers.                              *)
LEMMA ResetEmpty ==
  ASSUME InReset, StageInv', ~error_function_id'
  PROVE  /\ WB_is_noop' /\ reg_file' = Ctl!zeros
         /\ CORE_outcome' = Ctl!waiting
<1>1. /\ ID' = ID_reset /\ EX' = EX_reset /\ MEM' = MEM_reset /\ WB' = WB_reset
      /\ ~CTRL_saved_exception' /\ ~CTRL_saved_finish' /\ reg_file' = RegBankReset
  BY DEF InReset, ResetBuffers, ResetFlags
<1>2. Quiet' /\ ~DMEM_error'
  BY <1>1 DEF EX_reset, MEM_reset, WB_reset, Quiet, EX_is_noop, MEM_is_noop, WB_is_noop,
              MEM_access, DMEM_error
<1>3. ID_discard_ID'
  BY <1>1 DEF ID_reset, ID_discard_ID
<1>4. ~ID_illegal' /\ ~ID_control'.finish
  BY <1>3, NoSignal DEF ID_illegal, ID_control
<1>5. ~FLAG_exception' /\ ~FLAG_finish' /\ ~CTRL_exception'
  BY <1>1, <1>2, <1>4 DEF FLAG_exception, FLAG_finish, CTRL_exception, exception, gen_exception
<1>6. CORE_outcome' = IF CORE_sleep' THEN "sleeping" ELSE "none"
  BY <1>2, <1>5, OutcomesNext DEF OutcomeCases
<1> QED
  BY <1>1, <1>2, <1>6 DEF Quiet, RegBankReset, Ctl!zeros, Ctl!waiting

(* A core in reset does what CoreControl says of a reset.                  *)
LEMMA ControlReset ==
  ASSUME StageInv', TypeOK', ~error_function_id', InReset
  PROVE  Ctl!Reset
<1>1. reg_file_written' = Ctl!with_input(Ctl!zeros)
  BY ResetEmpty, BankQuiet DEF Ctl!with_input, Ctl!zeros
<1> QED
  BY <1>1, ResetEmpty, InterfaceTypedNext DEF InterfaceOK, InReset, Ctl!Reset

(* A core with something under way does what CoreControl says of one that  *)
(* runs.                                                                   *)
LEMMA RunStep ==
  ASSUME StageInv', TypeOK', ~CORE_reset, CORE_outcome = "none"
  PROVE  Ctl!Run
<1>1. CORE_outcome' \in {"none", "sleeping", "finish", "exception"}
  BY OutcomesNext DEF OutcomeCases
<1>2. CORE_outcome' = "sleeping" => CORE_sleep'
  BY OutcomesNext DEF OutcomeCases
<1> QED
  BY <1>1, <1>2, InterfaceTypedNext DEF InterfaceOK, Ctl!Run, Ctl!waiting, Ctl!Ended

(* Nothing the host sees changes unless something does.                    *)
LEMMA ControlStutter ==
  ASSUME UNCHANGED vars
  PROVE  UNCHANGED <<Ctl!inputs, Ctl!coreVars>>
<1>1. /\ UNCHANGED <<imem, IF_PC, ID, EX, MEM, WB, reg_file, mem, DMEM_output, CORE_reg>>
      /\ UNCHANGED <<CORE_reset, CORE_sleep, hfu_state, map_info>> /\ UNCHANGED flagVars
  BY DEF vars, stageVars, inputVars, hfuVars
<1>2. UNCHANGED <<WB_is_noop, MEM_is_noop, EX_is_noop, MEM_access, DMEM_error, reg_file_written>>
  BY <1>1 DEF WB_is_noop, MEM_is_noop, EX_is_noop, MEM_access, DMEM_error, reg_file_written,
              bank_write, bank_dst, bank_input, WB_reg_value, WB_mem_value
<1>3. EX_taken_branch' = EX_taken_branch
  BY <1>1
     DEF flagVars, EX_taken_branch, EX_volatile_taken_branch, EX_operand_A, EX_operand_B, EX_cut,
         EX_fw_operand_A, EX_fw_operand_B, EX_operand, forwarded, EX_imm64, EX_uses_imm,
         MEM_ex_value, MEM_call_value, WB_reg_value, WB_mem_value
<1>4. UNCHANGED <<ID_control, ID_illegal, ID_R0>>
  BY <1>1, <1>2, <1>3
     DEF ID_control, ID_illegal, ID_discard_ID, ID_IR, ID_R0, ID_call, read_register
<1>5. UNCHANGED <<CTRL_exception, CTRL_exception_stage, CTRL_PC>>
  BY <1>1, <1>2, <1>4
     DEF CTRL_exception, CTRL_exception_stage, CTRL_PC, gen_exception, error_function_id
<1>6. UNCHANGED <<FLAG_exception, FLAG_finish>>
  BY <1>1, <1>4, <1>5 DEF flagVars, FLAG_exception, FLAG_finish
<1>7. UNCHANGED <<CTRL_flush_pipeline, CTRL_flush_stage>>
  BY <1>1, <1>5, <1>6 DEF CTRL_flush_pipeline, CTRL_flush_stage
<1>8. UNCHANGED <<ID_make_noop, EX_make_noop, MEM_make_noop, WB_make_noop, ID_is_noop>>
  BY <1>4, <1>7 DEF ID_make_noop, EX_make_noop, MEM_make_noop, WB_make_noop, ID_is_noop, stop_at
<1>9. UNCHANGED <<CTRL_flushed, CORE_output>>
  BY <1>2, <1>4, <1>5, <1>6, <1>8 DEF CTRL_flushed, CORE_output
<1>10. CORE_outcome' = CORE_outcome
  BY <1>1, <1>6, <1>8, <1>9 DEF CORE_outcome, CORE_finish, CORE_exception, CORE_sleeping
<1> QED
  BY <1>1, <1>2, <1>9, <1>10 DEF Ctl!inputs, Ctl!coreVars

(* For the host the core is what CoreControl says: one that sleeps has     *)
(* nothing under way and goes on as it was, one that has ended stays ended *)
(* with its outcome, its value and the memory, and one that is reset has   *)
(* nothing of the last program (BPF_Core.vhd).                             *)
THEOREM HostSeesControl ==
  Spec /\ []LoadKept /\ []~error_function_id => HostView
<1> DEFINE Good == PipelineInv /\ ~error_function_id /\ TypeOK
<1>1. Init /\ TypeOK => Ctl!Init
  <2> SUFFICES ASSUME Init, TypeOK PROVE Ctl!Init
    OBVIOUS
  <2>1. StageInv /\ OutcomeCases /\ ~CORE_sleep /\ ~CORE_reg.write
    BY Outcomes DEF Init, PowerUp, StageInv, NoWrite
  <2>2. ~DMEM_error /\ ID_discard_ID /\ ~error_function_id /\ ~WB.reg_write /\ ~WB.write_r0
    BY DEF Init, PowerUp, MEM_reset, ID_reset, WB_reset, HfuInit, DMEM_error, MEM_access,
           ID_discard_ID, error_function_id
  <2>3. ~CTRL_exception /\ ~ID_control.finish
    BY <2>2, NoSignal DEF CTRL_exception, exception, gen_exception, ID_illegal, ID_control
  <2>4. ~FLAG_finish
    BY <2>3 DEF FLAG_finish, Init, PowerUp
  <2>5. CORE_outcome = "none"
    BY <2>1, <2>3, <2>4 DEF OutcomeCases
  <2>6. reg_file_written = Ctl!zeros
    BY <2>1, <2>2 DEF reg_file_written, bank_write, Init, PowerUp, RegBankReset, Ctl!zeros
  <2> QED
    BY <2>1, <2>5, <2>6, InterfaceTyped DEF InterfaceOK, Ctl!Init
<1>2. Good /\ Good' /\ [Next]_vars => [Ctl!Next]_<<Ctl!inputs, Ctl!coreVars>>
  <2> SUFFICES ASSUME Good, Good', [Next]_vars
               PROVE  [Ctl!Next]_<<Ctl!inputs, Ctl!coreVars>>
    OBVIOUS
  <2>1. CASE UNCHANGED vars
    BY <2>1, ControlStutter
  <2>2. CASE Next /\ CORE_reset
    BY <2>2, ControlReset DEF Next, Running, PipelineInv, Ctl!Next
  <2>3. CASE Next /\ ~CORE_reset
    <3>1. CORE_outcome \in {"none", "sleeping", "finish", "exception"}
      BY Outcomes DEF OutcomeCases, PipelineInv
    <3>2. Ctl!Run \/ Ctl!Sleep \/ Ctl!Stay
      BY <2>3, <3>1, RunStep, AsleepStep, EndedStep DEF PipelineInv
    <3> QED
      BY <3>2 DEF Ctl!Next
  <2> QED
    BY <2>1, <2>2, <2>3
<1>3. Spec /\ []LoadKept => []PipelineInv
  BY PipelineInit, PipelineNext, PTL DEF Spec
<1> QED
  BY <1>1, <1>2, <1>3, TypeCorrectCore, PTL DEF Spec, HostView, Ctl!Spec
=============================================================================
