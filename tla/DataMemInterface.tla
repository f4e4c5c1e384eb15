--------------------------- MODULE DataMemInterface ---------------------------
(***************************************************************************)
(* The core's side of the data memories (BPF_Data_Mem_Interface.vhd).      *)
(* Loads and stores take one cycle, plus the wait for the arbiter when the *)
(* word is shared; an atomic operation reads in one cycle and writes in    *)
(* the next, framing the bus in between.                                   *)
(***************************************************************************)
EXTENDS MemoryMap, DelayedRegister

CONSTANTS
  FetchOps,            \* the arithmetic atomic operations: ADD, OR, AND, XOR, XCHG
  ALU(_, _, _),        \* ALU(op, memory word, operand): their 64-bit result
  CoreWords            \* what DMEM_addr may fall in: memory words and "outside"

AtomicOps == FetchOps \union {"CMPXCHG"}

ASSUME FetchOpsOK == FetchOps \cap {"none", "read", "write", "CMPXCHG"} = {}

ASSUME ALUType == \A op \in FetchOps, a, b \in Word : ALU(op, a, b) \in Word

ASSUME CoreWordsOK == SharedWords \union UnsharedWords \subseteq CoreWords /\ CoreWords # {}

VARIABLES
  dmem,            \* what the MEM stage drives: [op, word, wea, input, token]
  datamem_state,   \* INIT_S, MODIFY_WRITE_S, ERROR_S
  read_value,      \* the word last read (delayed register)
  read_from_shared \* the bank that word comes from (DATAIF_read_from_shared)

dmVars == <<dmem, datamem_state, read_value, read_from_shared>>

(* wea: the halves whose lane the size and the address select.             *)
DmemRequest == [op : {"none", "read", "write"} \union AtomicOps, word : CoreWords,
                wea : SUBSET Half, input : Word, token : Word]
NoDmem == [op |-> "none", word |-> CHOOSE w \in CoreWords : TRUE, wea |-> {},
           input |-> ZeroWord, token |-> ZeroWord]

is_mem_shared   == dmem.word \in SharedWords
is_mem_unshared == dmem.word \in UnsharedWords
atomic          == dmem.op \in AtomicOps

DMEM_error == dmem.op # "none" /\ ~is_mem_shared /\ ~is_mem_unshared

ARB_DATA_request ==
  datamem_state = "INIT_S" /\ ~DMEM_error /\ dmem.op # "none" /\ is_mem_shared

(* Fault: the bus is not framed between the read and the write.            *)
ARB_DATA_bus_frame_never == FALSE

ARB_DATA_bus_frame == datamem_state = "MODIFY_WRITE_S" /\ ~DMEM_error /\ is_mem_shared

serve(granted) ==
  /\ datamem_state = "INIT_S" /\ ~DMEM_error /\ dmem.op # "none"
  /\ ARB_DATA_request => granted

modify_write == datamem_state = "MODIFY_WRITE_S" /\ ~DMEM_error

DMEM_do_read(granted)  == serve(granted) /\ dmem.op # "write"
DMEM_do_write(granted) == (serve(granted) /\ dmem.op = "write") \/ modify_write

DMEM_ready(granted) ==
  \/ DMEM_error \/ datamem_state # "INIT_S"
  \/ dmem.op = "none"
  \/ serve(granted) /\ ~atomic

saved_dout(douta) == DelayedOutput(read_value, douta)

(* A compare on the high half compares 32 bits; every other one, the low   *)
(* half included, compares the 64 bits of the word with those of r0.       *)
do_xchg(old) ==
  IF dmem.wea = {1} /\ dmem.token[0] = old[1] THEN TRUE ELSE dmem.token = old

mem_we(granted, old) ==
  DMEM_do_write(granted) /\ (dmem.op = "CMPXCHG" => do_xchg(old))

(* The operand on the lanes of the half it is for.                         *)
operand_B == IF dmem.wea = {1} THEN [h \in Half |-> IF h = 1 THEN dmem.input[0] ELSE Zero]
             ELSE dmem.input

(* store_modified selects alu_output; a plain store goes through unchanged.*)
DATAIF_dina(old) ==
  IF dmem.op \in FetchOps THEN ALU(dmem.op, old, operand_B) ELSE operand_B

DATAIF_wea(granted, old) == IF mem_we(granted, old) THEN dmem.wea ELSE {}

DATAIF_ena(granted, old) == DMEM_do_read(granted) \/ mem_we(granted, old)

DATAIF_bank == IF is_mem_shared THEN "shared" ELSE "unshared"
-----------------------------------------------------------------------------
DmTypeOK ==
  /\ dmem \in DmemRequest
  /\ datamem_state \in {"INIT_S", "MODIFY_WRITE_S", "ERROR_S"}
  /\ read_value \in DelayedReg(Word)
  /\ read_from_shared \in BOOLEAN

DmInit ==
  /\ dmem = NoDmem
  /\ datamem_state = "INIT_S"
  /\ read_value = DelayedReset(ZeroWord)
  /\ read_from_shared \in BOOLEAN      \* no reset in the source

AccessError == DMEM_error /\ datamem_state' = "ERROR_S"

(* No request, one waiting for the arbiter, or one served in this cycle.   *)
ServeOrWait(granted) ==
  /\ ~DMEM_error /\ datamem_state = "INIT_S"
  /\ ~(serve(granted) /\ atomic)
  /\ UNCHANGED datamem_state

StartModify(granted) ==
  serve(granted) /\ atomic /\ datamem_state' = "MODIFY_WRITE_S"

FinishModify == modify_write /\ datamem_state' = "INIT_S"

StuckInError == datamem_state = "ERROR_S" /\ ~DMEM_error /\ UNCHANGED datamem_state

DmStep(granted, douta) ==
  /\ read_value' = DelayedNext(read_value, DMEM_do_read(granted), douta)
  /\ read_from_shared' = IF DATAIF_ena(granted, saved_dout(douta))
                         THEN is_mem_shared ELSE read_from_shared
  /\ \/ AccessError
     \/ ServeOrWait(granted)
     \/ StartModify(granted)
     \/ FinishModify
     \/ StuckInError
=============================================================================
