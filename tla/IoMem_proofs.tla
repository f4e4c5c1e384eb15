----------------------------- MODULE IoMem_proofs -----------------------------
(***************************************************************************)
(* Proofs about IoMem, for every memory, every alphabet of accesses and    *)
(* every kind of host; and, in the last part, that it implements           *)
(* AtomicMemory.                                                           *)
(***************************************************************************)
EXTENDS IoMem, TLAPS

(***************************************************************************)
(* The wires have the types of the registers they come from.               *)
(***************************************************************************)
LEMMA AddressHalf == \A a \in AxiAddress : a.half \in Half
  BY DEF AxiAddress, MemAddress, CtrlAddress, FlushAddress, NoAddress, AddressOf, Half

(* The other half of a word is a half.                                     *)
LEMMA OtherHalf == \A h \in Half : Other(h) \in Half
  BY DEF Other, Half

(* The channels that the controller looks at, driven or saved, have their  *)
(* types.                                                                  *)
LEMMA ChannelType ==
  ASSUME AxiTypeOK
  PROVE  addra \in AxiAddress /\ wdata \in Val /\ wstrb \in Strobe
  BY DEF AxiTypeOK, addra, wdata, wstrb, AxiRequest, SavedChannel

(* The output of a register that keeps a late answer is of the type of the *)
(* answer.                                                                 *)
LEMMA DelayedOutputType ==
  ASSUME NEW D, NEW r \in DelayedReg(D), NEW i \in D
  PROVE  DelayedOutput(r, i) \in D
  BY DEF DelayedReg, DelayedOutput

(* And so is what it keeps.                                                *)
LEMMA DelayedNextType ==
  ASSUME NEW D, NEW r \in DelayedReg(D), NEW i \in D, NEW load \in BOOLEAN
  PROVE  DelayedNext(r, load, i) \in DelayedReg(D)
  BY DEF DelayedReg, DelayedNext

(* A word written in some of its lanes is a word.                          *)
LEMMA WriteWordType ==
  ASSUME NEW old \in Word, NEW wea, NEW din \in Word
  PROVE  WriteWord(old, wea, din) \in Word
  BY DEF WriteWord, Word

(* The buffer of paired accesses goes from one of its states to another.   *)
LEMMA BuffNextType ==
  ASSUME AxiTypeOK
  PROVE  buff_next_state \in BuffState
<1>1. addra.half \in Half
  BY ChannelType, AddressHalf
<1>2. EMPTY_S \in BuffState /\ STORE_S(addra.half) \in BuffState
      /\ LOAD_S(addra.half) \in BuffState
  BY <1>1 DEF BuffState
<1> QED
  BY <1>2 DEF buff_next_state

(* The controller's own registers keep their types in any cycle.           *)
LEMMA AxiStepType ==
  ASSUME AxiTypeOK,
         NEW granted \in BOOLEAN, NEW d \in Word, NEW id \in Half,
         AxiStep(granted, d, id),
         axi' \in AxiRequest
  PROVE  AxiTypeOK'
<1> USE DEF AxiTypeOK
<1>1. addra \in AxiAddress /\ wdata \in Val /\ wstrb \in Strobe
  BY ChannelType
<1> DEFINE reading == do_read(granted)
           loads   == reading /\ ~no_mem_access(granted)
<1>2. Registers(granted, d, id)
  BY DEF AxiStep
<1>3. axi_state' \in AxiState
  BY DEF AxiStep, Await, FlushForRead, FlushForWrite, StartRead, StartWrite, Respond, AxiState
<1>4. buff_state' \in BuffState
  BY <1>2, BuffNextType DEF Registers
<1>5. buff_addra' \in AxiAddress /\ shared_wr_buff' \in Val
  BY <1>1, <1>2 DEF Registers
<1>6. shared_rd_buff' \in DelayedReg(Word)
  <2>1. loads \in BOOLEAN
    BY DEF do_read, Perform, no_mem_access, go, request, ARB_AXIC_request, AXIC_MAP_req
  <2>2. shared_rd_buff' = DelayedNext(shared_rd_buff, loads, d)
    BY <1>2 DEF Registers
  <2> QED
    BY <2>1, <2>2, DelayedNextType
<1>7. sv_ch' \in SavedChannel
  BY <1>1, <1>2 DEF Registers, SavedChannel, AxiRequest
<1>8. regs' \in [CtrlRegs -> Word]
  BY <1>1, <1>2 DEF Registers, Word
<1>9. map_rdata' \in Val
  BY <1>2 DEF Registers, Word, CtrlRegs
<1> QED
  BY <1>3, <1>4, <1>5, <1>6, <1>7, <1>8, <1>9

(* What the data memory interface writes is a word.                        *)
LEMMA OperandType ==
  ASSUME DmTypeOK, NEW old \in Word
  PROVE  operand_B \in Word /\ DATAIF_dina(old) \in Word
<1>1. dmem.input \in Word
  BY DEF DmTypeOK, DmemRequest
<1>2. operand_B \in Word
  BY <1>1, ZeroVal DEF operand_B, Word, Half
<1>3. ASSUME dmem.op \in FetchOps PROVE ALU(dmem.op, old, operand_B) \in Word
  BY <1>2, <1>3, ALUType
<1> QED
  BY <1>2, <1>3 DEF DATAIF_dina

(* A cycle of the data memory interface keeps its types.                   *)
LEMMA DmStepType ==
  ASSUME DmTypeOK,
         NEW granted \in BOOLEAN, NEW d \in Word,
         DmStep(granted, d),
         dmem' \in DmemRequest
  PROVE  DmTypeOK'
<1>1. datamem_state' \in {"INIT_S", "MODIFY_WRITE_S", "ERROR_S"}
  BY DEF DmStep, DmTypeOK, AccessError, ServeOrWait, StartModify, FinishModify, StuckInError
<1>2. read_value' \in DelayedReg(Word)
  <2>1. DMEM_do_read(granted) \in BOOLEAN
    BY DEF DMEM_do_read, serve
  <2>2. read_value \in DelayedReg(Word)
    BY DEF DmTypeOK
  <2>3. read_value' = DelayedNext(read_value, DMEM_do_read(granted), d)
    BY DEF DmStep
  <2> QED
    BY <2>1, <2>2, <2>3, DelayedNextType
<1>3. read_from_shared' \in BOOLEAN
  <2>1. is_mem_shared \in BOOLEAN /\ read_from_shared \in BOOLEAN
    BY DEF is_mem_shared, DmTypeOK
  <2> QED
    BY Zenon, <2>1 DEF DmStep
<1> QED
  BY <1>1, <1>2, <1>3 DEF DmTypeOK

(* What the controller writes is a word.                                   *)
LEMMA AxicDinaType ==
  ASSUME AxiTypeOK
  PROVE  AXIC_dina \in Word
<1>1. wdata \in Val /\ shared_wr_buff \in Val
  BY ChannelType DEF AxiTypeOK
<1> QED
  BY <1>1 DEF AXIC_dina, Word

(* The memories hold words, and put out words.                             *)
LEMMA BankStepType ==
  ASSUME TypeOK, BankStep
  PROVE  mem' \in [MemWords -> Word] /\ douta' \in [Bank -> Word]
<1>1. ZeroWord \in Word
  BY ZeroVal DEF ZeroWord, Word
<1>2. AxicPort.din \in Word
  BY <1>1, AxicDinaType DEF AxicPort, NoPort, TypeOK
<1>3. DataPort.din \in Word
  <2>1. DATAIF_douta \in Word
    BY DEF TypeOK, DATAIF_douta, Bank
  <2>2. saved_dout(DATAIF_douta) \in Word
    BY <2>1, DelayedOutputType DEF TypeOK, DmTypeOK, saved_dout
  <2>3. DATAIF_dina(saved_dout(DATAIF_douta)) \in Word
    BY <2>2, OperandType DEF TypeOK
  <2> QED
    BY <1>1, <2>3 DEF DataPort, NoPort
<1> DEFINE port == [b \in Bank |-> IF AxicPort.bank = b THEN AxicPort
                                   ELSE IF DataPort.bank = b THEN DataPort ELSE NoPort]
           written(w) == \E b \in Bank : w \in BankWords[b] /\ port[b].addr = w
           portOf(w)  == port[CHOOSE b \in Bank : w \in BankWords[b]]
<1>4. \A b \in Bank : port[b].din \in Word
  BY <1>1, <1>2, <1>3 DEF NoPort
<1>5. \A w \in MemWords : written(w) => portOf(w).din \in Word
  BY <1>4
<1>6. /\ mem' = [w \in MemWords |->
                   IF written(w) THEN WriteWord(mem[w], portOf(w).wea, portOf(w).din)
                   ELSE mem[w]]
      /\ douta' = [b \in Bank |->
                     IF port[b].addr \in BankWords[b] THEN mem[port[b].addr] ELSE ZeroWord]
  BY DEF BankStep
<1> HIDE DEF port, written, portOf
<1>7. \A w \in MemWords : mem[w] \in Word
  BY DEF TypeOK
<1>8. mem' \in [MemWords -> Word]
  BY <1>5, <1>6, <1>7, WriteWordType
<1>9. \A b \in Bank : BankWords[b] \subseteq MemWords
  BY DEF Bank, BankWords, MemWords
<1>10. douta' \in [Bank -> Word]
  BY <1>1, <1>6, <1>7, <1>9
<1> QED
  BY <1>8, <1>10

(* The priority of an arbiter is one of its clients.                       *)
LEMMA NextPRIOType ==
  ASSUME NEW P \in Client, NEW frame, NEW req
  PROVE  NextPRIO(P, frame, req) \in Client
  BY DEF NextPRIO, Client

(* A bus that drives nothing is in the type of requests.                   *)
LEMMA NoRequestType == NoRequest \in AxiRequest
  BY ZeroVal DEF NoRequest, AxiRequest, AxiAddress, Strobe

(* And so is a core that accesses nothing.                                 *)
LEMMA NoDmemType == NoDmem \in DmemRequest
  BY ZeroVal, CoreWordsOK DEF NoDmem, DmemRequest, Word, ZeroWord

(* Everything has its type at the start.                                   *)
LEMMA TypeCorrectInit == Init => TypeOK
<1> SUFFICES ASSUME Init PROVE TypeOK
  OBVIOUS
<1>1. ZeroWord \in Word
  BY ZeroVal DEF ZeroWord, Word
<1>2. AxiTypeOK
  BY <1>1, ZeroVal, NoRequestType
     DEF Init, AxiInit, AxiTypeOK, AxiState, BuffState, AxiAddress, DelayedReg,
         DelayedReset, SavedChannel, Strobe
<1>3. DmTypeOK
  BY <1>1, NoDmemType DEF Init, DmInit, DmTypeOK, DelayedReg, DelayedReset
<1> QED
  BY <1>1, <1>2, <1>3 DEF Init, TypeOK, Client, NoHfu, HfuRequest, Half

(* Every cycle keeps the types.                                            *)
LEMMA TypeCorrectStep == TypeOK /\ [Next]_vars => TypeOK'
<1> SUFFICES ASSUME TypeOK, [Next]_vars PROVE TypeOK'
  OBVIOUS
<1>1. CASE Next
  <2>1. /\ AxiStep(AXIC_granted, AXIC_douta, MAP_id)
        /\ DmStep(DATA_granted, DATAIF_douta)
        /\ BankStep /\ ArbiterStep
        /\ CoreInput /\ HostInput /\ HfuInput
    BY <1>1 DEF Next, Environment
  <2>2. AxiTypeOK /\ DmTypeOK
    BY DEF TypeOK
  <2>3. AXIC_granted \in BOOLEAN /\ DATA_granted \in BOOLEAN
    BY DEF AXIC_granted, ARB_AXIC_granted, AXIC_MAP_granted, DATA_granted, Granted
  <2>4. AXIC_douta \in Word /\ DATAIF_douta \in Word
    BY DEF TypeOK, AXIC_douta, AXIC_bank, DATAIF_douta, Bank
  <2>5. MAP_id \in Half
    BY <2>2, ChannelType, AddressHalf DEF TypeOK, MAP_id, HfuRequest
  <2>6. axi' \in AxiRequest
    BY <2>1, <2>2, NoRequestType, RequestsOK DEF HostInput, AxiTypeOK
  <2>7. AxiTypeOK'
    BY <2>1, <2>2, <2>3, <2>4, <2>5, <2>6, AxiStepType
  <2>8. dmem' \in DmemRequest /\ core_stopped' \in BOOLEAN
    BY <2>1, <2>2, NoDmemType, RequestsOK DEF CoreInput, DmTypeOK, TypeOK
  <2>9. DmTypeOK'
    BY <2>1, <2>2, <2>3, <2>4, <2>8, DmStepType
  <2>10. PRIO' \in Client /\ MAP_PRIO' \in Client
    BY <2>1, NextPRIOType DEF ArbiterStep, TypeOK
  <2>11. hfu' \in HfuRequest
    BY <2>1, RequestsOK DEF HfuInput, TypeOK
  <2>12. mem' \in [MemWords -> Word] /\ douta' \in [Bank -> Word]
    BY <2>1, BankStepType
  <2> QED
    BY <2>7, <2>8, <2>9, <2>10, <2>11, <2>12 DEF TypeOK
<1>2. CASE UNCHANGED vars
  BY <1>2 DEF vars, axiVars, dmVars, busVars, envVars, TypeOK, AxiTypeOK, DmTypeOK
<1> QED
  BY <1>1, <1>2

(* Type correctness, whatever the contents of a half, the words and the    *)
(* accesses: in particular the address, the data and the strobes that the  *)
(* FSM replays from its saved channels are those of an access, and the     *)
(* arbiters never name a client that does not exist.                       *)
THEOREM TypeCorrect == Spec => []TypeOK
  BY TypeCorrectInit, TypeCorrectStep, PTL DEF Spec
-----------------------------------------------------------------------------
(***************************************************************************)
(* One user at a time, and atomic operations.                              *)
(*                                                                         *)
(* OnePortUser is not inductive: that the host is kept out of the unshared *)
(* memory rests on a stopped core having no access, and AtomicReadFresh on *)
(* what the first cycle of an atomic operation left in the interface.      *)
(***************************************************************************)
StoppedInv == core_stopped => dmem.op = "none"

(* Between the two cycles of an atomic operation: the word read is on the  *)
(* output of the memory it is in, not captured yet, and still current.     *)
ModifyInv ==
  datamem_state = "MODIFY_WRITE_S" =>
    /\ dmem.op \in AtomicOps /\ ~DMEM_error
    /\ ~read_value.use_saved
    /\ read_from_shared = is_mem_shared
    /\ douta[DATAIF_bank] = mem[dmem.word]

IInv == TypeOK /\ StoppedInv /\ ModifyInv

(* An arbiter never grants both of its clients.                            *)
LEMMA ArbiterExclusive ==
  ASSUME NEW P \in Client, NEW frame, NEW req
  PROVE  ~(Granted(P, frame, req, 0) /\ Granted(P, frame, req, 1))
  BY DEF Granted, Client

(* A step that performs the access, rather than a flush, updates the buffer.*)
LEMMA PerformUpdates ==
  ASSUME NEW g, ~FlushFirst(g), do_read(g) \/ do_write(g)
  PROVE  update_buffer_state(g)
  BY DEF do_read, do_write, update_buffer_state

(* What the controller does on the memories it has asked for and been      *)
(* granted.                                                                *)
LEMMA StepIsRequest ==
  ASSUME NEW g, do_read(g) \/ do_write(g)
  PROVE  go(g) /\ req_state
  BY DEF do_read, do_write, Perform, FlushFirst, req_state, from_saved_ch

(* The controller drives the shared memory only with the arbiter's grant:  *)
(* each access that skips the request is one no_mem_access keeps off the   *)
(* port, whatever state the FSMs are in.                                   *)
LEMMA SharedPortGranted ==
  ASSUME AxicPort.bank = "shared"
  PROVE  ARB_AXIC_granted
<1> DEFINE g == AXIC_granted
<1>1. axic_enabled /\ AXIC_bank(TRUE) = "shared"
  BY DEF AxicPort, NoPort
<1>2. /\ ~no_mem_access(g) /\ is_mem_access
      /\ do_read(g) \/ do_write(g)
  BY <1>1 DEF axic_enabled, mem_en
<1>3. is_mem("shared") \/ effective_shared_flush
  BY <1>1, <1>2 DEF AXIC_bank, is_mem_access, is_mem, Bank
<1>4. ARB_AXIC_request
  <2>1. CASE FlushFirst(g)
    BY <2>1, <1>2, StepIsRequest DEF FlushFirst, ARB_AXIC_request
  <2>2. CASE ~FlushFirst(g)
    <3>1. update_buffer_state(g)
      BY <2>2, <1>2, PerformUpdates
    <3>2. ~no_real_shared_mem_access
      BY <1>2, <3>1 DEF no_mem_access, no_real_shared_mem_access, storing
    <3> QED
      BY <3>2, <1>2, <1>3, StepIsRequest DEF lock_required, ARB_AXIC_request
  <2> QED
    BY <2>1, <2>2
<1>5. AXIC_granted
  BY <1>2, <1>4, StepIsRequest DEF go, request
<1>6. ~AXIC_MAP_granted
  <2>1. addra.mem # "map"
    BY <1>3 DEF is_mem, effective_shared_flush, shared_flush
  <2>2. ASSUME AXIC_MAP_granted PROVE AXIC_MAP_req
    BY <2>2 DEF AXIC_MAP_granted, Granted, map_req, Client
  <2> QED
    BY <2>1, <2>2 DEF AXIC_MAP_req, is_mem
<1> QED
  BY <1>5, <1>6 DEF AXIC_granted

(* The core's port is enabled for an access that is served, or for the     *)
(* second half of an atomic operation.                                     *)
LEMMA DataPortServed ==
  ASSUME IInv, DataPort.bank # "none"
  PROVE  /\ DataPort.bank = DATAIF_bank /\ DataPort.addr = dmem.word
         /\ serve(DATA_granted) \/ modify_write
  BY DEF DataPort, NoPort, DATAIF_ena, mem_we, DMEM_do_read, DMEM_do_write

(* While the core performs an access, or holds the bus for one, the        *)
(* controller does not drive the bank of that access.                      *)
LEMMA PortsDisjoint ==
  ASSUME IInv, serve(DATA_granted) \/ modify_write
  PROVE  AxicPort.bank # DATAIF_bank
<1> SUFFICES ASSUME AxicPort.bank = DATAIF_bank PROVE FALSE
  OBVIOUS
<1>1. CASE is_mem_shared
  <2>1. ARB_AXIC_granted
    BY <1>1, SharedPortGranted DEF DATAIF_bank
  <2>2. CASE serve(DATA_granted)
    <3>1. DATA_granted
      BY <1>1, <2>2 DEF serve, ARB_DATA_request
    <3> QED
      BY <2>1, <3>1, ArbiterExclusive DEF DATA_granted, ARB_AXIC_granted, IInv, TypeOK
  <2>3. CASE modify_write
    <3>1. ARB_DATA_bus_frame
      BY <1>1, <2>3 DEF modify_write, ARB_DATA_bus_frame
    <3> QED
      BY <2>1, <3>1 DEF ARB_AXIC_granted, Granted
  <2> QED
    BY <2>2, <2>3
<1>2. CASE ~is_mem_shared
  <2>1. AxicPort.bank = "unshared"
    BY <1>2 DEF DATAIF_bank
  <2>2. core_stopped
    <3>1. axic_enabled /\ AXIC_bank(TRUE) = "unshared"
      BY <2>1 DEF AxicPort, NoPort
    <3>2. is_mem_access /\ addra.mem = "unshared"
      BY <3>1 DEF axic_enabled, mem_en, AXIC_bank
    <3>3. is_mem("unshared")
      BY <3>2 DEF is_mem_access, is_mem, effective_shared_flush, shared_flush
    <3> QED
      BY <3>1, <3>3 DEF axic_enabled, mem_en
  <2>3. dmem.op = "none"
    BY <2>2 DEF IInv, StoppedInv
  <2> QED
    BY <2>3, FetchOpsOK DEF IInv, ModifyInv, AtomicOps, serve, modify_write
<1> QED
  BY <1>1, <1>2

(* The inductive invariant gives the exclusion on the ports.               *)
LEMMA OnePortUserInv == IInv => OnePortUser
<1> SUFFICES ASSUME IInv, NEW b \in Bank, AxicPort.bank = b, DataPort.bank = b
             PROVE  FALSE
  BY DEF OnePortUser
<1>1. /\ DATAIF_bank = b
      /\ serve(DATA_granted) \/ modify_write
  BY DataPortServed DEF Bank
<1> QED
  BY <1>1, PortsDisjoint

(* It holds at the start.                                                  *)
LEMMA InitIInv == Init => IInv
<1> SUFFICES ASSUME Init PROVE StoppedInv /\ ModifyInv
  BY TypeCorrectInit DEF IInv
<1> QED
  BY DEF Init, DmInit, NoDmem, StoppedInv, ModifyInv

(* A core whose access is not finished holds it; a stopped one has none.   *)
LEMMA StoppedStep ==
  ASSUME StoppedInv, CoreInput
  PROVE  StoppedInv'
<1>1. CASE ~DMEM_ready(DATA_granted)
  BY <1>1 DEF StoppedInv, CoreInput
<1>2. CASE DMEM_ready(DATA_granted) /\ dmem' = NoDmem
  BY <1>2 DEF StoppedInv, NoDmem
<1>3. CASE DMEM_ready(DATA_granted) /\ core_stopped' = FALSE
  BY <1>3 DEF StoppedInv
<1> QED
  BY <1>1, <1>2, <1>3 DEF CoreInput

(* The first cycle of an atomic operation.                                 *)
LEMMA BeginModify ==
  ASSUME IInv, Next, datamem_state' = "MODIFY_WRITE_S"
  PROVE  /\ serve(DATA_granted) /\ atomic
         /\ dmem' = dmem
         /\ DMEM_do_read(DATA_granted)
<1>1. DmStep(DATA_granted, DATAIF_douta) /\ CoreInput
  BY DEF Next, Environment
<1>2. serve(DATA_granted) /\ atomic
  BY <1>1 DEF DmStep, AccessError, ServeOrWait, StartModify, FinishModify, StuckInError
<1>3. dmem.op \notin {"none", "write"}
  BY <1>2, FetchOpsOK DEF atomic, AtomicOps
<1>4. ~DMEM_ready(DATA_granted)
  BY <1>2, <1>3 DEF DMEM_ready, serve
<1> QED
  BY <1>1, <1>2, <1>3, <1>4 DEF CoreInput, DMEM_do_read

(* The core's port is the port of its bank, and the other banks' ports     *)
(* address no word of that bank.                                           *)
LEMMA BankOfWord ==
  ASSUME NEW b \in Bank, NEW c \in Bank, NEW w \in BankWords[b], w \in BankWords[c]
  PROVE  b = c
  BY WordsDisjoint DEF Bank, BankWords

(* A word that the core reads is on the output of its memory in the next   *)
(* cycle, and nothing writes it meanwhile.                                 *)
LEMMA ReadKeepsWord ==
  ASSUME TypeOK, OnePortUser, BankStep,
         DataPort.bank = DATAIF_bank, DataPort.addr = dmem.word, DataPort.wea = {},
         dmem.word \in BankWords[DATAIF_bank]
  PROVE  /\ mem'[dmem.word] = mem[dmem.word]
         /\ douta'[DATAIF_bank] = mem[dmem.word]
<1> DEFINE w == dmem.word
           port == [b \in Bank |-> IF AxicPort.bank = b THEN AxicPort
                                   ELSE IF DataPort.bank = b THEN DataPort ELSE NoPort]
           written(x) == \E b \in Bank : x \in BankWords[b] /\ port[b].addr = x
           portOf(x)  == port[CHOOSE b \in Bank : x \in BankWords[b]]
<1>1. DATAIF_bank \in Bank
  BY DEF DATAIF_bank, Bank
<1>2. port[DATAIF_bank] = DataPort
  BY <1>1 DEF OnePortUser
<1>3. portOf(w) = DataPort
  <2>1. (CHOOSE b \in Bank : w \in BankWords[b]) = DATAIF_bank
    BY <1>1, BankOfWord
  <2> QED
    BY <1>2, <2>1
<1>4. w \in MemWords
  BY <1>1 DEF Bank, BankWords, MemWords
<1>5. /\ mem' = [x \in MemWords |->
                   IF written(x) THEN WriteWord(mem[x], portOf(x).wea, portOf(x).din)
                   ELSE mem[x]]
      /\ douta' = [b \in Bank |->
                     IF port[b].addr \in BankWords[b] THEN mem[port[b].addr] ELSE ZeroWord]
  BY DEF BankStep
<1>6. WriteWord(mem[w], {}, DataPort.din) = mem[w]
  <2>1. mem[w] \in [Half -> Val]
    BY <1>4 DEF TypeOK, Word
  <2> QED
    BY <2>1 DEF WriteWord
<1> HIDE DEF port, written, portOf
<1>7. mem'[w] = mem[w]
  BY <1>3, <1>4, <1>5, <1>6
<1>8. douta'[DATAIF_bank] = mem[w]
  BY <1>1, <1>2, <1>5
<1> QED
  BY <1>7, <1>8

(* After every cycle the word an atomic operation has read is still the    *)
(* one in memory.                                                          *)
LEMMA ModifyStep ==
  ASSUME IInv, Next
  PROVE  ModifyInv'
<1> SUFFICES ASSUME datamem_state' = "MODIFY_WRITE_S"
             PROVE  /\ dmem'.op \in AtomicOps /\ ~DMEM_error'
                    /\ ~read_value'.use_saved
                    /\ read_from_shared' = is_mem_shared'
                    /\ douta'[DATAIF_bank'] = mem'[dmem'.word]
  BY DEF ModifyInv
<1> DEFINE old == saved_dout(DATAIF_douta)
<1>1. /\ serve(DATA_granted) /\ atomic /\ dmem' = dmem
      /\ DMEM_do_read(DATA_granted)
  BY BeginModify
<1>2. DmStep(DATA_granted, DATAIF_douta) /\ BankStep
  BY DEF Next
<1>3. dmem'.op \in AtomicOps /\ ~DMEM_error'
  BY <1>1 DEF atomic, serve, DMEM_error, is_mem_shared, is_mem_unshared
<1>4. ~read_value'.use_saved
  BY <1>1, <1>2 DEF DmStep, DelayedNext
<1>5. DATAIF_ena(DATA_granted, old)
  BY <1>1 DEF DATAIF_ena
<1>6. read_from_shared' = is_mem_shared'
  <2>1. read_from_shared' = is_mem_shared
    BY <1>2, <1>5 DEF DmStep
  <2> QED
    BY <1>1, <2>1 DEF is_mem_shared
<1>7. /\ DataPort.bank = DATAIF_bank /\ DataPort.addr = dmem.word
      /\ DataPort.wea = {}
  <2>1. ~mem_we(DATA_granted, old)
    BY <1>1, FetchOpsOK DEF mem_we, DMEM_do_write, modify_write, serve, atomic, AtomicOps
  <2> QED
    BY <1>5, <2>1 DEF DataPort, DATAIF_wea
<1>8. dmem.word \in BankWords[DATAIF_bank]
  BY <1>1 DEF serve, DMEM_error, is_mem_shared, is_mem_unshared, DATAIF_bank, BankWords, Bank
<1>9. mem'[dmem.word] = mem[dmem.word] /\ douta'[DATAIF_bank] = mem[dmem.word]
  BY <1>2, <1>7, <1>8, OnePortUserInv, ReadKeepsWord DEF IInv
<1>10. DATAIF_bank' = DATAIF_bank
  BY <1>1 DEF DATAIF_bank, is_mem_shared
<1> QED
  BY <1>1, <1>3, <1>4, <1>6, <1>9, <1>10

(* Every cycle keeps the inductive invariant.                              *)
LEMMA StepIInv == IInv /\ [Next]_vars => IInv'
<1> SUFFICES ASSUME IInv, [Next]_vars PROVE IInv'
  OBVIOUS
<1>1. TypeOK'
  BY TypeCorrectStep DEF IInv
<1>2. CASE Next
  <2>1. StoppedInv'
    BY <1>2, StoppedStep DEF IInv, Next, Environment
  <2> QED
    BY <1>1, <1>2, <2>1, ModifyStep DEF IInv
<1>3. CASE UNCHANGED vars
  BY <1>1, <1>3 DEF IInv, StoppedInv, ModifyInv, vars, dmVars, busVars, envVars,
                    DMEM_error, is_mem_shared, is_mem_unshared, DATAIF_bank
<1> QED
  BY <1>2, <1>3

(* The inductive invariant of the memory system (BPF_IO_Mem.vhd), for      *)
(* every host: types, a stopped core that accesses nothing, and between    *)
(* the two cycles of an atomic operation a word that is the one in memory. *)
THEOREM IInvHolds == Spec => []IInv
  BY InitIInv, StepIInv, PTL DEF Spec

(* No two accesses ever meet on the port of a block memory, so the port    *)
(* multiplexers never drop one: not on the shared memory, by arbitration,  *)
(* whatever state the host's FSM and its buffer are in, pipelined requests *)
(* included, and not on the unshared one, by the core being stopped.       *)
THEOREM PortExclusion == Spec => []OnePortUser
  BY IInvHolds, OnePortUserInv, PTL

(* An atomic operation writes what it computed from the word as it still   *)
(* is: no store of the host, paired, single or flushed, comes in between.  *)
THEOREM AtomicIsFresh == Spec => []AtomicReadFresh
<1>1. IInv => AtomicReadFresh
  <2> SUFFICES ASSUME IInv, modify_write
               PROVE  saved_dout(DATAIF_douta) = mem[dmem.word]
    BY DEF AtomicReadFresh
  <2>1. /\ ~read_value.use_saved /\ read_from_shared = is_mem_shared
        /\ douta[DATAIF_bank] = mem[dmem.word]
    BY DEF IInv, ModifyInv, modify_write
  <2>2. saved_dout(DATAIF_douta) = DATAIF_douta
    BY <2>1 DEF saved_dout, DelayedOutput
  <2> QED
    BY <2>1, <2>2 DEF DATAIF_douta, DATAIF_bank
<1> QED
  BY <1>1, IInvHolds, PTL

(* The core is granted at the latest in the cycle after it first lost the  *)
(* shared memory, whatever the host does: it loses once and has priority.  *)
THEOREM CoreIsServed == Spec => CoreWaitsOnce
<1>1. IInv /\ IInv' /\ [Next]_vars
      => [ARB_DATA_request /\ ~DATA_granted => DATA_granted']_vars
  <2> SUFFICES ASSUME IInv, Next, ARB_DATA_request, ~DATA_granted
               PROVE  DATA_granted'
    OBVIOUS
  <2>1. datamem_state = "INIT_S" /\ ~DMEM_error /\ dmem.op # "none" /\ is_mem_shared
    BY DEF ARB_DATA_request
  <2>2. ~ARB_DATA_bus_frame
    BY <2>1 DEF ARB_DATA_bus_frame
  <2>3. (arbiter_req[0] <=> ARB_DATA_request) /\ (arbiter_req[1] <=> ARB_AXIC_request)
    BY DEF arbiter_req, Client
  <2>4. ARB_AXIC_granted
    BY <2>2, <2>3 DEF DATA_granted, ARB_AXIC_granted, Granted, IInv, TypeOK, Client
  <2>5. PRIO' = 0
    BY <2>4 DEF Next, ArbiterStep, NextPRIO, DATA_granted, ARB_AXIC_granted
  <2>6. ~serve(DATA_granted)
    BY DEF serve
  <2>7. dmem' = dmem
    BY <2>1, <2>6 DEF Next, Environment, CoreInput, DMEM_ready
  <2>8. datamem_state' = "INIT_S"
    BY <2>1, <2>6 DEF Next, DmStep, AccessError, ServeOrWait, StartModify, FinishModify,
                      modify_write, StuckInError
  <2>9. ARB_DATA_request' /\ ~ARB_DATA_bus_frame'
    BY <2>1, <2>7, <2>8 DEF ARB_DATA_request, ARB_DATA_bus_frame, DMEM_error,
                            is_mem_shared, is_mem_unshared
  <2>10. arbiter_req'[0]
    BY <2>9 DEF arbiter_req, Client
  <2> QED
    BY <2>5, <2>9, <2>10 DEF DATA_granted, Granted
<1> QED
  BY <1>1, IInvHolds, PTL DEF Spec, CoreWaitsOnce
-----------------------------------------------------------------------------
(***************************************************************************)
(* The host's side: the waits at the two arbiters, the buffer of paired    *)
(* stores, and the accesses to registers.                                  *)
(***************************************************************************)

(***************************************************************************)
(* The waits.                                                              *)
(***************************************************************************)
LEMMA MapRequests ==
  /\ map_req[0] = hfu.req
  /\ map_req[1] = AXIC_MAP_req
  BY DEF map_req, Client

(* A lookup of the helper unit waits one cycle for the map unit at most:   *)
(* the host's access that won has lost its priority, and the map unit's    *)
(* arbiter is never framed.                                                *)
THEOREM LookupIsServed == Spec => HfuWaitsOnce
<1>1. IInv /\ [Next]_vars
      => [hfu.req /\ ~HFU_MAP_granted => HFU_MAP_granted']_vars
  <2> SUFFICES ASSUME IInv, Next, hfu.req, ~HFU_MAP_granted
               PROVE  HFU_MAP_granted'
    OBVIOUS
  <2>1. AXIC_MAP_granted
    BY MapRequests DEF HFU_MAP_granted, AXIC_MAP_granted, Granted, IInv, TypeOK, Client
  <2>2. MAP_PRIO' = 0
    BY <2>1 DEF Next, ArbiterStep, NextPRIO, HFU_MAP_granted, AXIC_MAP_granted
  <2>3. hfu' = hfu
    BY DEF Next, Environment, HfuInput
  <2>4. map_req'[0]
    BY <2>3 DEF map_req, Client
  <2> QED
    BY <2>2, <2>4 DEF HFU_MAP_granted, Granted
<1> QED
  BY <1>1, IInvHolds, PTL DEF Spec, HfuWaitsOnce

(***************************************************************************)
(* The access that frames the bus was granted in the cycle before, so the  *)
(* tie after it is the host's.                                             *)
(***************************************************************************)
FrameInv == ARB_DATA_bus_frame => PRIO = 1

(* The requests of the arbiter are those of interface and controller.      *)
LEMMA ArbiterRequests ==
  /\ arbiter_req[0] = ARB_DATA_request
  /\ arbiter_req[1] = ARB_AXIC_request
  BY DEF arbiter_req, Client

(* The core is granted the shared memory whenever an operation of its is   *)
(* served from it, and the next tie is the host's.                         *)
LEMMA ServedLosesPriority ==
  ASSUME serve(DATA_granted), is_mem_shared, ArbiterStep
  PROVE  PRIO' = 1
<1>1. DATA_granted
  BY DEF serve, ARB_DATA_request
<1> QED
  BY <1>1 DEF ArbiterStep, NextPRIO, DATA_granted

(* After every cycle an access that frames the bus has the tie after it go *)
(* to the host.                                                            *)
LEMMA FrameStep == IInv /\ FrameInv /\ [Next]_vars => FrameInv'
<1> SUFFICES ASSUME IInv, FrameInv, [Next]_vars, ARB_DATA_bus_frame'
             PROVE  PRIO' = 1
  BY DEF FrameInv
<1>1. CASE Next
  <2>1. datamem_state' = "MODIFY_WRITE_S" /\ is_mem_shared'
    BY DEF ARB_DATA_bus_frame
  <2>2. serve(DATA_granted) /\ dmem' = dmem
    BY <1>1, <2>1, BeginModify
  <2>3. is_mem_shared
    BY <2>1, <2>2 DEF is_mem_shared
  <2> QED
    BY <1>1, <2>2, <2>3, ServedLosesPriority DEF Next
<1>2. CASE UNCHANGED vars
  BY <1>2 DEF FrameInv, ARB_DATA_bus_frame, DMEM_error, is_mem_shared, is_mem_unshared,
              vars, dmVars, busVars
<1> QED
  BY <1>1, <1>2

(* And so in every state.                                                  *)
LEMMA FrameInvHolds == Spec => []FrameInv
<1>1. Init => FrameInv
  BY DEF Init, DmInit, FrameInv, ARB_DATA_bus_frame
<1> QED
  BY <1>1, FrameStep, IInvHolds, PTL DEF Spec

(* A host that has to wait keeps its request, in the same state of the     *)
(* handshake, and so its registers keep theirs.                            *)
LEMMA WaitingHost ==
  ASSUME Next, ARB_AXIC_request, ~AXIC_granted
  PROVE  /\ axi_state' = axi_state /\ buff_state' = buff_state
         /\ buff_addra' = buff_addra /\ sv_ch' = sv_ch
         /\ axi_state = "INIT_S" => axi' = axi
<1> DEFINE g == AXIC_granted
<1>1. ~go(g)
  BY DEF go, request
<1>2. ~do_read(g) /\ ~do_write(g) /\ ~update_buffer_state(g) /\ ~FlushFirst(g)
      /\ ~wr_save_shared(g)
  BY <1>1 DEF do_read, do_write, update_buffer_state, FlushFirst, Perform, wr_save_shared
<1>3. Registers(g, AXIC_douta, MAP_id)
  BY DEF Next, AxiStep
<1>4. buff_state' = buff_state /\ buff_addra' = buff_addra /\ sv_ch' = sv_ch
  BY <1>2, <1>3 DEF Registers
<1>5. axi_state' = axi_state
  <2>1. req_state
    BY DEF ARB_AXIC_request
  <2> QED
    BY <1>2, <2>1 DEF Next, AxiStep, Await, FlushForRead, FlushForWrite, StartRead, StartWrite,
                      Respond, do_read, update_buffer_state, req_state, from_saved_ch
<1>6. axi_state = "INIT_S" => axi' = axi
  <2>1. axi_state = "INIT_S" => axi.op # "none"
    BY DEF ARB_AXIC_request, flush_n_read, flush_n_write, lock_required, is_mem, axi_req,
           effective_shared_flush, shared_flush, axi_read_req, axi_write_req, from_saved_ch
  <2>2. ~accepted(g)
    BY <1>1 DEF accepted
  <2> QED
    BY <2>1, <2>2 DEF Next, Environment, HostInput
<1> QED
  BY <1>4, <1>5, <1>6
-----------------------------------------------------------------------------
(***************************************************************************)
(* The buffer of paired stores.  While the controller holds the first      *)
(* store of a pair, it has its address; and it holds one as long as an     *)
(* access waits in the saved channels.                                     *)
(***************************************************************************)
BufferInv ==
  /\ from_saved_ch => storing
  /\ storing => /\ buff_addra.mem = "shared" /\ buff_addra.word \in SharedWords
                /\ buff_addra.half = buff_state.h

(* A cycle that ends no access leaves the buffer and its address alone.    *)
LEMMA BufferKept ==
  ASSUME Next, ~update_buffer_state(AXIC_granted)
  PROVE  /\ buff_state' = buff_state /\ buff_addra' = buff_addra
         /\ shared_wr_buff' = shared_wr_buff
<1>1. Registers(AXIC_granted, AXIC_douta, MAP_id)
  BY DEF Next, AxiStep
<1>2. ~do_read(AXIC_granted) /\ ~wr_save_shared(AXIC_granted)
  BY DEF do_read, update_buffer_state, wr_save_shared
<1> QED
  BY <1>1, <1>2 DEF Registers

(* The only way to hold a store after the end of an access: it was a full  *)
(* store to a half of a shared word, and completed no pair.                *)
LEMMA StoreBuffered ==
  ASSUME TypeOK, Next, update_buffer_state(AXIC_granted), storing'
  PROVE  /\ wr_save_shared(AXIC_granted) /\ ~wr_pair
         /\ axi_write_req /\ addra.mem = "shared" /\ wr_32b
         /\ buff_state' = STORE_S(addra.half) /\ buff_addra' = addra
         /\ shared_wr_buff' = wdata
<1>1. Registers(AXIC_granted, AXIC_douta, MAP_id)
  BY DEF Next, AxiStep
<1>2. buff_state' = buff_next_state
  BY <1>1 DEF Registers
<1>3. ~wr_pair /\ (\E h \in Half : wr_shared(h)) /\ buff_state' = STORE_S(addra.half)
  BY <1>2 DEF buff_next_state, storing, EMPTY_S, STORE_S, LOAD_S
<1>4. wr_save_shared(AXIC_granted)
  BY <1>3 DEF wr_save_shared
<1> QED
  BY <1>1, <1>3, <1>4 DEF Registers, wr_shared, is_mem

(* An address in the shared memory is one of its words.                    *)
LEMMA SharedAddress ==
  ASSUME NEW a \in AxiAddress, a.mem = "shared"
  PROVE  a.word \in SharedWords
<1>1. PICK b \in Bank : a \in AddressOf(b, BankWords[b])
  BY DEF AxiAddress, MemAddress, CtrlAddress, FlushAddress, NoAddress, AddressOf, CtrlRegs
<1>2. b = "shared"
  BY <1>1 DEF AddressOf
<1> QED
  BY <1>1, <1>2 DEF AddressOf, BankWords, Bank

(* The FSM waits in a state of the saved channels, or comes to it by       *)
(* flushing first.                                                         *)
LEMMA SavedChannelStep ==
  ASSUME Next, from_saved_ch'
  PROVE  /\ ~update_buffer_state(AXIC_granted)
         /\ \/ /\ FlushFirst(AXIC_granted)
               /\ sv_ch' = [addr |-> axi.addr, data |-> axi.data, strb |-> axi.strb]
            \/ from_saved_ch /\ sv_ch' = sv_ch
<1> DEFINE g == AXIC_granted
<1>1. Registers(g, AXIC_douta, MAP_id)
  BY DEF Next, AxiStep
<1>2. axi_state' \in {"FLUSH_N_READ_S", "FLUSH_N_WRITE_S"}
  BY DEF from_saved_ch
<1>3. FlushForRead(g) \/ FlushForWrite(g) \/ (req_state /\ ~go(g) /\ UNCHANGED axi_state)
  BY <1>2 DEF Next, AxiStep, Await, StartRead, StartWrite, Respond
<1>4. CASE FlushForRead(g) \/ FlushForWrite(g)
  <2>1. FlushFirst(g)
    BY <1>4 DEF FlushForRead, FlushForWrite
  <2>2. ~update_buffer_state(g) /\ addra = axi.addr
    BY <2>1 DEF FlushFirst, update_buffer_state, Perform, addra, from_saved_ch
  <2> QED
    BY <1>1, <2>1, <2>2 DEF Registers
<1>5. CASE req_state /\ ~go(g) /\ UNCHANGED axi_state
  <2>1. ~FlushFirst(g) /\ ~update_buffer_state(g)
    BY <1>5 DEF FlushFirst, update_buffer_state, Perform
  <2>2. from_saved_ch
    BY <1>2, <1>5 DEF from_saved_ch
  <2> QED
    BY <1>1, <2>1, <2>2 DEF Registers
<1> QED
  BY <1>3, <1>4, <1>5

(* After every cycle a store that is held back has its address in the      *)
(* buffer.                                                                 *)
LEMMA BufferStep == IInv /\ BufferInv /\ [Next]_vars => BufferInv'
<1> SUFFICES ASSUME IInv, BufferInv, [Next]_vars PROVE BufferInv'
  OBVIOUS
<1>1. CASE Next
  <2>1. ASSUME from_saved_ch' PROVE storing'
    <3>1. storing
      BY <1>1, <2>1, SavedChannelStep DEF BufferInv, FlushFirst, flush_n_read, flush_n_write
    <3>2. buff_state' = buff_state
      BY <1>1, <2>1, SavedChannelStep, BufferKept
    <3> QED
      BY <3>1, <3>2 DEF storing
  <2>2. ASSUME storing'
        PROVE  /\ buff_addra'.mem = "shared" /\ buff_addra'.word \in SharedWords
               /\ buff_addra'.half = buff_state'.h
    <3>1. CASE update_buffer_state(AXIC_granted)
      <4>1. /\ addra.mem = "shared" /\ buff_addra' = addra
            /\ buff_state' = STORE_S(addra.half)
        BY <1>1, <2>2, <3>1, StoreBuffered DEF IInv
      <4>2. addra.word \in SharedWords
        BY <4>1, ChannelType, SharedAddress DEF IInv, TypeOK
      <4> QED
        BY <4>1, <4>2 DEF STORE_S
    <3>2. CASE ~update_buffer_state(AXIC_granted)
      <4>1. buff_state' = buff_state /\ buff_addra' = buff_addra
        BY <1>1, <3>2, BufferKept
      <4> QED
        BY <2>2, <4>1 DEF storing, BufferInv
    <3> QED
      BY <3>1, <3>2
  <2> QED
    BY <2>1, <2>2 DEF BufferInv
<1>2. CASE UNCHANGED vars
  BY <1>2 DEF vars, axiVars, BufferInv, storing, from_saved_ch
<1> QED
  BY <1>1, <1>2

(* And so in every state.                                                  *)
LEMMA BufferInvHolds == Spec => []BufferInv
<1>1. Init => BufferInv
  BY DEF Init, AxiInit, BufferInv, from_saved_ch, storing, EMPTY_S
<1> QED
  BY <1>1, BufferStep, IInvHolds, PTL DEF Spec
-----------------------------------------------------------------------------
(***************************************************************************)
(* What holds for every host, also for one that leaves the shared memory   *)
(* with a store pending.                                                   *)
(***************************************************************************)
(* Only who asks is granted.                                               *)
LEMMA ArbiterGrants ==
  /\ ARB_AXIC_granted => ARB_AXIC_request
  /\ AXIC_MAP_granted => AXIC_MAP_req
  BY ArbiterRequests, MapRequests DEF ARB_AXIC_granted, AXIC_MAP_granted, Granted

(* An access to the map unit asks for the shared memory only where it has  *)
(* to wait for a store to be flushed.                                      *)
LEMMA MapAsksForFlush ==
  ASSUME is_mem("map"), ARB_AXIC_request
  PROVE  flush_n_read \/ flush_n_write
  BY DEF ARB_AXIC_request, lock_required, is_mem, effective_shared_flush, shared_flush

(* The controller touches a map register only with the map unit's grant,   *)
(* but where it flushes: there the grant of the shared memory is enough.   *)
(* Everywhere else the map access itself asks for no shared memory, and    *)
(* the grant it takes can only be the one the helper unit did not get.     *)
THEOREM MapHasOneUser == Spec => []MapOneUser
<1>1. IInv => MapOneUser
  <2> SUFFICES ASSUME IInv, HFU_MAP_granted, is_mem("map"), ~FlushFirst(AXIC_granted),
                      do_read(AXIC_granted) \/ do_write(AXIC_granted)
               PROVE  FALSE
    BY DEF MapOneUser
  <2>1. AXIC_MAP_req /\ go(AXIC_granted) /\ req_state
    BY StepIsRequest DEF AXIC_MAP_req
  <2>2. AXIC_granted
    BY <2>1 DEF go, request
  <2>3. ~ARB_AXIC_granted
    <3>1. ~(flush_n_read \/ flush_n_write)
      BY <2>1 DEF FlushFirst, flush_n_read, flush_n_write
    <3> QED
      BY <3>1, ArbiterGrants, MapAsksForFlush
  <2>4. AXIC_MAP_granted
    BY <2>2, <2>3 DEF AXIC_granted
  <2> QED
    BY <2>4, ArbiterExclusive DEF HFU_MAP_granted, AXIC_MAP_granted, IInv, TypeOK
<1> QED
  BY <1>1, IInvHolds, PTL

(* What the register of the last word read delivers changes only when      *)
(* another word is read.                                                   *)
LEMMA OutputKept ==
  ASSUME TypeOK, Next, ~(do_read(AXIC_granted) /\ ~no_mem_access(AXIC_granted))
  PROVE  /\ shared_rd_buff'.use_saved
         /\ shared_rd_buff_out(AXIC_douta)' = shared_rd_buff_out(AXIC_douta)
<1>1. shared_rd_buff' = DelayedNext(shared_rd_buff, FALSE, AXIC_douta)
  BY DEF Next, AxiStep, Registers
<1> QED
  BY <1>1 DEF DelayedNext, DelayedOutput, shared_rd_buff_out, TypeOK, AxiTypeOK, DelayedReg

(* While the host delays its answer the controller starts nothing: the     *)
(* address of the read stays, and the register that keeps the word takes   *)
(* it from the memory before the core's next access puts out another.      *)
THEOREM ReadDataIsStable == Spec => ReadDataStable
<1>1. IInv /\ [Next]_vars
      => [/\ axi_state = "READ_S" /\ axi_state' = "READ_S"
          /\ buff_addra.mem \in Bank \union {"map"}
          => rdata(AXIC_douta)' = rdata(AXIC_douta)]_vars
  <2> SUFFICES ASSUME IInv, Next, axi_state = "READ_S",
                      buff_addra.mem \in Bank \union {"map"}
               PROVE  rdata(AXIC_douta)' = rdata(AXIC_douta)
    OBVIOUS
  <2>1. ~do_read(AXIC_granted) /\ ~update_buffer_state(AXIC_granted)
    BY DEF do_read, update_buffer_state, Perform
  <2>2. buff_addra' = buff_addra
    BY <2>1, BufferKept
  <2>3. map_rdata' = map_rdata
    BY <2>1 DEF Next, AxiStep, Registers
  <2>4. shared_rd_buff_out(AXIC_douta)' = shared_rd_buff_out(AXIC_douta)
    BY <2>1, OutputKept DEF IInv
  <2> QED
    BY <2>2, <2>3, <2>4 DEF rdata, IsReg, Bank
<1> QED
  BY <1>1, IInvHolds, PTL DEF Spec, ReadDataStable

(* A host that waits for the shared memory goes on asking for it, whatever *)
(* it drives next behind a saved access.                                   *)
LEMMA HostAsksAgain ==
  ASSUME BufferInv', Next, ARB_AXIC_request, ~AXIC_granted
  PROVE  ARB_AXIC_request'
<1>1. /\ axi_state' = axi_state /\ buff_state' = buff_state
      /\ buff_addra' = buff_addra /\ sv_ch' = sv_ch
      /\ axi_state = "INIT_S" => axi' = axi
  BY WaitingHost
<1>2. CASE axi_state = "INIT_S"
  BY <1>1, <1>2
     DEF ARB_AXIC_request, req_state, from_saved_ch, flush_n_read, flush_n_write,
         lock_required, no_real_shared_mem_access, is_mem, effective_shared_flush,
         shared_flush, wr_pair, rd_pair, wr_shared, rd_shared, same_addra, wr_32b,
         axi_req, axi_read_req, axi_write_req, addra, wstrb, storing, loading
<1>3. CASE axi_state # "INIT_S"
  <2>1. from_saved_ch /\ from_saved_ch' /\ addra' = addra
    BY <1>1, <1>3 DEF ARB_AXIC_request, req_state, from_saved_ch, addra
  <2>2. storing' /\ ~no_real_shared_mem_access'
    BY <2>1 DEF BufferInv, storing, no_real_shared_mem_access, rd_pair, loading
  <2>3. is_mem("shared") \/ effective_shared_flush
    BY <1>3 DEF ARB_AXIC_request, flush_n_read, flush_n_write, lock_required
  <2>4. CASE is_mem("shared")
    <3>1. is_mem("shared")'
      BY <2>1, <2>4 DEF is_mem, axi_req
    <3> QED
      BY <2>1, <2>2, <3>1 DEF ARB_AXIC_request, req_state, lock_required
  <2>5. CASE effective_shared_flush
    <3>1. axi' = axi
      BY <1>3, <2>5 DEF effective_shared_flush, shared_flush, axi_write_req, Next,
                        Environment, HostInput, accepted
    <3>2. effective_shared_flush'
      BY <2>1, <2>2, <2>5, <3>1 DEF effective_shared_flush, shared_flush, axi_write_req
    <3> QED
      BY <2>1, <2>2, <3>2 DEF ARB_AXIC_request, req_state, lock_required
  <2> QED
    BY <2>3, <2>4, <2>5
<1> QED
  BY <1>2, <1>3

(* A request waits one cycle for an access of the core, and one more when  *)
(* that access is atomic and frames the bus: then the tie is the host's,   *)
(* so that the core's next operation does not come first again.            *)
THEOREM HostIsServed == Spec => HostWaitsTwice
<1> DEFINE Inv == IInv /\ BufferInv /\ FrameInv
<1>1. Inv /\ Inv' /\ [Next]_vars
      => [ARB_AXIC_request /\ ~AXIC_granted
          => ARB_AXIC_granted' \/ (~ARB_DATA_bus_frame /\ ARB_DATA_bus_frame')]_vars
  <2> SUFFICES ASSUME Inv, Inv', Next, ARB_AXIC_request, ~AXIC_granted,
                      ~(~ARB_DATA_bus_frame /\ ARB_DATA_bus_frame')
               PROVE  ARB_AXIC_granted'
    OBVIOUS
  <2>1. ~ARB_AXIC_granted
    BY DEF AXIC_granted
  <2>2. arbiter_req'[1]
    BY HostAsksAgain DEF arbiter_req, Client
  <2>3. ~ARB_DATA_bus_frame'
    BY DEF ARB_DATA_bus_frame, Next, DmStep, AccessError, ServeOrWait, StartModify,
           FinishModify, StuckInError, serve, modify_write
  <2>4. PRIO' = 1
    <3>1. CASE ARB_DATA_bus_frame
      BY <3>1 DEF FrameInv, Next, ArbiterStep, NextPRIO, Granted
    <3>2. CASE ~ARB_DATA_bus_frame
      <4>1. DATA_granted
        BY <2>1, <3>2, ArbiterRequests
           DEF ARB_AXIC_granted, DATA_granted, Granted, IInv, TypeOK, Client
      <4> QED
        BY <4>1 DEF Next, ArbiterStep, NextPRIO, DATA_granted
    <3> QED
      BY <3>1, <3>2
  <2> QED
    BY <2>2, <2>3, <2>4 DEF ARB_AXIC_granted, Granted
<1> QED
  BY <1>1, IInvHolds, BufferInvHolds, FrameInvHolds, PTL DEF Spec, HostWaitsTwice
-----------------------------------------------------------------------------
(***************************************************************************)
(* A host that flushes first.  It is in shared memory, or flushing, while  *)
(* the controller holds a store, and so is the access the controller saved *)
(* to let the store go first.                                              *)
(***************************************************************************)
HostInv ==
  storing =>
    /\ axi.op # "none" => StaysShared(axi)
    /\ from_saved_ch => sv_ch.addr.mem = "shared"

(* A store is buffered when the host's request is accepted, or was held    *)
(* before: the host chooses its next request knowing of it.                *)
LEMMA BufferedAtAcceptance ==
  ASSUME TypeOK, BufferInv, Next, storing', axi.op # "none", ~accepted(AXIC_granted)
  PROVE  storing
<1>1. CASE update_buffer_state(AXIC_granted)
  <2>1. axi.op = "write"
    BY <1>1, StoreBuffered DEF axi_write_req
  <2>2. axi_state # "INIT_S"
    BY <1>1, <2>1 DEF accepted, update_buffer_state, Perform
  <2> QED
    BY <1>1, <2>2 DEF update_buffer_state, Perform, from_saved_ch, BufferInv
<1>2. CASE ~update_buffer_state(AXIC_granted)
  BY <1>2, BufferKept DEF storing
<1> QED
  BY <1>1, <1>2

(* An access that waits for the flush is one of shared memory.             *)
LEMMA FlushedAccessShared ==
  ASSUME HostInv, NEW g, FlushFirst(g)
  PROVE  /\ storing /\ axi_state = "INIT_S" /\ ~from_saved_ch /\ addra = axi.addr
         /\ addra.mem = "shared" /\ ~shared_flush
<1>1. storing /\ axi_state = "INIT_S" /\ ~from_saved_ch /\ addra = axi.addr
  BY DEF FlushFirst, flush_n_read, flush_n_write, from_saved_ch, addra
<1>2. axi.op # "none" /\ ~(axi.addr.mem = "flush" /\ axi.op = "write")
  BY <1>1 DEF FlushFirst, flush_n_read, flush_n_write, axi_read_req, axi_write_req, shared_flush
<1> QED
  BY <1>1, <1>2 DEF HostInv, StaysShared, shared_flush

(* A host that flushes first leaves the shared memory only with no store   *)
(* held back.                                                              *)
LEMMA HostStepInv ==
  ASSUME HostFlushes
  PROVE  IInv /\ BufferInv /\ HostInv /\ [Next]_vars => HostInv'
<1> SUFFICES ASSUME IInv, BufferInv, HostInv, [Next]_vars, storing'
             PROVE  /\ axi'.op # "none" => StaysShared(axi')
                    /\ from_saved_ch' => sv_ch'.addr.mem = "shared"
  BY DEF HostInv, StaysShared
<1>1. CASE Next
  <2>1. ASSUME axi'.op # "none" PROVE StaysShared(axi')
    <3>1. HostInput
      BY <1>1 DEF Next, Environment
    <3>2. CASE axi.op # "none" /\ ~accepted(AXIC_granted)
      BY <1>1, <3>1, <3>2, BufferedAtAcceptance DEF IInv, HostInput, HostInv, StaysShared
    <3>3. CASE ~(axi.op # "none" /\ ~accepted(AXIC_granted))
      BY <2>1, <3>1, <3>3 DEF HostInput, Polite, NoRequest, StaysShared
    <3> QED
      BY <3>2, <3>3
  <2>2. ASSUME from_saved_ch' PROVE sv_ch'.addr.mem = "shared"
    <3>1. CASE FlushFirst(AXIC_granted)
          /\ sv_ch' = [addr |-> axi.addr, data |-> axi.data, strb |-> axi.strb]
      BY <3>1, FlushedAccessShared
    <3>2. CASE from_saved_ch /\ sv_ch' = sv_ch
      BY <3>2 DEF HostInv, BufferInv
    <3> QED
      BY <1>1, <2>2, <3>1, <3>2, SavedChannelStep
  <2> QED
    BY <2>1, <2>2
<1>2. CASE UNCHANGED vars
  BY <1>2 DEF vars, axiVars, HostInv, storing, from_saved_ch, StaysShared
<1> QED
  BY <1>1, <1>2

(* And so in every state.                                                  *)
LEMMA HostInvHolds ==
  ASSUME HostFlushes
  PROVE  Spec => [](IInv /\ BufferInv /\ HostInv)
<1>1. Init => HostInv
  BY DEF Init, AxiInit, HostInv, storing, EMPTY_S
<1>2. IInv /\ BufferInv /\ HostInv /\ [Next]_vars => HostInv'
  BY HostStepInv
<1> QED
  BY <1>1, <1>2, IInvHolds, BufferInvHolds, PTL DEF Spec

(* The store that is forced out of the buffer is written to the half of    *)
(* the shared word it was for, whatever access forces it out.              *)
THEOREM StoreGoesHome ==
  ASSUME HostFlushes
  PROVE  Spec => []FlushGoesHome
<1>1. IInv /\ BufferInv /\ HostInv => FlushGoesHome
  <2> SUFFICES ASSUME IInv, BufferInv, HostInv, FlushFirst(AXIC_granted)
               PROVE  AxicPort = [bank |-> "shared", addr |-> buff_addra.word,
                                  wea |-> {buff_addra.half},
                                  din |-> [h \in Half |-> IF h = buff_addra.half
                                                         THEN shared_wr_buff ELSE wdata]]
    BY DEF FlushGoesHome
  <2>1. addra.mem = "shared" /\ storing
    BY FlushedAccessShared
  <2>2. axi_req /\ wr_shared_from_buffer /\ do_write(AXIC_granted)
    BY DEF FlushFirst, flush_n_read, flush_n_write, axi_req, wr_shared_from_buffer, do_write
  <2>3. ~update_buffer_state(AXIC_granted)
    BY DEF FlushFirst, update_buffer_state, Perform
  <2>4. axic_enabled
    BY <2>1, <2>2, <2>3
       DEF axic_enabled, mem_en, is_mem, no_mem_access, is_mem_access, Bank
  <2>5. AXIC_bank(TRUE) = "shared"
    BY <2>1 DEF AXIC_bank
  <2>6. AXIC_dina = [h \in Half |-> IF h = buff_addra.half THEN shared_wr_buff ELSE wdata]
    <3>1. buff_addra.half \in Half
      BY AddressHalf DEF IInv, TypeOK, AxiTypeOK
    <3>2. \A h \in Half : h = Other(buff_addra.half) <=> h # buff_addra.half
      BY <3>1 DEF Other, Half
    <3> QED
      BY <2>2, <3>2 DEF AXIC_dina
  <2> QED
    BY <2>2, <2>4, <2>5, <2>6 DEF AxicPort, AXIC_addra, AXIC_wea
<1> QED
  BY <1>1, HostInvHolds, PTL

-----------------------------------------------------------------------------
(***************************************************************************)
(* IoMem implements AtomicMemory for a host that flushes first and issues  *)
(* one access at a time: every cycle of the controller, the interface, the *)
(* arbiters and the block memories is a step of the host followed by a     *)
(* step of the core.  HostMem is the memory between the two.               *)
(***************************************************************************)
OneAccessHost == HostFlushes /\ ~HostPipelines

(* AtomicMemory has a copy of MemoryMap of its own: the same definitions.  *)
LEMMA AbsNames ==
  /\ Abs!Half = Half /\ Abs!Word = Word /\ Abs!ZeroWord = ZeroWord
  /\ Abs!MemWords = MemWords
  /\ \A h : Abs!Other(h) = Other(h)
  /\ \A m, w, wea, d : Abs!Store(m, w, wea, d) = [m EXCEPT ![w] = WriteWord(@, wea, d)]
  BY DEF Abs!Half, Half, Abs!Word, Word, Abs!ZeroWord, ZeroWord, Abs!MemWords, MemWords,
         Abs!Other, Other, Abs!Store, Abs!WriteWord, WriteWord

(***************************************************************************)
(* The host drives nothing while an access of its is under way; the word   *)
(* a load kept is in the register, or will be at the end of this cycle;    *)
(* and a host in the core's memory has the core stopped.                   *)
(***************************************************************************)
LoadInv ==
  loading => /\ shared_rd_buff.use_saved \/ axi_state = "READ_S"
             /\ buff_addra.half = buff_state.h

SequenceInv ==
  /\ axi_state # "INIT_S" => axi.op = "none"
  /\ LoadInv
  /\ TouchesCoreMemory(axi) => core_stopped

RInv == IInv /\ BufferInv /\ HostInv /\ SequenceInv

(* A host of one access at a time drives nothing while its access is under *)
(* way.                                                                    *)
LEMMA OneAccessStep ==
  ASSUME OneAccessHost, SequenceInv, Next
  PROVE  axi_state' # "INIT_S" => axi'.op = "none"
<1> SUFFICES ASSUME axi_state' # "INIT_S" PROVE axi'.op = "none"
  OBVIOUS
<1>1. HostInput
  BY DEF Next, Environment
<1>2. CASE axi.op # "none" /\ ~accepted(AXIC_granted)
  <2>1. axi_state = "INIT_S" /\ ~go(AXIC_granted)
    BY <1>2 DEF SequenceInv, accepted
  <2>2. axi_state' = axi_state
    BY <2>1 DEF Next, AxiStep, Await, FlushForRead, FlushForWrite, StartRead, StartWrite,
                Respond, FlushFirst, do_read, Perform
  <2> QED
    BY <2>1, <2>2
<1>3. CASE ~(axi.op # "none" /\ ~accepted(AXIC_granted))
  BY <1>1, <1>3 DEF HostInput, OneAccessHost, NoRequest
<1> QED
  BY <1>2, <1>3

(* A half is kept after a read of the other half of a shared word.         *)
LEMMA HalfKept ==
  ASSUME SequenceInv, Next, update_buffer_state(AXIC_granted), loading'
  PROVE  /\ axi_state = "INIT_S" /\ axi_read_req /\ addra.mem = "shared" /\ ~rd_pair
         /\ do_read(AXIC_granted) /\ axi_state' = "READ_S"
         /\ buff_addra' = addra /\ buff_state'.h = addra.half
<1>1. Registers(AXIC_granted, AXIC_douta, MAP_id)
  BY DEF Next, AxiStep
<1>2. buff_state' = buff_next_state
  BY <1>1 DEF Registers
<1>3. /\ axi_read_req /\ addra.mem = "shared" /\ ~rd_pair
      /\ buff_state' = LOAD_S(addra.half)
  BY <1>2 DEF buff_next_state, loading, EMPTY_S, STORE_S, LOAD_S, rd_shared, is_mem
<1>4. axi_state = "INIT_S"
  BY <1>3 DEF SequenceInv, axi_read_req
<1>5. do_read(AXIC_granted) /\ ~FlushFirst(AXIC_granted)
      /\ ~Perform(AXIC_granted, "write", "FLUSH_N_WRITE_S") /\ go(AXIC_granted)
  BY <1>3, <1>4 DEF update_buffer_state, do_read, Perform, FlushFirst, axi_read_req
<1>6. axi_state' = "READ_S"
  BY <1>3, <1>4, <1>5 DEF Next, AxiStep, Await, FlushForRead, FlushForWrite, StartRead,
     StartWrite, Respond, axi_read_req
<1> QED
  BY <1>1, <1>3, <1>4, <1>5, <1>6 DEF Registers, LOAD_S

(* After every cycle the word that a load has kept is in the register, or  *)
(* is about to be.                                                         *)
LEMMA LoadStep ==
  ASSUME IInv, SequenceInv, Next
  PROVE  LoadInv'
<1> SUFFICES ASSUME loading'
             PROVE  /\ shared_rd_buff'.use_saved \/ axi_state' = "READ_S"
                    /\ buff_addra'.half = buff_state'.h
  BY DEF LoadInv
<1>1. CASE update_buffer_state(AXIC_granted)
  BY <1>1, HalfKept
<1>2. CASE ~update_buffer_state(AXIC_granted)
  <2>1. ~do_read(AXIC_granted)
    BY <1>2 DEF do_read, update_buffer_state
  <2>2. shared_rd_buff'.use_saved
    BY <2>1, OutputKept DEF IInv
  <2> QED
    BY <1>2, <2>2, BufferKept DEF loading, SequenceInv, LoadInv
<1> QED
  BY <1>1, <1>2

(* The host enters the core's memory when the core is stopped, and the     *)
(* core is not restarted before the host has left it.                      *)
LEMMA CoreMemoryStep ==
  ASSUME SequenceInv, Next
  PROVE  TouchesCoreMemory(axi') => core_stopped'
<1> SUFFICES ASSUME TouchesCoreMemory(axi') PROVE core_stopped'
  OBVIOUS
<1>1. HostInput /\ CoreInput
  BY DEF Next, Environment
<1>2. CASE axi' = axi
  BY <1>1, <1>2 DEF CoreInput, host_in_core_memory, SequenceInv
<1>3. CASE axi' # axi
  BY <1>1, <1>3 DEF HostInput, NoRequest, NoAddress, TouchesCoreMemory
<1> QED
  BY <1>2, <1>3

(* What a host of one access at a time knows of its access holds after     *)
(* every step.                                                             *)
LEMMA SequenceStep ==
  ASSUME OneAccessHost
  PROVE  IInv /\ SequenceInv /\ [Next]_vars => SequenceInv'
<1> SUFFICES ASSUME IInv, SequenceInv, [Next]_vars PROVE SequenceInv'
  OBVIOUS
<1>1. CASE Next
  BY <1>1, OneAccessStep, LoadStep, CoreMemoryStep DEF SequenceInv, TouchesCoreMemory
<1>2. CASE UNCHANGED vars
  BY <1>2 DEF vars, axiVars, envVars, SequenceInv, LoadInv, loading, TouchesCoreMemory
<1> QED
  BY <1>1, <1>2

(* The inductive invariant of the refinement.                              *)
LEMMA RInvHolds ==
  ASSUME OneAccessHost
  PROVE  Spec => []RInv
<1>1. Init => SequenceInv
  BY DEF Init, AxiInit, SequenceInv, LoadInv, loading, EMPTY_S, NoRequest, NoAddress,
         TouchesCoreMemory
<1>2. IInv /\ SequenceInv /\ [Next]_vars => SequenceInv'
  BY SequenceStep
<1>3. HostFlushes
  BY DEF OneAccessHost
<1>4. Spec => [](IInv /\ BufferInv /\ HostInv)
  BY <1>3, HostInvHolds
<1> QED
  BY <1>1, <1>2, <1>4, PTL DEF Spec, RInv
-----------------------------------------------------------------------------
(***************************************************************************)
(* The memory, after the host's port and after the core's.                 *)
(***************************************************************************)
old_word == saved_dout(DATAIF_douta)

HostMem ==
  IF axic_enabled
  THEN [mem EXCEPT ![AXIC_addra] = WriteWord(@, AXIC_wea(AXIC_granted), AXIC_dina)]
  ELSE mem

CoreMem ==
  IF DATAIF_ena(DATA_granted, old_word)
  THEN [HostMem EXCEPT ![dmem.word] =
          WriteWord(@, DATAIF_wea(DATA_granted, old_word), DATAIF_dina(old_word))]
  ELSE HostMem

(* An address in a block memory is one of its words.                       *)
LEMMA MemAddressWord ==
  ASSUME NEW a \in AxiAddress, a.mem \in Bank
  PROVE  a.word \in BankWords[a.mem]
<1>1. PICK b \in Bank : a \in AddressOf(b, BankWords[b])
  BY DEF AxiAddress, MemAddress, CtrlAddress, FlushAddress, NoAddress, AddressOf, CtrlRegs, Bank
<1> QED
  BY <1>1 DEF AddressOf

(* A full store of a pair's buffered half: the port is the buffer's when   *)
(* the buffer is flushed, and the access's own otherwise.                  *)
LEMMA HostPort ==
  ASSUME RInv, axic_enabled
  PROVE  /\ AXIC_bank(TRUE) \in Bank /\ AXIC_addra \in BankWords[AXIC_bank(TRUE)]
         /\ ~wr_shared_from_buffer => addra.mem \in Bank /\ AXIC_bank(TRUE) = addra.mem
<1>1. is_mem_access
  BY DEF axic_enabled, mem_en
<1>2. addra \in AxiAddress
  BY ChannelType DEF RInv, IInv, TypeOK
<1>3. CASE wr_shared_from_buffer
  <2>1. storing
    BY <1>1, <1>3 DEF wr_shared_from_buffer, flush_n_read, flush_n_write, is_mem_access,
                      effective_shared_flush, shared_flush, Bank
  <2>2. AXIC_addra \in SharedWords
    BY <1>3, <2>1 DEF AXIC_addra, RInv, BufferInv
  <2>3. AXIC_bank(TRUE) = "shared"
    <3>1. CASE shared_flush
      BY <3>1 DEF shared_flush, AXIC_bank
    <3>2. CASE flush_n_read \/ flush_n_write
      <4>1. StaysShared(axi) /\ addra = axi.addr
        BY <2>1, <3>2 DEF flush_n_read, flush_n_write, axi_read_req, axi_write_req, RInv,
                          HostInv, addra, from_saved_ch
      <4> QED
        BY <4>1 DEF StaysShared, AXIC_bank
    <3> QED
      BY <1>3, <3>1, <3>2 DEF wr_shared_from_buffer
  <2> QED
    BY <1>3, <2>2, <2>3 DEF BankWords, Bank
<1>4. CASE ~wr_shared_from_buffer
  <2>1. addra.mem \in Bank
    BY <1>1, <1>4 DEF is_mem_access, effective_shared_flush, wr_shared_from_buffer
  <2>2. AXIC_bank(TRUE) = addra.mem /\ AXIC_addra = addra.word
    BY <1>4, <2>1 DEF AXIC_bank, AXIC_addra, Bank
  <2> QED
    BY <1>2, <2>1, <2>2, MemAddressWord
<1> QED
  BY <1>3, <1>4

(* And so is the one of an access of the core that is served.              *)
LEMMA ServedWord ==
  ASSUME serve(DATA_granted) \/ modify_write, dmem.op # "none"
  PROVE  dmem.word \in BankWords[DATAIF_bank] /\ DATAIF_bank \in Bank
  BY DEF serve, modify_write, DMEM_error, is_mem_shared, is_mem_unshared, DATAIF_bank,
         BankWords, Bank

(* The core's port is enabled only for one.                                *)
LEMMA CorePort ==
  ASSUME RInv, DATAIF_ena(DATA_granted, old_word)
  PROVE  serve(DATA_granted) \/ modify_write
  BY DEF DATAIF_ena, DMEM_do_read, mem_we, DMEM_do_write

(* While the core's port is enabled the host's is at another memory: the   *)
(* word is what it was before the host's write.                            *)
LEMMA ActiveCore ==
  ASSUME RInv, serve(DATA_granted) \/ modify_write
  PROVE  /\ dmem.op # "none"
         /\ dmem.word \in BankWords[DATAIF_bank] /\ DATAIF_bank \in Bank
         /\ dmem.word \in MemWords
         /\ axic_enabled => AXIC_bank(TRUE) # DATAIF_bank
         /\ HostMem[dmem.word] = mem[dmem.word]
<1>1. dmem.op # "none"
  BY FetchOpsOK DEF serve, modify_write, RInv, IInv, ModifyInv, AtomicOps
<1>2. dmem.word \in BankWords[DATAIF_bank] /\ DATAIF_bank \in Bank
  BY <1>1, ServedWord
<1>3. dmem.word \in MemWords
  BY <1>2 DEF Bank, BankWords, MemWords
<1>4. axic_enabled => AXIC_bank(TRUE) # DATAIF_bank
  BY PortsDisjoint DEF RInv, AxicPort
<1>5. axic_enabled => AXIC_addra # dmem.word
  BY <1>2, <1>4, HostPort, BankOfWord
<1>6. HostMem[dmem.word] = mem[dmem.word]
  BY <1>3, <1>5 DEF HostMem, RInv, IInv, TypeOK
<1> QED
  BY <1>1, <1>2, <1>3, <1>4, <1>6

(* The block memories write both ports' words at once, which is one after  *)
(* the other since they are words of different banks; each port reads its  *)
(* word as it was before.                                                  *)
LEMMA OneAfterTheOther ==
  ASSUME RInv, Next
  PROVE  /\ mem' = CoreMem
         /\ axic_enabled => douta'[AXIC_bank(TRUE)] = mem[AXIC_addra]
         /\ DATAIF_ena(DATA_granted, old_word) => douta'[DATAIF_bank] = mem[dmem.word]
<1> DEFINE port == [b \in Bank |-> IF AxicPort.bank = b THEN AxicPort
                                   ELSE IF DataPort.bank = b THEN DataPort ELSE NoPort]
           written(w) == \E b \in Bank : w \in BankWords[b] /\ port[b].addr = w
           portOf(w)  == port[CHOOSE b \in Bank : w \in BankWords[b]]
           host == axic_enabled
           core == DATAIF_ena(DATA_granted, old_word)
           hb == AXIC_bank(TRUE)
           cb == DATAIF_bank
<1>1. /\ mem' = [w \in MemWords |->
                   IF written(w) THEN WriteWord(mem[w], portOf(w).wea, portOf(w).din)
                   ELSE mem[w]]
      /\ douta' = [b \in Bank |->
                     IF port[b].addr \in BankWords[b] THEN mem[port[b].addr] ELSE ZeroWord]
  BY DEF Next, BankStep
<1>2. /\ host => hb \in Bank /\ AXIC_addra \in BankWords[hb]
      /\ core => cb \in Bank /\ dmem.word \in BankWords[cb]
      /\ host /\ core => hb # cb
  BY HostPort, CorePort, ActiveCore
<1>3. AxicPort = IF host THEN [bank |-> hb, addr |-> AXIC_addra,
                               wea |-> AXIC_wea(AXIC_granted), din |-> AXIC_dina]
                 ELSE NoPort
  BY DEF AxicPort
<1>4. DataPort = IF core THEN [bank |-> cb, addr |-> dmem.word,
                               wea |-> DATAIF_wea(DATA_granted, old_word),
                               din |-> DATAIF_dina(old_word)]
                 ELSE NoPort
  BY DEF DataPort, old_word
<1> HIDE DEF host, core, hb, cb
<1>5. /\ host => port[hb] = AxicPort
      /\ core => port[cb] = DataPort
      /\ \A b \in Bank : (host => b # hb) /\ (core => b # cb) => port[b] = NoPort
  BY <1>2, <1>3, <1>4 DEF NoPort, Bank
<1> HIDE DEF port
<1>6. ASSUME NEW w \in MemWords PROVE mem'[w] = CoreMem[w]
  <2>1. PICK b \in Bank : w \in BankWords[b]
    BY DEF MemWords, Bank, BankWords
  <2>2. portOf(w) = port[b] /\ (written(w) <=> port[b].addr = w)
    <3>1. \A c \in Bank : w \in BankWords[c] <=> c = b
      BY <2>1, BankOfWord
    <3> QED
      BY <2>1, <3>1
  <2>3. mem'[w] = IF port[b].addr = w THEN WriteWord(mem[w], port[b].wea, port[b].din)
                  ELSE mem[w]
    BY <1>1, <2>2
  <2>4. HostMem \in [MemWords -> Word] /\ mem \in [MemWords -> Word]
    <3>1. AXIC_dina \in Word
      BY AxicDinaType DEF RInv, IInv, TypeOK
    <3>2. mem \in [MemWords -> Word] /\ host = axic_enabled
      BY DEF RInv, IInv, TypeOK, host
    <3> QED
      BY <3>1, <3>2, WriteWordType DEF HostMem
  <2>5. CASE host /\ b = hb
    <3>1. mem'[w] = HostMem[w]
      <4>1. /\ port[b].addr = AXIC_addra /\ port[b].wea = AXIC_wea(AXIC_granted)
            /\ port[b].din = AXIC_dina
        BY <1>3, <1>5, <2>5
      <4>2. HostMem = [mem EXCEPT ![AXIC_addra] =
                         WriteWord(mem[AXIC_addra], AXIC_wea(AXIC_granted), AXIC_dina)]
        BY <2>5 DEF HostMem, host
      <4> QED
        BY <2>3, <2>4, <4>1, <4>2
    <3>2. core => dmem.word # w
      BY <1>2, <2>1, <2>5, BankOfWord
    <3> QED
      BY <3>1, <3>2, <2>4 DEF CoreMem, core
  <2>6. CASE core /\ b = cb
    <3>1. host => AXIC_addra # w
      BY <1>2, <2>1, <2>6, BankOfWord
    <3>2. HostMem[w] = mem[w]
      BY <3>1, <2>4 DEF HostMem, host
    <3> QED
      BY <1>4, <1>5, <2>3, <2>4, <2>6, <3>2 DEF CoreMem, core, cb
  <2>7. CASE (host => b # hb) /\ (core => b # cb)
    <3>1. port[b] = NoPort
      BY <1>5, <2>7
    <3>2. mem'[w] = mem[w]
      <4>1. mem[w] \in Word
        BY <2>4
      <4>2. WriteWord(mem[w], {}, ZeroWord) = mem[w]
        BY <4>1 DEF WriteWord, Word
      <4> QED
        BY <2>3, <3>1, <4>2 DEF NoPort
    <3>3. (host => AXIC_addra # w) /\ (core => dmem.word # w)
      BY <1>2, <2>1, <2>7, BankOfWord
    <3> QED
      BY <2>4, <3>2, <3>3 DEF HostMem, CoreMem, host, core
  <2> QED
    BY <2>5, <2>6, <2>7
<1>7. mem' = CoreMem
  <2>1. mem \in [MemWords -> Word]
    BY DEF RInv, IInv, TypeOK
  <2> HIDE DEF written, portOf
  <2>2. mem' = [w \in MemWords |-> mem'[w]]
    BY <1>1
  <2>3. \A f, x, y : f = [w \in MemWords |-> f[w]]
                    => [f EXCEPT ![x] = y] = [w \in MemWords |-> [f EXCEPT ![x] = y][w]]
    OBVIOUS
  <2>4. HostMem = [w \in MemWords |-> HostMem[w]]
    BY <2>1, <2>3 DEF HostMem
  <2>5. CoreMem = [w \in MemWords |-> CoreMem[w]]
    BY <2>3, <2>4 DEF CoreMem
  <2> QED
    BY <1>6, <2>2, <2>5
<1>8. host => douta'[hb] = mem[AXIC_addra]
  BY <1>1, <1>2, <1>3, <1>5
<1>9. core => douta'[cb] = mem[dmem.word]
  BY <1>1, <1>2, <1>4, <1>5
<1> QED
  BY <1>7, <1>8, <1>9 DEF host, hb, core, cb
-----------------------------------------------------------------------------
(***************************************************************************)
(* The core's part of a cycle.                                             *)
(***************************************************************************)
(* What the core read last stays until it reads again.                     *)
LEMMA CoreOutputKept ==
  ASSUME RInv, Next, ~DMEM_do_read(DATA_granted)
  PROVE  old_word' = old_word
<1>1. read_value' = DelayedNext(read_value, DMEM_do_read(DATA_granted), DATAIF_douta)
  BY DEF Next, DmStep
<1> QED
  BY <1>1 DEF DelayedNext, DelayedOutput, old_word, saved_dout, RInv, IInv, TypeOK, DmTypeOK,
              DelayedReg

(* What the core has read is what the memory held between the two steps.   *)
LEMMA CoreOutputRead ==
  ASSUME RInv, Next, DMEM_do_read(DATA_granted)
  PROVE  old_word' = HostMem[dmem.word]
<1>1. ~read_value'.use_saved
  BY DEF Next, DmStep, DelayedNext
<1>2. DATAIF_ena(DATA_granted, old_word)
  BY DEF DATAIF_ena
<1>3. read_from_shared' = is_mem_shared
  BY <1>2 DEF Next, DmStep, old_word
<1>4. DATAIF_douta' = douta'[DATAIF_bank]
  BY <1>3 DEF DATAIF_douta, DATAIF_bank
<1>5. douta'[DATAIF_bank] = mem[dmem.word]
  BY <1>2, OneAfterTheOther
<1>6. HostMem[dmem.word] = mem[dmem.word]
  BY <1>2, CorePort, ActiveCore
<1> QED
  BY <1>1, <1>4, <1>5, <1>6 DEF old_word, saved_dout, DelayedOutput

(* What the interface holds and writes are words.                          *)
LEMMA OldWordType ==
  ASSUME RInv
  PROVE  old_word \in Word /\ operand_B \in Word /\ DATAIF_dina(old_word) \in Word
         /\ dmem.wea \in SUBSET Half
<1>1. DATAIF_douta \in Word /\ DmTypeOK
  BY DEF RInv, IInv, TypeOK, DATAIF_douta, Bank
<1>2. old_word \in Word
  BY <1>1, DelayedOutputType DEF DmTypeOK, old_word, saved_dout
<1> QED
  BY <1>1, <1>2, OperandType DEF DmTypeOK, DmemRequest

(* The memory between the two steps is one.                                *)
LEMMA HostMemType == ASSUME RInv PROVE HostMem \in [MemWords -> Word]
<1>1. AXIC_dina \in Word
  BY AxicDinaType DEF RInv, IInv, TypeOK
<1>2. mem \in [MemWords -> Word]
  BY DEF RInv, IInv, TypeOK
<1> QED
  BY <1>1, <1>2, WriteWordType DEF HostMem

(* A port that is enabled and writes nothing changes nothing.              *)
LEMMA EmptyWrite ==
  ASSUME NEW m \in [MemWords -> Word], NEW w, NEW d
  PROVE  [m EXCEPT ![w] = WriteWord(@, {}, d)] = m
<1>1. ASSUME w \in MemWords PROVE WriteWord(m[w], {}, d) = m[w]
  BY <1>1 DEF WriteWord, Word
<1> QED
  BY <1>1

(* A cycle in which the core does not reach memory.                        *)
LEMMA IdleCore ==
  ASSUME RInv, Next, ~serve(DATA_granted), ~modify_write
  PROVE  Abs!CoreIdle(HostMem)
<1>1. ~DMEM_do_read(DATA_granted) /\ ~DATAIF_ena(DATA_granted, old_word)
  BY DEF DMEM_do_read, DATAIF_ena, mem_we, DMEM_do_write
<1>2. mem' = HostMem
  BY <1>1, OneAfterTheOther DEF CoreMem
<1>3. datamem_state' = "MODIFY_WRITE_S" <=> datamem_state = "MODIFY_WRITE_S"
  BY DEF Next, DmStep, AccessError, ServeOrWait, StartModify, FinishModify, StuckInError,
         modify_write, RInv, IInv, ModifyInv
<1> QED
  BY <1>1, <1>2, <1>3, CoreOutputKept DEF Abs!CoreIdle, core_read, old_word

(* An access that is served is one step of the abstract core.              *)
LEMMA ServedCore ==
  ASSUME RInv, Next, serve(DATA_granted)
  PROVE  Abs!CoreStep(HostMem)
<1>1. /\ dmem.word \in MemWords /\ HostMem[dmem.word] = mem[dmem.word]
      /\ HostMem \in [MemWords -> Word]
  BY ActiveCore, HostMemType
<1>2. datamem_state = "INIT_S" /\ core_read = {old_word}
  BY DEF serve, core_read, old_word
<1>3. datamem_state' = IF atomic THEN "MODIFY_WRITE_S" ELSE "INIT_S"
  BY <1>2 DEF Next, DmStep, AccessError, ServeOrWait, StartModify, FinishModify, StuckInError,
              serve, modify_write
<1>4. CASE dmem.op = "write"
  <2>1. ~atomic /\ dmem.op # "CMPXCHG"
    BY <1>4, FetchOpsOK DEF atomic, AtomicOps
  <2>2. mem_we(DATA_granted, old_word) /\ ~DMEM_do_read(DATA_granted)
    BY <1>4, <2>1 DEF mem_we, DMEM_do_write, DMEM_do_read
  <2>3. mem' = [HostMem EXCEPT ![dmem.word] =
                  WriteWord(@, dmem.wea, DATAIF_dina(old_word))]
    BY <2>2, OneAfterTheOther DEF CoreMem, DATAIF_ena, DATAIF_wea
  <2>4. core_read' = core_read
    BY <1>2, <1>3, <2>1, <2>2, CoreOutputKept DEF core_read, old_word
  <2>5. Abs!CoreStore(HostMem)
    BY <1>1, <1>2, <2>3, <2>4, OldWordType, AbsNames DEF Abs!CoreStore
  <2> QED
    BY <2>5 DEF Abs!CoreStep
<1>5. CASE dmem.op # "write"
  <2>1. DMEM_do_read(DATA_granted) /\ ~mem_we(DATA_granted, old_word)
    BY <1>2, <1>5 DEF DMEM_do_read, mem_we, DMEM_do_write, modify_write
  <2>2. mem' = HostMem
    <3>1. mem' = [HostMem EXCEPT ![dmem.word] = WriteWord(@, {}, DATAIF_dina(old_word))]
      BY <2>1, OneAfterTheOther DEF CoreMem, DATAIF_ena, DATAIF_wea
    <3> QED
      BY <1>1, <3>1, EmptyWrite
  <2>3. CASE atomic
    <3>1. core_read' = {}
      BY <1>3, <2>3 DEF core_read
    <3> QED
      BY <1>2, <2>2, <3>1 DEF Abs!BeginAtomic, Abs!CoreStep
  <2>4. CASE ~atomic
    <3>1. core_read' = {HostMem[dmem.word]}
      BY <1>3, <2>1, <2>4, CoreOutputRead DEF core_read, old_word
    <3> QED
      BY <1>1, <1>2, <2>2, <3>1, AbsNames DEF Abs!CoreLoad, Abs!CoreStep
  <2> QED
    BY <2>3, <2>4
<1> QED
  BY <1>4, <1>5

(* The second cycle of an atomic operation is the whole of it: the word    *)
(* its first cycle read is the one it replaces.                            *)
LEMMA AtomicCore ==
  ASSUME RInv, Next, modify_write
  PROVE  Abs!Atomic(HostMem)
<1>1. /\ dmem.word \in MemWords /\ HostMem[dmem.word] = mem[dmem.word]
      /\ HostMem \in [MemWords -> Word]
  BY ActiveCore, HostMemType
<1>2. old_word = HostMem[dmem.word]
  <2>1. /\ ~read_value.use_saved /\ read_from_shared = is_mem_shared
        /\ douta[DATAIF_bank] = mem[dmem.word]
    BY DEF RInv, IInv, ModifyInv, modify_write
  <2> QED
    BY <1>1, <2>1 DEF old_word, saved_dout, DelayedOutput, DATAIF_douta, DATAIF_bank
<1>3. core_read = {} /\ dmem.op \in AtomicOps
  BY DEF core_read, modify_write, RInv, IInv, ModifyInv
<1>4. core_read' = {HostMem[dmem.word]}
  <2>1. datamem_state' = "INIT_S"
    BY DEF Next, DmStep, AccessError, ServeOrWait, StartModify, FinishModify, StuckInError,
           serve, modify_write
  <2>2. ~DMEM_do_read(DATA_granted)
    BY DEF DMEM_do_read, serve, modify_write
  <2> QED
    BY <1>2, <2>1, <2>2, CoreOutputKept DEF core_read, old_word
<1>5. \/ \E op \in FetchOps :
           mem' = [HostMem EXCEPT ![dmem.word] =
                     WriteWord(@, dmem.wea, ALU(op, HostMem[dmem.word], operand_B))]
      \/ mem' = [HostMem EXCEPT ![dmem.word] = WriteWord(@, dmem.wea, operand_B)]
      \/ mem' = HostMem
  <2>1. CASE mem_we(DATA_granted, old_word)
    <3>1. mem' = [HostMem EXCEPT ![dmem.word] =
                    WriteWord(@, dmem.wea, DATAIF_dina(old_word))]
      BY <2>1, OneAfterTheOther DEF CoreMem, DATAIF_ena, DATAIF_wea
    <3>2. CASE dmem.op \in FetchOps
      <4>1. DATAIF_dina(old_word) = ALU(dmem.op, HostMem[dmem.word], operand_B)
        BY <1>2, <3>2 DEF DATAIF_dina
      <4> QED
        BY <3>1, <3>2, <4>1
    <3>3. CASE dmem.op \notin FetchOps
      BY <3>1, <3>3 DEF DATAIF_dina
    <3> QED
      BY <3>2, <3>3
  <2>2. CASE ~mem_we(DATA_granted, old_word)
    BY <2>2, OneAfterTheOther DEF CoreMem, DATAIF_ena, DMEM_do_read, serve, modify_write
  <2> QED
    BY <2>1, <2>2
<1>6. \E w \in MemWords, wea \in SUBSET Half, d \in Word :
        /\ core_read' = {HostMem[w]}
        /\ \/ \E op \in FetchOps : mem' = Abs!Store(HostMem, w, wea, ALU(op, HostMem[w], d))
           \/ mem' = Abs!Store(HostMem, w, wea, d)
           \/ mem' = HostMem
  <2> dmem.word \in MemWords /\ dmem.wea \in SUBSET Half /\ operand_B \in Word
    BY <1>1, OldWordType
  <2> WITNESS dmem.word \in MemWords, dmem.wea \in SUBSET Half, operand_B \in Word
  <2> QED
    BY <1>4, <1>5, AbsNames
<1> QED
  BY <1>3, <1>6, AbsNames DEF Abs!Atomic

(* Every cycle is one step of the abstract core, on the memory that the    *)
(* host's step has left.                                                   *)
LEMMA CoreRefines ==
  ASSUME RInv, Next
  PROVE  Abs!CoreStep(HostMem)
  BY IdleCore, ServedCore, AtomicCore DEF Abs!CoreStep
-----------------------------------------------------------------------------
(***************************************************************************)
(* The host's part of a cycle.                                             *)
(***************************************************************************)
LEMMA IdlePort ==
  ASSUME ~do_read(AXIC_granted), ~do_write(AXIC_granted)
  PROVE  ~axic_enabled /\ HostMem = mem
  BY DEF axic_enabled, mem_en, HostMem

(* Where the host's port does not write it changes nothing.                *)
LEMMA ReadPort ==
  ASSUME RInv, ~do_write(AXIC_granted)
  PROVE  HostMem = mem
<1>1. HostMem = IF axic_enabled THEN [mem EXCEPT ![AXIC_addra] = WriteWord(@, {}, AXIC_dina)]
                ELSE mem
  BY DEF HostMem, AXIC_wea
<1>2. mem \in [MemWords -> Word]
  BY DEF RInv, IInv, TypeOK
<1> QED
  BY <1>1, <1>2, EmptyWrite

(* A cycle in which the controller waits, for the host or for a grant.     *)
LEMMA AwaitingHost ==
  ASSUME RInv, Next, Await(AXIC_granted)
  PROVE  Abs!HostIdle(HostMem)
<1> DEFINE g == AXIC_granted
<1>1. ~do_read(g) /\ ~do_write(g) /\ ~update_buffer_state(g)
  BY DEF Await, do_read, do_write, update_buffer_state, Perform, FlushFirst, flush_n_read,
         flush_n_write, axi_read_req, axi_write_req
<1>2. /\ axi_state' = axi_state /\ axi_state # "READ_S"
      /\ buff_state' = buff_state /\ buff_addra' = buff_addra
      /\ shared_wr_buff' = shared_wr_buff
  BY <1>1, BufferKept DEF Await, req_state, from_saved_ch
<1>3. pending' = pending
  BY <1>2 DEF pending, storing, from_saved_ch
<1>4. kept' = kept
  <2>1. shared_rd_buff_out(AXIC_douta)' = shared_rd_buff_out(AXIC_douta)
    BY <1>1, OutputKept DEF RInv, IInv
  <2> QED
    BY <1>2, <2>1 DEF kept, loading
<1>5. delivered' = delivered
  BY <1>2 DEF delivered
<1> QED
  BY <1>1, <1>3, <1>4, <1>5, IdlePort DEF Abs!HostIdle

(* The host takes the response, or leaves it.                              *)
LEMMA RespondingHost ==
  ASSUME RInv, Next, Respond
  PROVE  Abs!HostIdle(HostMem) \/ Abs!TakeResponse(HostMem)
<1> DEFINE g == AXIC_granted
<1>1. ~do_read(g) /\ ~do_write(g) /\ ~update_buffer_state(g)
  BY DEF Respond, do_read, do_write, update_buffer_state, Perform, FlushFirst
<1>2. /\ axi_state \in {"READ_S", "WRITE_S"} /\ axi_state' \in {"INIT_S", axi_state}
      /\ buff_state' = buff_state /\ buff_addra' = buff_addra
      /\ shared_wr_buff' = shared_wr_buff
  BY <1>1, BufferKept DEF Respond
<1>3. pending' = pending
  BY <1>2 DEF pending, storing, from_saved_ch
<1>4. shared_rd_buff_out(AXIC_douta)' = shared_rd_buff_out(AXIC_douta)
  BY <1>1, OutputKept DEF RInv, IInv
<1>5. kept' = kept
  BY <1>2, <1>4 DEF kept, loading
<1>6. CASE axi_state' = axi_state
  <2>1. delivered' = delivered
    BY <1>2, <1>4, <1>6 DEF delivered, rdata
  <2> QED
    BY <1>1, <1>3, <1>5, <2>1, IdlePort DEF Abs!HostIdle
<1>7. CASE axi_state' = "INIT_S"
  <2>1. delivered' = {}
    BY <1>7 DEF delivered
  <2> QED
    BY <1>1, <1>3, <1>5, <2>1, IdlePort DEF Abs!HostIdle, Abs!TakeResponse
<1> QED
  BY <1>2, <1>6, <1>7

(* Of the data the port drives, a store of a half takes that half.         *)
LEMMA WriteHalf ==
  ASSUME NEW old, NEW h, NEW din, NEW d, din[h] = d
  PROVE  WriteWord(old, {h}, din) = WriteWord(old, {h}, Abs!Both(d))
  BY DEF WriteWord, Abs!Both, Abs!Half, Half

(* The buffered store goes before the access that forces it out.           *)
LEMMA FlushingHost ==
  ASSUME RInv, Next, FlushFirst(AXIC_granted), from_saved_ch'
  PROVE  Abs!FlushStore(HostMem)
<1>1. /\ storing /\ axi_state = "INIT_S" /\ ~from_saved_ch
      /\ addra.mem = "shared" /\ ~shared_flush
  BY FlushedAccessShared DEF RInv
<1>2. /\ ~update_buffer_state(AXIC_granted) /\ do_write(AXIC_granted)
      /\ wr_shared_from_buffer /\ axi_req
  BY <1>1 DEF FlushFirst, update_buffer_state, Perform, do_write, wr_shared_from_buffer,
              flush_n_read, flush_n_write, axi_req
<1>3. axic_enabled
  BY <1>1, <1>2 DEF axic_enabled, mem_en, is_mem, no_mem_access, is_mem_access, Bank
<1>4. HostMem = Abs!Store(mem, buff_addra.word, {buff_addra.half}, Abs!Both(shared_wr_buff))
  <2>1. buff_addra.half \in Half
    BY AddressHalf DEF RInv, IInv, TypeOK, AxiTypeOK
  <2>2. AXIC_dina[buff_addra.half] = shared_wr_buff
    BY <1>2, <2>1 DEF AXIC_dina, Other, Half
  <2>3. HostMem = [mem EXCEPT ![buff_addra.word] =
                     WriteWord(@, {buff_addra.half}, AXIC_dina)]
    BY <1>2, <1>3 DEF HostMem, AXIC_addra, AXIC_wea
  <2>4. WriteWord(mem[buff_addra.word], {buff_addra.half}, AXIC_dina)
        = WriteWord(mem[buff_addra.word], {buff_addra.half}, Abs!Both(shared_wr_buff))
    BY <2>2, WriteHalf
  <2> QED
    BY <2>3, <2>4, AbsNames
<1>5. pending = {[word |-> buff_addra.word, half |-> buff_addra.half, val |-> shared_wr_buff]}
  BY <1>1 DEF pending
<1>6. pending' = {}
  BY DEF pending
<1>7. kept = {} /\ kept' = {}
  <2>1. buff_state' = buff_state
    BY <1>2, BufferKept
  <2> QED
    BY <1>1, <2>1 DEF kept, loading, storing
<1>8. delivered = {} /\ delivered' = {}
  BY <1>1 DEF delivered, from_saved_ch
<1> QED
  BY <1>4, <1>5, <1>6, <1>7, <1>8 DEF Abs!FlushStore

(* A read starts: no store is pending, and none will be.                   *)
LEMMA ReadStarts ==
  ASSUME RInv, Next, StartRead(AXIC_granted)
  PROVE  /\ axi_req /\ ~axi_write_req
         /\ axi_state = "INIT_S" => axi_read_req
         /\ update_buffer_state(AXIC_granted) /\ ~do_write(AXIC_granted)
         /\ ~wr_shared_from_buffer
         /\ buff_addra' = addra /\ axi_state' = "READ_S"
         /\ pending = {} /\ pending' = {} /\ delivered = {}
<1> DEFINE g == AXIC_granted
<1>1. /\ go(g) /\ axi_state' = "READ_S"
      /\ \/ axi_state = "INIT_S" /\ axi.op = "read" /\ ~(flush_n_read \/ flush_n_write)
         \/ axi_state = "FLUSH_N_READ_S" /\ axi.op = "none"
  BY DEF StartRead, do_read, Perform, RInv, SequenceInv
<1>2. /\ axi_req /\ ~axi_write_req /\ (axi_state = "INIT_S" => axi_read_req)
      /\ update_buffer_state(g) /\ ~do_write(g) /\ do_read(g) /\ ~wr_shared_from_buffer
  BY <1>1 DEF axi_req, axi_write_req, axi_read_req, from_saved_ch, update_buffer_state,
              do_write, do_read, FlushFirst, Perform, wr_shared_from_buffer, flush_n_read,
              flush_n_write, shared_flush
<1>3. buff_addra' = addra
  BY <1>2 DEF Next, AxiStep, Registers
<1>4. pending = {}
  BY <1>1, <1>2 DEF pending, flush_n_read, from_saved_ch
<1>5. pending' = {}
  <2>1. ~storing'
    BY <1>2, StoreBuffered DEF RInv, IInv
  <2> QED
    BY <2>1 DEF pending
<1> QED
  BY <1>1, <1>2, <1>3, <1>4, <1>5 DEF delivered

(* The read of the half that was kept.                                     *)
LEMMA PairRead ==
  ASSUME RInv, Next, StartRead(AXIC_granted), rd_pair
  PROVE  Abs!LoadPair(HostMem)
<1> DEFINE g == AXIC_granted
<1>1. /\ loading /\ axi_read_req /\ axi_state = "INIT_S"
      /\ addra.mem = "shared" /\ addra.half = Other(buff_addra.half)
  BY DEF rd_pair, rd_shared, is_mem, RInv, SequenceInv, LoadInv, axi_read_req
<1>2. /\ update_buffer_state(g) /\ ~do_write(g) /\ ~axi_write_req
      /\ buff_addra' = addra /\ axi_state' = "READ_S"
      /\ pending = {} /\ pending' = {}
  BY ReadStarts
<1>3. shared_rd_buff_out(AXIC_douta)' = shared_rd_buff_out(AXIC_douta)
  <2>1. no_mem_access(g)
    BY <1>2 DEF no_mem_access
  <2> QED
    BY <2>1, OutputKept DEF RInv, IInv
<1>4. delivered' = {shared_rd_buff_out(AXIC_douta)[Other(buff_addra.half)]}
  BY <1>1, <1>2, <1>3 DEF delivered, rdata, Bank
<1>5. kept' = {}
  <2>1. ~loading'
    BY <1>2, HalfKept DEF RInv
  <2> QED
    BY <2>1 DEF kept
<1>6. \E s \in kept : delivered' = {s.val}
  BY <1>1, <1>4 DEF kept
<1> QED
  BY <1>2, <1>5, <1>6, ReadPort DEF Abs!LoadPair

(* A read of a word of a memory: it is on the port's output one cycle      *)
(* later, and that output is taken from the bank that was read.            *)
LEMMA MemoryRead ==
  ASSUME RInv, Next, StartRead(AXIC_granted), ~rd_pair, addra.mem \in Bank
  PROVE  Abs!HostLoad(HostMem)
<1> DEFINE g == AXIC_granted
           w == addra.word
           h == addra.half
<1>1. /\ axi_req /\ ~axi_write_req /\ (axi_state = "INIT_S" => axi_read_req)
      /\ update_buffer_state(g) /\ ~do_write(g) /\ ~wr_shared_from_buffer
      /\ buff_addra' = addra /\ axi_state' = "READ_S"
      /\ pending = {} /\ pending' = {}
  BY ReadStarts
<1>2. do_read(g) /\ ~no_mem_access(g)
  BY <1>1 DEF StartRead, no_mem_access, wr_shared
<1>3. axic_enabled
  <2>1. ~from_saved_ch => addra = axi.addr
    BY DEF addra
  <2>2. addra.mem \in {"inst", "unshared"} => core_stopped
    <3>1. from_saved_ch => addra.mem = "shared"
      BY DEF addra, RInv, BufferInv, HostInv
    <3> QED
      BY <2>1, <3>1 DEF RInv, SequenceInv, TouchesCoreMemory
  <2> QED
    BY <1>1, <1>2, <2>2 DEF axic_enabled, mem_en, is_mem, is_mem_access
<1>4. /\ w \in MemWords /\ h \in Half /\ AXIC_addra = w /\ AXIC_bank(TRUE) = addra.mem
  <2>1. AXIC_bank(TRUE) = addra.mem /\ AXIC_addra = w
    BY <1>1, <1>3, HostPort DEF AXIC_addra
  <2>2. w \in BankWords[addra.mem] /\ h \in Half
    BY ChannelType, AddressHalf, MemAddressWord DEF RInv, IInv, TypeOK
  <2> QED
    BY <2>1, <2>2 DEF Bank, BankWords, MemWords
<1>5. shared_rd_buff_out(AXIC_douta)' = mem[w]
  <2>1. ~shared_rd_buff'.use_saved
    BY <1>2 DEF Next, AxiStep, Registers, DelayedNext
  <2>2. ~axic_enabled'
    BY <1>1 DEF axic_enabled, mem_en, do_read, do_write, Perform, FlushFirst
  <2>3. AXIC_bank(axic_enabled)' = addra.mem
    BY <1>1, <2>2 DEF AXIC_bank, Bank
  <2>4. AXIC_douta' = mem[w]
    BY <1>3, <1>4, <2>3, OneAfterTheOther DEF AXIC_douta
  <2> QED
    BY <2>1, <2>4 DEF shared_rd_buff_out, DelayedOutput
<1>6. delivered' = {mem[w][h]}
  BY <1>1, <1>5 DEF delivered, rdata
<1>7. kept' \in {{}, {Abs!OneHalf(w, Other(h), mem[w][Other(h)])}}
  BY <1>1, <1>5 DEF kept, Abs!OneHalf
<1> HIDE DEF w, h
<1> QED
  BY <1>1, <1>4, <1>6, <1>7, ReadPort, AbsNames DEF Abs!HostLoad

(* A read of a register is an access that leaves the memory alone.         *)
LEMMA RegisterRead ==
  ASSUME RInv, Next, StartRead(AXIC_granted), addra.mem \notin Bank
  PROVE  Abs!OtherAccess(HostMem)
<1>1. /\ update_buffer_state(AXIC_granted) /\ ~do_write(AXIC_granted)
      /\ buff_addra' = addra /\ pending = {} /\ pending' = {} /\ delivered = {}
  BY ReadStarts
<1>2. ~loading'
  BY <1>1, HalfKept DEF RInv, Bank
<1>3. delivered' = {} /\ kept' = {}
  BY <1>1, <1>2 DEF delivered, kept
<1> QED
  BY <1>1, <1>3, ReadPort DEF Abs!OtherAccess

(* A write starts: whatever the host kept for a pair of loads is dropped,  *)
(* and a store that is pending is flushed or completed by it.              *)
LEMMA WriteStarts ==
  ASSUME RInv, Next, StartWrite(AXIC_granted)
  PROVE  /\ axi_req /\ ~axi_read_req
         /\ axi_state = "INIT_S" => axi_write_req
         /\ update_buffer_state(AXIC_granted) /\ do_write(AXIC_granted)
         /\ wr_shared_from_buffer <=> shared_flush
         /\ kept' = {} /\ delivered' = delivered
         /\ pending # {} => storing /\ (shared_flush \/ wr_pair)
         /\ ~wr_save_shared(AXIC_granted) => pending' = {}
<1> DEFINE g == AXIC_granted
<1>1. /\ go(g) /\ axi_state' = "WRITE_S"
      /\ \/ axi_state = "INIT_S" /\ axi.op = "write" /\ ~(flush_n_read \/ flush_n_write)
         \/ axi_state = "FLUSH_N_WRITE_S" /\ axi.op = "none"
  BY DEF StartWrite, Perform, RInv, SequenceInv
<1>2. /\ axi_req /\ ~axi_read_req /\ (axi_state = "INIT_S" => axi_write_req)
      /\ update_buffer_state(g) /\ do_write(g)
      /\ wr_shared_from_buffer <=> shared_flush
  BY <1>1 DEF axi_req, axi_write_req, axi_read_req, from_saved_ch, update_buffer_state,
              do_write, Perform, wr_shared_from_buffer, flush_n_read, flush_n_write
<1>3. kept' = {}
  BY <1>2, HalfKept DEF RInv, kept
<1>4. pending # {} => storing /\ (shared_flush \/ wr_pair)
  BY <1>1, <1>2 DEF pending, flush_n_write, from_saved_ch
<1>5. ~wr_save_shared(g) => pending' = {}
  BY <1>2, StoreBuffered DEF RInv, IInv, pending
<1> QED
  BY <1>1, <1>2, <1>3, <1>4, <1>5 DEF delivered

(* A write that finds a store in the buffer, and is live: the store is     *)
(* pending, and no half is kept.                                           *)
LEMMA PendingStore ==
  ASSUME RInv, storing, axi_write_req
  PROVE  /\ ~from_saved_ch /\ kept = {}
         /\ buff_addra.half \in Half
         /\ pending = {[word |-> buff_addra.word, half |-> buff_addra.half,
                        val |-> shared_wr_buff]}
<1>1. ~from_saved_ch
  BY DEF RInv, SequenceInv, from_saved_ch, axi_write_req
<1>2. buff_addra.half \in Half
  BY AddressHalf DEF RInv, IInv, TypeOK, AxiTypeOK
<1> QED
  BY <1>1, <1>2 DEF pending, kept, storing, loading

(* A write to the flush address.                                           *)
LEMMA BufferFlushed ==
  ASSUME RInv, Next, StartWrite(AXIC_granted), storing, shared_flush
  PROVE  Abs!FlushStore(HostMem)
<1> DEFINE g == AXIC_granted
<1>1. addra.mem = "flush" /\ axi_write_req
  BY DEF shared_flush
<1>2. /\ axi_req /\ update_buffer_state(g) /\ do_write(g) /\ wr_shared_from_buffer
      /\ kept' = {} /\ delivered' = delivered
  BY WriteStarts
<1>3. ~wr_save_shared(g) /\ axic_enabled
  BY <1>1, <1>2 DEF wr_save_shared, wr_shared, is_mem, axic_enabled, mem_en, no_mem_access,
     rd_pair, rd_shared, is_mem_access, effective_shared_flush
<1>4. pending' = {}
  BY <1>3, WriteStarts
<1>5. HostMem = Abs!Store(mem, buff_addra.word, {buff_addra.half}, Abs!Both(shared_wr_buff))
  <2>1. HostMem = [mem EXCEPT ![buff_addra.word] =
                     WriteWord(@, {buff_addra.half}, AXIC_dina)]
    BY <1>2, <1>3 DEF HostMem, AXIC_addra, AXIC_wea
  <2>2. AXIC_dina[buff_addra.half] = shared_wr_buff
    BY <1>1, <1>2, PendingStore DEF AXIC_dina, Other, Half
  <2>3. WriteWord(mem[buff_addra.word], {buff_addra.half}, AXIC_dina)
        = WriteWord(mem[buff_addra.word], {buff_addra.half}, Abs!Both(shared_wr_buff))
    BY <2>2, WriteHalf
  <2> QED
    BY <2>1, <2>3, AbsNames
<1>6. /\ kept = {}
      /\ pending = {[word |-> buff_addra.word, half |-> buff_addra.half,
                     val |-> shared_wr_buff]}
  BY <1>1, PendingStore
<1> QED
  BY <1>2, <1>4, <1>5, <1>6 DEF Abs!FlushStore

(* The second store of a pair writes both halves.                          *)
LEMMA PairWritten ==
  ASSUME RInv, Next, StartWrite(AXIC_granted), wr_pair
  PROVE  Abs!StorePair(HostMem)
<1> DEFINE g == AXIC_granted
<1>1. /\ storing /\ axi_write_req /\ addra.mem = "shared" /\ wstrb = "full"
      /\ addra.half = Other(buff_addra.half) /\ addra.word = buff_addra.word
  BY DEF wr_pair, wr_shared, is_mem, wr_32b, same_addra, RInv, BufferInv
<1>2. /\ axi_req /\ update_buffer_state(g) /\ do_write(g) /\ ~wr_shared_from_buffer
      /\ kept' = {} /\ delivered' = delivered
  BY <1>1, WriteStarts DEF shared_flush
<1>3. ~wr_save_shared(g) /\ axic_enabled
  BY <1>1, <1>2 DEF wr_save_shared, is_mem, axic_enabled, mem_en, no_mem_access,
     rd_pair, loading, storing, is_mem_access, Bank
<1>4. pending' = {}
  BY <1>3, WriteStarts
<1>5. PICK h \in Half : h = buff_addra.half
  BY <1>1, PendingStore
<1>6. HostMem = [mem EXCEPT ![buff_addra.word] =
                   [i \in Half |-> IF i = h THEN shared_wr_buff ELSE wdata]]
  <2>1. AXIC_wea(g) = Half
    BY <1>1, <1>2 DEF AXIC_wea, write_64b
  <2>2. AXIC_dina = [i \in Half |-> IF i = h THEN shared_wr_buff ELSE wdata]
    <3>1. \A i \in Half : i = addra.half <=> i # h
      BY <1>1, <1>5 DEF Other, Half
    <3> QED
      BY <1>2, <3>1 DEF AXIC_dina
  <2>3. \A old : WriteWord(old, Half, AXIC_dina) = AXIC_dina
    BY <2>2 DEF WriteWord
  <2> QED
    BY <1>1, <1>2, <1>3, <2>1, <2>2, <2>3 DEF HostMem, AXIC_addra
<1>7. wdata \in Val
  BY ChannelType DEF RInv, IInv, TypeOK
<1>8. /\ kept = {}
      /\ pending = {[word |-> buff_addra.word, half |-> h, val |-> shared_wr_buff]}
  BY <1>1, <1>5, PendingStore
<1>9. \E p \in pending, d \in Val :
        HostMem = [mem EXCEPT ![p.word] = [i \in Half |-> IF i = p.half THEN p.val ELSE d]]
  <2> DEFINE p == [word |-> buff_addra.word, half |-> h, val |-> shared_wr_buff]
  <2> p \in pending /\ wdata \in Val
    BY <1>7, <1>8
  <2> WITNESS p \in pending, wdata \in Val
  <2> QED
    BY <1>6
<1> QED
  BY <1>2, <1>4, <1>8, <1>9, AbsNames DEF Abs!StorePair

(* The first store of a pair does not reach the memory.                    *)
LEMMA StoreHeld ==
  ASSUME RInv, Next, StartWrite(AXIC_granted), ~wr_pair, NEW h \in Half, wr_shared(h)
  PROVE  Abs!BufferStore(HostMem)
<1> DEFINE g == AXIC_granted
<1>1. /\ axi_write_req /\ addra.mem = "shared" /\ ~shared_flush
  BY DEF wr_shared, is_mem, shared_flush
<1>2. /\ update_buffer_state(g) /\ kept' = {} /\ delivered' = delivered /\ pending = {}
  BY <1>1, WriteStarts
<1>3. ~storing
  BY <1>1, <1>2, PendingStore
<1>4. no_mem_access(g) /\ wr_save_shared(g)
  BY <1>2, <1>3 DEF no_mem_access, wr_save_shared
<1>5. HostMem = mem
  BY <1>4 DEF HostMem, axic_enabled, mem_en
<1>6. /\ buff_state' = STORE_S(addra.half) /\ buff_addra' = addra /\ shared_wr_buff' = wdata
      /\ axi_state' = "WRITE_S"
  BY <1>2, <1>4 DEF Next, AxiStep, Registers, buff_next_state, StartWrite
<1>7. pending' = {Abs!OneHalf(addra.word, addra.half, wdata)}
  BY <1>6 DEF pending, storing, STORE_S, from_saved_ch, Abs!OneHalf
<1>8. addra.word \in SharedWords /\ addra.half \in Half /\ wdata \in Val
  BY <1>1, ChannelType, AddressHalf, SharedAddress DEF RInv, IInv, TypeOK
<1> QED
  BY <1>2, <1>5, <1>7, <1>8, AbsNames DEF Abs!BufferStore

(* Any other write goes to the memory at once, or to no memory at all.     *)
LEMMA OtherWrite ==
  ASSUME RInv, Next, StartWrite(AXIC_granted),
         ~(storing /\ shared_flush), ~wr_pair, \A h \in Half : ~wr_shared(h)
  PROVE  Abs!HostStore(HostMem)
<1> DEFINE g == AXIC_granted
           w == addra.word
           h == addra.half
<1>1. /\ kept' = {} /\ delivered' = delivered /\ pending = {} /\ do_write(g)
  BY WriteStarts
<1>2. ~wr_save_shared(g)
  BY DEF wr_save_shared
<1>3. pending' = {}
  BY <1>2, WriteStarts
<1>4. h \in Half /\ wdata \in Val
  BY ChannelType, AddressHalf DEF RInv, IInv, TypeOK
<1>5. CASE axic_enabled
  <2>1. ~wr_shared_from_buffer
    <3>1. is_mem_access
      BY <1>5 DEF axic_enabled, mem_en
    <3> QED
      BY <3>1, WriteStarts DEF is_mem_access, effective_shared_flush, shared_flush, Bank
  <2>2. w \in MemWords /\ AXIC_addra = w
    <3>1. AXIC_addra \in BankWords[AXIC_bank(TRUE)] /\ AXIC_bank(TRUE) \in Bank
      BY <1>5, HostPort
    <3>2. AXIC_addra = w
      BY <2>1 DEF AXIC_addra
    <3> QED
      BY <3>1, <3>2 DEF Bank, BankWords, MemWords
  <2>3. AXIC_wea(g) = IF wstrb # "none" THEN {h} ELSE {}
    BY <1>1, <1>4, <2>1 DEF AXIC_wea, write_64b
  <2>4. HostMem = [mem EXCEPT ![w] = WriteWord(@, AXIC_wea(g), AXIC_dina)]
    BY <1>5, <2>2 DEF HostMem
  <2>5. HostMem = mem \/ HostMem = Abs!Store(mem, w, {h}, Abs!Both(wdata))
    <3>1. CASE wstrb = "none"
      <4>1. mem \in [MemWords -> Word]
        BY DEF RInv, IInv, TypeOK
      <4> QED
        BY <2>3, <2>4, <3>1, <4>1, EmptyWrite
    <3>2. CASE wstrb # "none"
      <4>1. AXIC_dina[h] = wdata
        BY <1>4, <2>1 DEF AXIC_dina
      <4>2. WriteWord(mem[w], {h}, AXIC_dina) = WriteWord(mem[w], {h}, Abs!Both(wdata))
        BY <4>1, WriteHalf
      <4> QED
        BY <2>3, <2>4, <3>2, <4>2, AbsNames
    <3> QED
      BY <3>1, <3>2
  <2> HIDE DEF w, h
  <2> QED
    BY <1>1, <1>3, <1>4, <2>2, <2>5, AbsNames DEF Abs!HostStore
<1>6. CASE ~axic_enabled
  BY <1>1, <1>3, <1>6 DEF HostMem, Abs!HostStore
<1> QED
  BY <1>5, <1>6

(* Every cycle is, before that, one step of the abstract host.             *)
LEMMA HostRefines ==
  ASSUME RInv, Next
  PROVE  Abs!HostStep(HostMem)
<1> DEFINE g == AXIC_granted
<1>1. CASE Await(g)
  BY <1>1, AwaitingHost DEF Abs!HostStep
<1>2. CASE FlushForRead(g) \/ FlushForWrite(g)
  BY <1>2, FlushingHost DEF FlushForRead, FlushForWrite, from_saved_ch, Abs!HostStep
<1>3. CASE StartRead(g)
  <2>1. rd_pair => addra.mem \in Bank
    BY DEF rd_pair, rd_shared, is_mem, Bank
  <2> QED
    BY <1>3, PairRead, MemoryRead, RegisterRead DEF Abs!HostStep
<1>4. CASE StartWrite(g)
  BY <1>4, BufferFlushed, PairWritten, StoreHeld, OtherWrite DEF Abs!HostStep
<1>5. CASE Respond
  BY <1>5, RespondingHost DEF Abs!HostStep
<1> QED
  BY <1>1, <1>2, <1>3, <1>4, <1>5 DEF Next, AxiStep
-----------------------------------------------------------------------------
(* The memory between the two is one of those the abstract host can leave. *)
LEMMA HostMemIsResult == ASSUME RInv PROVE HostMem \in Abs!HostResults
<1>1. CASE axic_enabled
  <2>1. AXIC_addra \in MemWords
    BY <1>1, HostPort DEF Bank, BankWords, MemWords
  <2>2. AXIC_dina \in Word
    BY AxicDinaType DEF RInv, IInv, TypeOK
  <2>3. AXIC_wea(AXIC_granted) \in SUBSET Half
    <3>1. buff_addra.half \in Half
      BY AddressHalf DEF RInv, IInv, TypeOK, AxiTypeOK
    <3> QED
      BY <3>1 DEF AXIC_wea
  <2>4. HostMem = Abs!Store(mem, AXIC_addra, AXIC_wea(AXIC_granted), AXIC_dina)
    BY <1>1, AbsNames DEF HostMem
  <2> QED
    BY <2>1, <2>2, <2>3, <2>4, AbsNames DEF Abs!HostResults
<1>2. CASE ~axic_enabled
  BY <1>2 DEF HostMem, Abs!HostResults
<1> QED
  BY <1>1, <1>2

(* The two start in the same state.                                        *)
LEMMA AbsInit == Init => Abs!Init
  BY AbsNames DEF Init, AxiInit, DmInit, Abs!Init, pending, kept, delivered, core_read,
     storing, loading, EMPTY_S, saved_dout, DelayedOutput, DelayedReset, DATAIF_douta, Bank

(* Every cycle is a step of AtomicMemory, or none.                         *)
LEMMA AbsStep == RInv /\ [Next]_vars => [Abs!Next]_(Abs!vars)
<1> SUFFICES ASSUME RInv, [Next]_vars PROVE [Abs!Next]_(Abs!vars)
  OBVIOUS
<1>1. CASE Next
  BY <1>1, HostRefines, CoreRefines, HostMemIsResult DEF Abs!Next
<1>2. CASE UNCHANGED vars
  <2>1. pending' = pending /\ core_read' = core_read
    BY <1>2 DEF vars, axiVars, dmVars, busVars, pending, storing, from_saved_ch, core_read,
                saved_dout, DelayedOutput, DATAIF_douta
  <2>2. ASSUME axi_state = "READ_S" PROVE AXIC_douta' = AXIC_douta
    <3>1. ~axic_enabled /\ ~axic_enabled'
      BY <1>2, <2>2 DEF vars, axiVars, axic_enabled, mem_en, do_read, do_write, Perform,
                        FlushFirst
    <3> QED
      BY <1>2, <3>1 DEF vars, axiVars, busVars, AXIC_douta, AXIC_bank
  <2>3. kept' = kept
    BY <1>2, <2>2 DEF vars, axiVars, kept, loading, shared_rd_buff_out, DelayedOutput, RInv,
                      SequenceInv, LoadInv
  <2>4. delivered' = delivered
    BY <1>2, <2>2 DEF vars, axiVars, delivered, rdata, shared_rd_buff_out, DelayedOutput
  <2> QED
    BY <1>2, <2>1, <2>3, <2>4 DEF vars, busVars, Abs!vars
<1> QED
  BY <1>1, <1>2

(* The memory system is a memory.  For a host that flushes first and       *)
(* issues one access at a time, whatever the memories, the words, the      *)
(* accesses and the waits: an atomic operation of the core is one step, so *)
(* is a pair of stores, a pair of loads returns two halves of one value of *)
(* the word, and no access is lost, doubled or seen half done.             *)
THEOREM MemoryIsAtomic ==
  ASSUME OneAccessHost
  PROVE  Spec => AtomicSpec
<1>1. Spec => []RInv
  BY RInvHolds
<1> QED
  BY <1>1, AbsInit, AbsStep, PTL DEF Spec, AtomicSpec, Abs!Spec
=============================================================================
