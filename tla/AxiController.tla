---------------------------- MODULE AxiController ----------------------------
(***************************************************************************)
(* The AXI4-Lite slave of the peripheral (BPF_AXI_Controller.vhd).  One    *)
(* step is one clock cycle.  Signals of the source are operators of the    *)
(* registers and of the inputs of the cycle; a signal that depends on the  *)
(* arbiters' answer takes it as its parameter `granted`.                   *)
(*                                                                         *)
(* A host reaches 64-bit shared words through a 32-bit bus.  To make the   *)
(* two accesses of a pair one access of the memory, the controller buffers *)
(* the first store of a pair and, on the first load, keeps the whole word. *)
(***************************************************************************)
EXTENDS MemoryMap, DelayedRegister

VARIABLES
  axi,             \* what the host drives: [op, addr, data, strb]
  axi_state,       \* AXI handshake FSM
  buff_state,      \* [k, h]: EMPTY_S, STORE_h_S or LOAD_h_S
  buff_addra,      \* address of the last read or buffered store, its flags
  shared_wr_buff,  \* the buffered half of a store
  shared_rd_buff,  \* the word of the last memory read (delayed register)
  sv_ch,           \* the channels saved while a flush goes first
  regs,            \* control registers and map registers
  map_rdata        \* map register captured by the last map read

axiVars == <<axi, axi_state, buff_state, buff_addra, shared_wr_buff,
             shared_rd_buff, sv_ch, regs, map_rdata>>

(***************************************************************************)
(* Strobes, as the representative lane of a half sees them: "full" is      *)
(* 1111, "byte" writes the lane without being 1111, "none" does not write  *)
(* it.                                                                     *)
(***************************************************************************)
Strobe == {"full", "byte", "none"}

AxiRequest == [op : {"none", "read", "write"}, addr : AxiAddress,
               data : Val, strb : Strobe]
SavedChannel == [addr : AxiAddress, data : Val, strb : Strobe]

NoRequest == [op |-> "none", addr |-> NoAddress, data |-> Zero, strb |-> "none"]

AxiState == {"INIT_S", "READ_S", "WRITE_S", "FLUSH_N_READ_S", "FLUSH_N_WRITE_S"}

EMPTY_S    == [k |-> "EMPTY", h |-> 0]
STORE_S(h) == [k |-> "STORE", h |-> h]
LOAD_S(h)  == [k |-> "LOAD",  h |-> h]
BuffState  == {EMPTY_S} \union {STORE_S(h) : h \in Half} \union {LOAD_S(h) : h \in Half}

(***************************************************************************)
(* The access of the cycle: live on the channels, or the saved one.        *)
(***************************************************************************)
axi_read_req  == axi.op = "read"
axi_write_req == axi.op = "write"

from_saved_ch == axi_state \in {"FLUSH_N_READ_S", "FLUSH_N_WRITE_S"}
req_state     == axi_state = "INIT_S" \/ from_saved_ch

axi_req == axi_read_req \/ axi_write_req \/ from_saved_ch

addra == IF from_saved_ch THEN sv_ch.addr ELSE axi.addr
wdata == IF from_saved_ch THEN sv_ch.data ELSE axi.data
wstrb == IF from_saved_ch THEN sv_ch.strb ELSE axi.strb

is_mem(m) == axi_req /\ addra.mem = m

(* A control-page register; the high half of the control register decodes  *)
(* to nothing.                                                             *)
IsReg(a, r) == a.mem = r /\ (r = "ctrl_reg" => a.half = 0)

same_addra == buff_addra.mem = addra.mem /\ buff_addra.word = addra.word

wr_32b == wstrb = "full"

(* A full 32-bit access to half h of a shared word.  The request lines are *)
(* the live ones even when the address is the saved one.                   *)
wr_shared(h) == axi_write_req /\ is_mem("shared") /\ addra.half = h /\ wr_32b
rd_shared(h) == axi_read_req  /\ is_mem("shared") /\ addra.half = h /\ wr_32b

shared_flush == axi_write_req /\ addra.mem = "flush"

storing == buff_state.k = "STORE"
loading == buff_state.k = "LOAD"

(* Fault: the second store of a pair may be of another word.               *)
wr_pair_any_word == storing /\ wr_shared(Other(buff_state.h))

(* The access completes the pair the buffer holds the other half of.       *)
wr_pair == storing /\ wr_shared(Other(buff_state.h)) /\ same_addra
rd_pair == loading /\ rd_shared(Other(buff_state.h)) /\ same_addra

effective_shared_flush == shared_flush /\ storing

is_mem_access == (axi_req /\ addra.mem \in Bank) \/ effective_shared_flush

(***************************************************************************)
(* Arbitration: what needs the shared memory, and what needs the map unit. *)
(***************************************************************************)
no_real_shared_mem_access ==
  \/ rd_pair
  \/ buff_state.k = "EMPTY" /\ \E h \in Half : wr_shared(h)

lock_required == /\ ~no_real_shared_mem_access
                 /\ is_mem("shared") \/ effective_shared_flush

flush_n_read  == storing /\ axi_read_req /\ axi_state = "INIT_S"
flush_n_write == /\ storing /\ axi_write_req /\ axi_state = "INIT_S"
                 /\ ~(shared_flush \/ wr_pair)

ARB_AXIC_request == req_state /\ (flush_n_read \/ flush_n_write \/ lock_required)
AXIC_MAP_req     == req_state /\ is_mem("map")
request          == ARB_AXIC_request \/ AXIC_MAP_req

(***************************************************************************)
(* The handshake FSM (process AXI_CONTROL).  `go` is the request granted,  *)
(* or no grant needed.                                                     *)
(***************************************************************************)
go(granted) == request => granted

FlushFirst(granted) ==
  axi_state = "INIT_S" /\ go(granted) /\ (flush_n_read \/ flush_n_write)

Perform(granted, live_op, saved_state) ==
  /\ go(granted)
  /\ \/ axi_state = "INIT_S" /\ axi.op = live_op /\ ~(flush_n_read \/ flush_n_write)
     \/ axi_state = saved_state

do_read(granted)  == Perform(granted, "read", "FLUSH_N_READ_S")

do_write(granted) == FlushFirst(granted) \/ Perform(granted, "write", "FLUSH_N_WRITE_S")

update_buffer_state(granted) ==
  Perform(granted, "read", "FLUSH_N_READ_S") \/ Perform(granted, "write", "FLUSH_N_WRITE_S")

(* arready, and awready with wready: the host sees its request accepted.   *)
accepted(granted) == axi_state = "INIT_S" /\ axi.op # "none" /\ go(granted)

(***************************************************************************)
(* The buffer FSM (process BUFF_CONTROL).                                  *)
(***************************************************************************)
buff_next_state ==
  IF wr_pair THEN EMPTY_S
  ELSE IF \E h \in Half : wr_shared(h) THEN STORE_S(addra.half)
  ELSE IF rd_pair THEN EMPTY_S
  ELSE IF \E h \in Half : rd_shared(h) THEN LOAD_S(addra.half)
  ELSE EMPTY_S

wr_save_shared(granted) ==
  update_buffer_state(granted) /\ ~wr_pair /\ \E h \in Half : wr_shared(h)

no_mem_access(granted) ==
  /\ update_buffer_state(granted)
  /\ \/ rd_pair
     \/ ~storing /\ \E h \in Half : wr_shared(h)

write_64b(granted) == update_buffer_state(granted) /\ wr_pair

(***************************************************************************)
(* The port the controller drives into the block memories.  While the core *)
(* runs, instruction and unshared memory are not the host's to touch.      *)
(***************************************************************************)
mem_en(granted, core_stopped) ==
  /\ ~((is_mem("inst") \/ is_mem("unshared")) /\ ~core_stopped)
  /\ ~no_mem_access(granted)
  /\ do_read(granted) \/ do_write(granted)
  /\ is_mem_access

wr_shared_from_buffer == flush_n_write \/ flush_n_read \/ shared_flush

AXIC_addra == IF wr_shared_from_buffer THEN buff_addra.word ELSE addra.word

(* The word the buffer and the bus make together: each half from its side. *)
AXIC_dina ==
  LET h == IF wr_shared_from_buffer THEN Other(buff_addra.half) ELSE addra.half
  IN [i \in Half |-> IF i = h THEN wdata ELSE shared_wr_buff]

(* Fault: a flush writes the half on the bus, not the buffered one.        *)
AXIC_wea_bus_half(granted) ==
  IF ~do_write(granted) THEN {}
  ELSE IF wr_shared_from_buffer THEN {addra.half}
  ELSE {h \in Half : \/ h = addra.half /\ wstrb # "none"
                     \/ h # addra.half /\ write_64b(granted)}

AXIC_wea(granted) ==
  IF ~do_write(granted) THEN {}
  ELSE IF wr_shared_from_buffer THEN {buff_addra.half}
  ELSE {h \in Half : \/ h = addra.half /\ wstrb # "none"
                     \/ h # addra.half /\ write_64b(granted)}

(* The bank the port addresses, and the one its output is taken from.      *)
AXIC_bank(enabled) ==
  LET m == IF enabled THEN addra.mem ELSE buff_addra.mem
  IN IF m \in {"inst", "unshared"} THEN m ELSE "shared"

(* The word the host's last memory read delivers.                          *)
shared_rd_buff_out(AXIC_douta) == DelayedOutput(shared_rd_buff, AXIC_douta)

(* rdata, valid in READ_S (BPF_CORE_OUTPUT is not modelled here).          *)
rdata(AXIC_douta) ==
  IF buff_addra.mem \in Bank THEN shared_rd_buff_out(AXIC_douta)[buff_addra.half]
  ELSE IF IsReg(buff_addra, "ctrl_reg") \/ IsReg(buff_addra, "ctrl_input")
       THEN regs[buff_addra.mem][buff_addra.half]
  ELSE map_rdata
-----------------------------------------------------------------------------
AxiTypeOK ==
  /\ axi \in AxiRequest
  /\ axi_state \in AxiState
  /\ buff_state \in BuffState
  /\ buff_addra \in AxiAddress
  /\ shared_wr_buff \in Val
  /\ shared_rd_buff \in DelayedReg(Word)
  /\ sv_ch \in SavedChannel
  /\ regs \in [CtrlRegs -> Word]
  /\ map_rdata \in Val

AxiInit ==
  /\ axi = NoRequest
  /\ axi_state = "INIT_S"
  /\ buff_state = EMPTY_S
  /\ buff_addra = NoAddress
  /\ shared_wr_buff = Zero
  /\ shared_rd_buff = DelayedReset(ZeroWord)
  /\ sv_ch = [addr |-> NoAddress, data |-> Zero, strb |-> "none"]
  /\ regs = [r \in CtrlRegs |-> ZeroWord]
  /\ map_rdata = Zero

(* Registers loaded at every edge, whatever the FSM does.  MAP_id is the   *)
(* map register the map unit is addressed with in this cycle.              *)
Registers(granted, AXIC_douta, MAP_id) ==
  LET reading  == do_read(granted)
      updating == update_buffer_state(granted)
      saving   == wr_save_shared(granted)
      writing  == do_write(granted) /\ axi_req /\ wstrb # "none"
      wr_reg(r, h) ==
        /\ writing /\ IsReg(addra, r)
        /\ IF r = "map" THEN wr_32b /\ h = MAP_id ELSE h = addra.half
  IN /\ buff_state' = IF updating THEN buff_next_state ELSE buff_state
     /\ buff_addra' = IF reading \/ saving THEN addra ELSE buff_addra
     /\ shared_wr_buff' = IF saving THEN wdata ELSE shared_wr_buff
     /\ shared_rd_buff' =
          DelayedNext(shared_rd_buff, reading /\ ~no_mem_access(granted), AXIC_douta)
     /\ sv_ch' = IF FlushFirst(granted)
                 THEN [addr |-> addra, data |-> axi.data, strb |-> axi.strb]
                 ELSE sv_ch
     /\ regs' = [r \in CtrlRegs |->
                   [h \in Half |-> IF wr_reg(r, h) THEN wdata ELSE regs[r][h]]]
     /\ map_rdata' = IF reading /\ is_mem("map") THEN regs["map"][MAP_id] ELSE map_rdata

(* One action per transition of the FSM.                                   *)
Await(granted) ==
  /\ \/ axi_state = "INIT_S" /\ axi.op = "none"
     \/ req_state /\ ~go(granted)
  /\ UNCHANGED axi_state

FlushForRead(granted) ==
  FlushFirst(granted) /\ flush_n_read /\ axi_state' = "FLUSH_N_READ_S"

FlushForWrite(granted) ==
  FlushFirst(granted) /\ flush_n_write /\ axi_state' = "FLUSH_N_WRITE_S"

StartRead(granted)  == do_read(granted) /\ axi_state' = "READ_S"

StartWrite(granted) ==
  Perform(granted, "write", "FLUSH_N_WRITE_S") /\ axi_state' = "WRITE_S"

(* The host takes the response (rready, bready) in this cycle, or not yet. *)
Respond ==
  /\ axi_state \in {"READ_S", "WRITE_S"}
  /\ axi_state' \in {"INIT_S", axi_state}

AxiStep(granted, AXIC_douta, MAP_id) ==
  /\ Registers(granted, AXIC_douta, MAP_id)
  /\ \/ Await(granted)
     \/ FlushForRead(granted)
     \/ FlushForWrite(granted)
     \/ StartRead(granted)
     \/ StartWrite(granted)
     \/ Respond
=============================================================================
