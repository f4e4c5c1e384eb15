-------------------------------- MODULE IoMem --------------------------------
(***************************************************************************)
(* The memory system of the peripheral (BPF_IO_Mem.vhd): the core's data   *)
(* memory interface and the AXI controller in front of three one-port      *)
(* block memories and the map unit, with one arbiter for the shared memory *)
(* and one for the map unit.  One step is one clock cycle of all of it.    *)
(*                                                                         *)
(* The pipeline, the helper functions unit and the host are environments:  *)
(* they hold a request until it is served and then drive any other.        *)
(***************************************************************************)
EXTENDS AxiController, DataMemInterface, BinaryArbiter

CONSTANTS
  HostRequests,    \* the accesses the host issues
  CoreRequests,    \* the accesses the MEM stage issues
  HfuRequests,     \* what the helper unit asks of the map unit
  HostPipelines,   \* the host may drive a request before the last response
  HostFlushes,     \* the host leaves shared memory only after a pending store
                   \*   has been completed or flushed
  RestartsAfterError \* the host restarts the core after an access error

HfuRequest == [req : BOOLEAN, id : Half]
NoHfu == [req |-> FALSE, id |-> 0]

ASSUME RequestsOK ==
  /\ NoHfu \in HfuRequests /\ HfuRequests \subseteq HfuRequest
  /\ HostRequests \subseteq AxiRequest
  /\ CoreRequests \subseteq DmemRequest
  /\ HostPipelines \in BOOLEAN /\ HostFlushes \in BOOLEAN
  /\ RestartsAfterError \in BOOLEAN

VARIABLES
  PRIO,            \* shared memory arbiter
  MAP_PRIO,        \* map unit arbiter
  mem,             \* contents of the block memories
  douta,           \* output of each block memory
  hfu,             \* the helper unit's map request: [req, id]
  core_stopped     \* CORE_sleeping, CORE_exception or CORE_finish

busVars == <<PRIO, MAP_PRIO, mem, douta>>
envVars == <<hfu, core_stopped>>
vars == <<axiVars, dmVars, busVars, envVars>>

(***************************************************************************)
(* Arbitration.                                                            *)
(***************************************************************************)
arbiter_req == [c \in Client |-> IF c = 0 THEN ARB_DATA_request ELSE ARB_AXIC_request]

DATA_granted == Granted(PRIO, ARB_DATA_bus_frame, arbiter_req, 0)
ARB_AXIC_granted == Granted(PRIO, ARB_DATA_bus_frame, arbiter_req, 1)

map_req == [c \in Client |-> IF c = 0 THEN hfu.req ELSE AXIC_MAP_req]

HFU_MAP_granted  == Granted(MAP_PRIO, FALSE, map_req, 0)
AXIC_MAP_granted == Granted(MAP_PRIO, FALSE, map_req, 1)

(* Fault: a map request grants itself.                                     *)
AXIC_granted_by_request == ARB_AXIC_granted \/ AXIC_MAP_req

(* The controller takes the answer of either arbiter for its own.          *)
AXIC_granted == ARB_AXIC_granted \/ AXIC_MAP_granted

MAP_id == IF HFU_MAP_granted THEN hfu.id ELSE addra.half

(***************************************************************************)
(* The block memory ports.  The controller's side wins a port both drive.  *)
(***************************************************************************)
DATAIF_douta == IF read_from_shared THEN douta["shared"] ELSE douta["unshared"]

axic_enabled == mem_en(AXIC_granted, core_stopped)
AXIC_douta == douta[AXIC_bank(axic_enabled)]

NoPort == [bank |-> "none", addr |-> "none", wea |-> {}, din |-> ZeroWord]

AxicPort ==
  IF axic_enabled
  THEN [bank |-> AXIC_bank(TRUE), addr |-> AXIC_addra,
        wea |-> AXIC_wea(AXIC_granted), din |-> AXIC_dina]
  ELSE NoPort

DataPort ==
  LET old == saved_dout(DATAIF_douta)
  IN IF DATAIF_ena(DATA_granted, old)
     THEN [bank |-> DATAIF_bank, addr |-> dmem.word,
           wea |-> DATAIF_wea(DATA_granted, old), din |-> DATAIF_dina(old)]
     ELSE NoPort

(* Block memories read first: the output is the word before the write, and *)
(* nothing when the port is not enabled.                                   *)
BankStep ==
  LET axic == AxicPort
      data == DataPort
      port == [b \in Bank |-> IF axic.bank = b THEN axic
                              ELSE IF data.bank = b THEN data ELSE NoPort]
      written(w) == \E b \in Bank : w \in BankWords[b] /\ port[b].addr = w
      portOf(w)  == port[CHOOSE b \in Bank : w \in BankWords[b]]
  IN /\ mem' = [w \in MemWords |->
                  IF written(w) THEN WriteWord(mem[w], portOf(w).wea, portOf(w).din)
                  ELSE mem[w]]
     /\ douta' = [b \in Bank |->
                    IF port[b].addr \in BankWords[b] THEN mem[port[b].addr] ELSE ZeroWord]

ArbiterStep ==
  /\ PRIO' = NextPRIO(PRIO, ARB_DATA_bus_frame, arbiter_req)
  /\ MAP_PRIO' = NextPRIO(MAP_PRIO, FALSE, map_req)

(***************************************************************************)
(* The environments' next inputs.                                          *)
(***************************************************************************)
idle_host == axi.op = "none" /\ axi_state = "INIT_S"

(* A host that flushes first stays in shared memory, or writes to the      *)
(* flush address, while the controller holds the first store of a pair.    *)
StaysShared(r) == r.addr.mem = "shared" \/ (r.addr.mem = "flush" /\ r.op = "write")
Polite(r) == HostFlushes /\ storing' => StaysShared(r)

(* Instruction and unshared memory are the host's only while the core is   *)
(* stopped, and the host that restarts the core has no such access.        *)
TouchesCoreMemory(r) == r.addr.mem \in {"inst", "unshared"}

HostInput ==
  IF axi.op # "none" /\ ~accepted(AXIC_granted)
  THEN axi' = axi
  ELSE \/ axi' = NoRequest
       \/ /\ axi_state' = "INIT_S" \/ HostPipelines
          /\ \E r \in HostRequests :
               /\ Polite(r)
               /\ TouchesCoreMemory(r) => core_stopped'
               /\ axi' = r

host_in_core_memory ==
  \/ TouchesCoreMemory(axi)
  \/ from_saved_ch /\ addra.mem \in {"inst", "unshared"}

CoreInput ==
  IF ~DMEM_ready(DATA_granted)
  THEN UNCHANGED <<dmem, core_stopped>>
  ELSE \/ dmem' = NoDmem /\ core_stopped' = TRUE
       \/ /\ core_stopped => ~host_in_core_memory
          /\ datamem_state' = "ERROR_S" => RestartsAfterError /\ ~DMEM_error
          /\ core_stopped' = FALSE
          /\ dmem' \in CoreRequests \union {NoDmem}

HfuInput ==
  IF hfu.req /\ ~HFU_MAP_granted
  THEN UNCHANGED hfu
  ELSE hfu' \in HfuRequests
-----------------------------------------------------------------------------
Init ==
  /\ AxiInit
  /\ DmInit
  /\ PRIO = 0 /\ MAP_PRIO = 0
  /\ mem = [w \in MemWords |-> ZeroWord]
  /\ douta = [b \in Bank |-> ZeroWord]
  /\ hfu = NoHfu
  /\ core_stopped = TRUE

Environment == CoreInput /\ HostInput /\ HfuInput

(* A rising edge of the clock.                                            *)
Next ==
  /\ AxiStep(AXIC_granted, AXIC_douta, MAP_id)
  /\ DmStep(DATA_granted, DATAIF_douta)
  /\ BankStep
  /\ ArbiterStep
  /\ Environment

(* The clock runs.  Nothing may change for ever only in a state where a    *)
(* cycle may change nothing: no environment has to move to help.           *)
quiet == ENABLED (UNCHANGED vars /\ Next)
ClockRuns == []<><<Next>>_vars \/ []<>quiet

Spec == Init /\ [][Next]_vars /\ ClockRuns
-----------------------------------------------------------------------------
TypeOK ==
  /\ AxiTypeOK
  /\ DmTypeOK
  /\ PRIO \in Client /\ MAP_PRIO \in Client
  /\ mem \in [MemWords -> Word]
  /\ douta \in [Bank -> Word]
  /\ hfu \in HfuRequest
  /\ core_stopped \in BOOLEAN

(* The block memories have one port each, and the two sides never drive    *)
(* the same one in the same cycle (the port multiplexers, lines 466-527,   *)
(* would drop the core's access without telling it).                       *)
OnePortUser == \A b \in Bank : ~(AxicPort.bank = b /\ DataPort.bank = b)

(* Between the read and the write of an atomic operation nobody changes    *)
(* the word: what the interface kept is what the memory still holds.       *)
AtomicReadFresh ==
  modify_write => saved_dout(DATAIF_douta) = mem[dmem.word]

(* The core waits one cycle at most for the shared memory.                 *)
CoreWaitsOnce ==
  [][ARB_DATA_request /\ ~DATA_granted => DATA_granted']_vars

(* A request of the host for the shared memory waits two cycles at most:   *)
(* one for an access of the core, one more when that access is atomic and  *)
(* frames the bus.  It does not wait when the map unit's grant lets it go. *)
HostWaitsTwice ==
  [][ARB_AXIC_request /\ ~AXIC_granted
     => ARB_AXIC_granted' \/ (~ARB_DATA_bus_frame /\ ARB_DATA_bus_frame')]_vars

(* A lookup waits one cycle for the map unit.                              *)
HfuWaitsOnce == [][hfu.req /\ ~HFU_MAP_granted => HFU_MAP_granted']_vars

(* The map unit has one address: while the helper unit addresses it, the   *)
(* controller touches a map register in the flush step of a pending store  *)
(* only.  There it does: the shared memory's grant passes for the map      *)
(* unit's, and the register the helper unit looks up is written.           *)
MapOneUser ==
  /\ HFU_MAP_granted
  /\ is_mem("map") /\ (do_read(AXIC_granted) \/ do_write(AXIC_granted))
  => FlushFirst(AXIC_granted)

(* A store forced out of the buffer goes to the shared word it was for.    *)
FlushGoesHome ==
  FlushFirst(AXIC_granted) =>
    AxicPort = [bank |-> "shared", addr |-> buff_addra.word, wea |-> {buff_addra.half},
                din |-> [h \in Half |-> IF h = buff_addra.half THEN shared_wr_buff ELSE wdata]]

(* While the host delays taking what it read of a memory or a map, the     *)
(* data stay as they are (AXI asks it of a valid response), whatever the   *)
(* core makes the same memory put out and whatever the host asks for next. *)
ReadDataStable ==
  [][/\ axi_state = "READ_S" /\ axi_state' = "READ_S"
     /\ buff_addra.mem \in Bank \union {"map"}
     => rdata(AXIC_douta)' = rdata(AXIC_douta)]_vars

(* An access of the core inside its address space is served, also when an  *)
(* earlier program ended in an access error and the core was restarted.    *)
ServesValidAccess ==
  dmem.op # "none" /\ ~DMEM_error => datamem_state # "ERROR_S"

(* Every access of the host is taken.                                      *)
HostServed == axi.op # "none" ~> axi_state \in {"READ_S", "WRITE_S"}

(***************************************************************************)
(* The memory as its users see it.                                         *)
(***************************************************************************)
(* A buffered store is pending until it has been written, also while the   *)
(* access that forced it out waits.                                        *)
pending ==
  IF storing /\ ~from_saved_ch
  THEN {[word |-> buff_addra.word, half |-> buff_addra.half, val |-> shared_wr_buff]}
  ELSE {}

(* The half a load keeps is the other one of the word it read.             *)
kept ==
  LET h == Other(buff_addra.half)
  IN IF loading
     THEN {[word |-> buff_addra.word, half |-> h, val |-> shared_rd_buff_out(AXIC_douta)[h]]}
     ELSE {}

delivered ==
  IF axi_state = "READ_S" /\ buff_addra.mem \in Bank THEN {rdata(AXIC_douta)} ELSE {}

core_read ==
  IF datamem_state = "MODIFY_WRITE_S" THEN {} ELSE {saved_dout(DATAIF_douta)}

Abs == INSTANCE AtomicMemory WITH
  pend <- pending, snap <- kept, hostOut <- delivered, coreOut <- core_read

AtomicSpec == Abs!Spec
=============================================================================
