# eBPF core: models, checks and proofs

The repository holds an eBPF processor core in VHDL inside an AXI4-Lite
peripheral (`ebpf-core`), the host's driver library for it (`ebpf-core/misc/app`)
and an assembler with a disassembler (`ebpf-assembler`). This directory models it
in TLA+, checks the models with TLC and proves theorems about them with TLAPS.

## Inventory

| part | source | state | interacts with |
|---|---|---|---|
| AXI controller | `BPF_AXI_Controller.vhd` | AXI FSM, store/load buffer FSM, saved channels, control register, input register | host (AXI channels), both arbiters, block memories, map unit, core (sleep, reset, register write) |
| data memory interface | `BPF_Data_Mem_Interface.vhd` | FSM, word last read | stage MEM, shared arbiter, unshared and shared memory |
| shared memory, map unit, arbiters | `BPF_IO_Mem.vhd`, `BPF_Map_Unit.vhd`, `Binary_Arbiter.vhd` | memory contents, map registers, priorities | both sides of them |
| helper functions unit | `hfu/BPF_Helper_Functions_Unit.vhd` | FSM, saved map entry | pipeline (ID and EX), map unit |
| pipeline | `BPF_Core.vhd`, its units and buffers | PC, four stage buffers, register bank, exception flags | instruction memory, data memory interface, helper unit, ALU, control register |
| ALU, byte mask, branch checker, divider | `BPF_ALU.vhd`, `BPF_Byte_Mask.vhd`, `BPF_Branch_Checker.vhd`, `Divider_U64` | division FSM, saved operands | stages EX and WB |
| host driver | `misc/app/ebpf_lib.h` | a copy of the control register, map allocator | the peripheral over AXI |
| assembler | `ebpf-assembler/src` | statements, slot count, output array | files; the core that runs its output; C code that includes it |
| disassembler | `ebpf-assembler/src/disas.c` | none | object files |

What is hard here: two independent clients of one-port memories; 64-bit words
reached through a 32-bit bus, made atomic by buffering; atomic operations of two
cycles; results that are on a memory's output for one cycle; a pipeline that
stalls, forwards, flushes, sleeps and resumes; a divider with operands of its own;
a host that polls, awakes and restarts a core which goes on between any two of its
accesses; three counts of instruction slots in the assembler, two code generators
and a disassembler that have to agree, and two tables of what a valid instruction is.

What makes each part correct:

- AXI controller: a pair of half-word stores or loads is one access of the word;
  a buffered store reaches its word; what was read stays until it is taken; every request is
  answered.
- data memory interface: loads, stores and atomic operations are atomic and touch
  the bytes they name; the core waits a bounded time; an error is reported and the
  next program works.
- shared memory and arbiters: one user of a port per cycle, no starvation.
- helper functions unit: one lookup per call, for its parameters, also when the
  pipeline stalls or is flushed.
- pipeline: the results of executing one instruction at a time; precise exceptions;
  finish, exception and sleeping are reported when every older instruction is done;
  a program put to sleep goes on where it was.
- ALU, branch checker: what the instruction set says of both widths; each division
  gets the answer to its own operands.
- host driver: start, sleep, awake and await leave the core in the state they say;
  programs start with their frame pointer; a map that was created is found and is
  nobody else's.
- assembler: labels resolve to the instruction they name; the array is not overrun;
  what is written is what the operands say, the core accepts it, and both outputs
  are the same program.
- disassembler: its output assembles to the file it read.

## Modules

| module | models |
|---|---|
| `MemoryMap` | the address space and the words of the memories |
| `BinaryArbiter`, `DelayedRegister` | the two components that are used more than once |
| `AxiController` | the controller: wires as operators, one action per FSM transition |
| `DataMemInterface` | the core's side, likewise |
| `IoMem` | both with the memories, the arbiters and the map registers; one step is one clock cycle |
| `AtomicMemory` | abstract: what host and core may rely on, instantaneous accesses |
| `InstructionFormat` | the fields of an instruction and their codes, for the core and the assembler |
| `Instructions` | registers, bytes and addresses: what the pipeline and the abstract machine compute with |
| `Alu`, `BranchChecker`, `ByteLanes` | arithmetic, byte swaps and byte masks; comparisons; the bytes an access reads and writes, and atomic arithmetic |
| `ControlUnit`, `ForwardingUnit`, `ExceptionUnit` | control signals and hazards; forwarding paths; valid instructions and the stage of an exception |
| `HelperFunctions`, `Divider` | the two FSMs beside the pipeline |
| `BpfCore` | the pipeline, which extends those; one step is one clock cycle |
| `InOrder` | the units of `BpfCore` without the pipeline between them, one instruction per step |
| `SequentialMachine` | abstract: what a program means, one instruction per step |
| `CoreControl` | abstract: the core as the host sees it through the control register |
| `HostDriver` | the driver's calls on a core that is `CoreControl`, access by access |
| `MapAllocator` | creation, deletion and lookup of the two maps by the driver |
| `Assembler` | parser, label resolution, type checker and binary code generator |
| `MacroOutput` | the C array: which macro is printed for a statement, and what the macros expand to |
| `Disassembler` | the lines printed for an object file |
| `Toolchain` | the three together: assemble to either output, disassemble, assemble again |
| `IoMem_proofs` | theorems about the memory system: for every host, and for one that flushes first; the refinement of `AtomicMemory` |
| `Arithmetic_proofs` | lemmas about sums, digits, bits and bytes, and the types of what the units compute |
| `BpfCore_proofs`, `InOrder_proofs` | theorems about the pipeline: its control and types; that it executes one instruction after the other |
| `Sequential_proofs` | what the units compute is what the instructions mean: the refinement of `SequentialMachine` |
| `HostDriver_proofs`, `MapAllocator_proofs`, `Assembler_proofs` | theorems about the other parts |
| `MCIoMem`, `MCIoMemAccesses`, `MCBpfCore`, `MCBpfCorePrograms`, `MCAssembler`, `MCHostDriver`, `MCMapAllocator` | instances for TLC |

In a hardware model every register is a variable and every wire an operator of
them. `AxiController` and `DataMemInterface` take the arbiter's answer as a
parameter, because the grant is combinational: `IoMem` computes the requests of
both, the grants from the requests, and passes the grants back, as the source's
wires do. `BpfCore` sees the data memory interface and the arbiters from the
core's side: an access is granted or not in each cycle. The buffers between the
stages are records of the signals they hold; names are those of the source
(`EX_taken_branch`, `CTRL_flush_stage`, `load_ID`, ...).

`BpfCore` implements `SequentialMachine` under a refinement mapping: the memory is
the memory, the registers are what stage ID would read in this cycle
(`reg_file_written`), and the program counter is the address of the oldest
instruction that is not done (`architectural_pc`): in MEM, in EX, behind a branch
that was taken and saved, or in ID or IF. `instr`, a history variable, tells an
instruction in EX or MEM from a bubble, which looks like one to the address.
`SequentialMachine` does not use `Alu`, `BranchChecker` or `ByteLanes`: it says with
signed integers and slices of bytes what an instruction computes, compares, loads
and stores, so the refinement checks these units too.

`InOrder` stands between the two: one instruction per step, as in the machine, but
computed by the units of the core. `BpfCore` implements it under the same mapping. What
stages, stalls, forwarding and flushes can get wrong lies between `BpfCore` and
`InOrder`, where it is proved; what the units can get wrong lies between `InOrder` and
`SequentialMachine`.

`BpfCore` also implements `CoreControl`, and `HostDriver` runs the driver on
`CoreControl`: what the driver relies on is what the pipeline is shown to do. The
only liveness it needs of the core, that a core told to sleep stops, is
`SleepAnswered`, checked of the pipeline by the run `stalls`.

In `HostDriver` an action is one bus access of one call, with what the call computes
up to the next access; the core makes a cycle in every step. `MapAllocator` has an
action per outcome of a call, as nothing runs beside it.

`Assembler` has one action per kind of word the parser meets, one step per
statement for the passes over the list, and one step for the two checks that
change nothing. An operand of the wrong kind reads as a value that is in no range,
because operands are a union in the source. `MacroOutput` gives the instructions
that a C compiler makes of the printed macros, whose text is left out.
`Disassembler` prints words of the kind the parser reads.

Operators named after a definition with a suffix (`NextPRIO_winner`,
`wr_pair_any_word`, ...) and marked *Fault* are not part of the model: each is a
version of the definition after it with a plausible mistake, and each property is
shown to notice one.

### Abstractions

- Memory system: a 32-bit half of a word is one byte lane. Lanes never mix there
  (no signal moves a byte from one lane to another between the port and the bus;
  the data memory interface does so before it and after it, see `ByteLanes`), so a
  representative lane per half shows which access its contents come from. A write
  strobe is `full` (1111), `byte` (writes the lane) or `none`. The arithmetic of
  atomic operations is a constant there; the instances use a two-bit addition with
  carry from half to half, and exchange. Of the control register, what it does to
  the core is the environment's choice.
- Pipeline: a byte has `ByteBits` bits, a register eight bytes. Nothing else of the
  arithmetic is abstracted; numbers in instructions that count bits (16, 32 and 64
  of a byte swap, 8, 16 and 32 of a MOV) are the source's and name 2, 4 and 8 bytes
  and 1, 2 and 4. A shift counts by as many bits of its operand as number the bits
  of a register (six in the source). An access whose address is not a multiple of
  its size is, in pipeline and machine alike, one of the slice the address falls in.
  Division has the answer of the divider after `DivLatency` cycles. The reserved
  bits of an instruction's immediate are left out.
- Driver: the two halves of an access to the control register are one access (the
  upper half holds nothing), and so are those of an instruction. An instruction is
  known by the program it is of. Single reads and writes of memory by address are
  the bus of `AxiController`.
- Assembler: a token is a whole word, a file ends in a newline and a command has one
  file. `HalfMod`, `OffMod` and `MAX_INSNS` are the widths.

### Assumptions on the environment

Each is a constant or a guard of the model, so that it can be weakened.

- A stopped core has no memory access, and the host uses instruction and unshared
  memory only while the core is stopped (`CoreInput`, `HostInput`).
- `HostFlushes`: a half-word store to shared memory is completed or flushed before
  any other region is accessed. The driver does not state this discipline, and the
  controller needs it. Without it, in the step that flushes the store before a
  register access, the port is that of the register access and the store is lost
  (`FlushGoesHome` does not hold), and the register is loaded with what is on the data
  bus even if the access is a read, as in a poll of the control register. To flush is
  to write to the flush address; a read of it is answered like that of a register and
  does not count. Only `FlushGoesHome` and `AtomicSpec` assume it (runs `accesses` and
  `restart`; theorems `StoreGoesHome` and `MemoryIsAtomic`). The run `regions` and the
  other theorems of `IoMem_proofs` have a host that keeps no such order.
- `~HostPipelines`: the host drives the next request after the response to the last,
  as a processor that makes strongly ordered accesses to a device does. Only the
  refinement of `AtomicMemory` assumes it (run `accesses`, `MemoryIsAtomic`): of a
  host that drives a request before it has taken the last response the abstract
  memory says nothing. The run `regions` has a host that pipelines.
- `HostSleeps = "untaken"`: sleep is not asserted in the one cycle a taken branch is in
  EX, but for the run `sleep_branch`, which shows why.
- The run `programs` has no instruction that takes its result from memory directly
  before an atomic operation (the run `load_atomic` shows why), no swap to big endian directly
  behind an instruction that takes its result from memory or from the map unit (below,
  with what the violated runs show), and no compare-and-exchange of the low half of a word: it compares the 64 bits of the
  word with those of r0 (`do_xchg`, `BPF_Data_Mem_Interface.vhd:246`).
- The host does not reset the core in the middle of a memory access (the data memory
  interface is not reset with it), nor after an access error (the run `restart`
  shows why), and writes registers of a core that sleeps. Of the driver,
  `StartsFresh` and `ControlAgrees` show that the register write is withdrawn
  before the core runs; `bpf_start_program` does not look whether the core has
  stopped, so the first of these is a demand on its caller.
- `HostDriver`: the host awakes only a program it has started and not overwritten
  since; `bpf_awake_program` does not ask whether the core sleeps, so neither does
  the model. To await a program that sleeps returns "exception", since what is no
  finish is taken for an exception (`AwaitTells`).
- The arbiters and the divider let the core wait for one cycle at most. For the shared
  arbiter this is what `IoMem` shows and `CoreIsServed` proves.

## Runs

| run | question | bounds | states | result |
|---|---|---|---|---|
| `accesses` | do pairs, halves, bytes and flushes of the host behave as instantaneous accesses beside those of the core, and is the host's wait bounded? | two shared words and an unshared one, one bit per half; stores and loads in separate behaviours | 100410 | holds |
| `regions` | do accesses to maps and memories interfere with each other or with a lookup; is every host access taken? | a word of shared memory, two maps, a host that pipelines and leaves stores pending | 35014 | holds |
| `restart` | does a program started after an access error get its accesses served? | a word per memory, a core that steps out of its memories | | violated |
| `programs` | do instructions get operands, results, successors and bytes of sequential execution; is the outcome exact; do the stages together do what the units do in order (`InOrder`); does the host see `CoreControl`? | words of 16 bits; five kinds of programs, below | 218726 | holds |
| `stalls` | do calls, loads, divisions, branches and sleep ever wait for one another for ever; do lookups follow their calls? | programs of two over six, of three over calls, loads, divisions and moves; sleeps, restarts, register writes | 21235 | holds |
| `assemble` | do jumps reach their labels, does the array hold, are the fields the operands', does the core accept them, are both outputs one program, does the disassembler print what was assembled? | every mnemonic with every list of up to three operands out of three; layouts of up to five lines out of seven; odd words at every place; six slots | 490071 | holds |
| `host` | do the driver's calls leave the core as they say, and return? | two programs of two slots, two registers of a bit, results of two bits | 94016 | holds |
| `sleep_branch` | does a program resume after a sleep asserted while a taken branch is in EX? | programs of two | | violated |
| `load_atomic` | does a load directly before an atomic operation keep its value? | programs of four over three | | violated |
| `unknown_call` | is the call of an unknown function reported at its address, before it has an effect? | programs of two | | violated |
| `maps` | is a created map found? | 16 words of map memory, maps of at most three entries | | violated |
| `c_output` | does the C array hold the constants of the object file? | one constant above the half | | violated |

The programs of the run `programs` are of five kinds (the variable `scenario`), and
the host does what the question needs:

- *operands*: programs of four over nine operations that read what those before
  them compute, load and store; the arbiters and the divider deny.
- *long*: programs of four over seven with divisions and over six with atomic
  operations; the host starts them over in any cycle.
- *control*: programs of four over seven with jumps, branches, 64-bit constants and
  exits, of three over seven with every kind of exception; the host puts them to
  sleep in any cycle without a taken branch in EX.
- *arithmetic*: every arithmetic operation, extension, byte swap and comparison of
  both widths on the pairs of six values at and around the signs of bytes, halves
  and words (3, 127, 128, 32767, 32768, 65413; but for the product of the largest
  with itself, which TLC's integers do not hold).
- *lanes*: every size of load, store and atomic operation at every offset in a word
  whose bytes differ, aligned or not.

Why the bounds are enough. Memory system: two words are what it takes for a pair to
be of different words, and an alphabet per behaviour holds every kind of access the
question is about. Pipeline: five stages hold four instructions that interact, no
forwarding path or stall spans more, and the PC of eight addresses runs over the
zero words behind a program, which are refused. Bytes of two bits tell the eight
bytes of a word and their signs apart. Time is unbounded, and every
register of the modules is finite, so a run is complete for its alphabet.
Driver: two instructions are what it takes to see a loop's first and last access,
and two programs to tell a stale one. Assembler: the limit of six slots lies between
five lines of one slot and of two, offsets of three bits are exceeded by two
instructions of two slots, and the cases beyond both are reached.

### Fairness

Hardware: `ClockRuns`, `[]<><<Next>>_vars \/ []<>quiet`. Every step is
a clock cycle and the clock runs: the state may stay the same for ever only where a
cycle may leave it the same. Weak fairness of `Next` would be too strong, as it makes
the host or the core move when nothing else does: a core that is stuck while it is
told to sleep would be saved by the host, which would have to awake it. Which inputs
arrive is left open, but for the bounds on the arbiters' and the divider's denials.
The host takes each response after any finite number of cycles or never; `HostServed`
only says that a request is taken, which does not depend on it.

Driver: `WF_vars(Accesses)`, as the bus takes every access (`HostServed`), and
`WF_vars(StopsAsleep)`, as a core that is told to sleep stops (`SleepAnswered`).
Nothing is assumed of a program's end: `AwaitReturns` says that await returns once
the core has stopped.

The assembler and the map allocator have safety properties only.

### What the violated runs show

- `restart`: `ERROR_S` of the data memory interface has no exit but the reset of the
  whole peripheral. A core started over after an access error has none of its
  accesses served, while `ready` is asserted.
- `sleep_branch`: the flag of a taken branch is saved over a sleep and its target is not:
  the bubble that enters EX overwrites it with r0.
- `load_atomic`: a load stays in stage WB during the first cycle of the atomic operation
  behind it and writes its register again in the second, with the word the atomic
  operation read.
- `unknown_call`: the error of a call is raised a cycle after the call has left ID; the
  address reported is that behind the call, and the call goes on and writes r0.
- `maps`: the driver writes the entry of a map to the first map register with a value
  that is too large by four times the map's number; the first map that is created is
  map 1, whose register stays zero, and no element of it is found.
- `c_output`: a 64-bit constant is printed as its lower half, which the macro
  sign-extends, where the object file holds all of it.

Two disagreements have no run of their own:

- `be16`, `be32` and `be64` read the register they swap, as
  `ebpf-assembler/README.md:136` says, but `sig_alu_en` (`BPF_Control_Unit.vhd:185`)
  leaves out their class, so that `sig_use_dst` is 0 and the hazard unit does not stop
  them behind an instruction whose result comes late. Behind a load they swap its
  address, which is what stage MEM forwards (`BPF_Forwarding_Unit.vhd:71`). With such a
  pair among its programs the run `programs` violates `SequentialSpec` and
  `InOrderSpec`; the theorem about the latter assumes that there is none (`SwapInTime`).
- An atomic compare-and-exchange of 32 bits in the low half of a word compares all 64
  bits of the word with r0, and one in the high half exchanges also where the 64 bits
  equal r0 and the high half does not equal its lower one (`do_xchg`,
  `BPF_Data_Mem_Interface.vhd:246`).

## Proofs

The theorems hold for every value of the constants that satisfies the named ASSUMEs
of the modules, which TLC evaluates on the instances. What a theorem assumes beyond
them stands in its statement.

`IoMem_proofs` (for every set of words and values, every alphabet and every kind of
host, those that pipeline and those that abandon stores included):

- `TypeCorrect`: the type invariant.
- `PortExclusion`: the port multiplexers never drop an access. For the shared
  memory this needs no invariant, only the wires (`SharedPortGranted`): each access
  that skips arbitration is one that `no_mem_access` keeps off the port. For the
  unshared memory it rests on a stopped core having no access.
- `AtomicIsFresh`: what an atomic operation computes with is what the word holds.
  The inductive invariant `IInv` adds to the type invariant what is true between
  the two cycles: the word is on the output of the memory it was read from and has
  not changed, because the bus is framed and ports have one user. `AtomicReadFresh`
  alone is not inductive: it says nothing of the memory that is not selected, nor of
  the frame that keeps the bus.
- `CoreIsServed`: the core waits one cycle at most.
- `IInvHolds`: the inductive invariant itself.

In the second half, what the host may rely on. These hold for every host, pipelining
or not, with a store pending or not:

- `LookupIsServed`: the helper unit waits one cycle at most.
- `MapHasOneUser`: while the helper unit addresses the map unit, the controller
  touches a map register in no step but the one that flushes a store. The controller
  takes the grant of either arbiter for its own, so the argument is about which it can
  have asked: a map access asks for the shared memory only to flush
  (`MapAsksForFlush`). In that step it does go wrong (the property without its
  exception is violated on the alphabet of the run `regions`): the register that the
  helper unit looks up is written.
- `ReadDataIsStable`: what the host read stays until it is taken. The word is on the
  output of the memory for one cycle, and the register that keeps it has to take it
  before the core's next access (`OutputKept`).
- `HostIsServed`: each request for the shared memory is granted after two cycles at
  most, as the priority is the host's after one denial and a frame lasts one cycle. An
  access that forces a store out makes two such requests, one after the other.
  `HostAsksAgain` says that a request is not withdrawn while it waits, also behind
  saved channels and a host that drives something else there.

This one assumes `HostFlushes`, and is violated without it on the alphabet of `regions`:

- `StoreGoesHome`: a store that is forced out reaches the word it was buffered for.
  `BufferInv` says which word that is in each state of the two FSMs: the address
  register is the only copy of it, and a request in the saved channels uses it too.
  `HostInv` says that the request that waits for the flush is one of shared memory.

And in its last part `MemoryIsAtomic`, the refinement of `AtomicMemory` under the mapping
that the run `accesses` checks, for a host that also has one access at a time
(`OneAccessHost`). One cycle is one step of the host followed by one of the core; the memory
between the two is `HostMem`. That there is such an order is the core of the proof
(`OneAfterTheOther`): when both enable a port in one cycle, arbitration has made it
ports of different memories, so what the core reads is what it was before the host's
write. The inductive invariant `RInv` adds that the host drives nothing while its access is
under way, and that the half a load keeps is in the register or will be after this cycle.

`BpfCore_proofs` (for every set of programs, every memory, every width of a byte, every
latency of the divider, and a host that sleeps, awakes, writes registers and restarts as
the model allows):

- `AnswersAreExpected`: after a flush or a reset the divider may still count for a
  division that is gone; `DividerInv` says that the FSM then sits in a state where it
  waits for the second cycle of the reset.
- `UnitFollowsCall`: the helper unit has no view of the pipeline but two wires, and is
  in step with the call all the same (`HfuInv`).
- `StageIsHeld`, `FinishIsPrecise`: the stage of an exception, and the end of a program,
  are live outputs of stages that stall, so they have to stay as long as the flag
  that is saved. `PipelineInv` says which buffers can hold an instruction in each
  state of the flags. Both assume `[]LoadKept`: TLC finds each violated without it,
  by the flaw that the run `load_atomic` shows. A load in WB is lost to the atomic
  operation in MEM, and a branch in EX that reads it then changes its mind while it
  waits. The run `programs` meets the assumption by its choice of programs.
- `ExceptionIsPrecise`: the address that the host is told is that of the instruction at
  fault. An address is computed in EX, of a base register that instructions in MEM and in
  WB may be about to write, and is compared with the memories in MEM. `AccessInv` says why
  it is the address that the registers give when the older instructions are done: what is
  not forwarded is what the bank holds (`OwnInv`), what comes late, out of a memory or the
  helper unit, is never read too early (`LateInv`), and the host writes no register under
  an access (`HostWriteInv`). It assumes `[]LoadKept`, and that no unknown function is
  called (`[]~error_function_id`): the call of one is reported at the instruction behind
  it, as the run `unknown_call` shows. No program of the run `programs` calls one.
- `HostSeesControl`: the refinement of `CoreControl`. The core has no state in which it
  sleeps or has ended: it says what it says by wires that look at every stage. `Outcomes`
  tells the cases apart, and of each it is shown that its wires give the same in the next
  cycle, unless the host asks for another: bubbles are followed by bubbles
  (`StaysQuiet`), an instruction that is stopped in ID keeps its signals (`StoppedInID`), and
  one that is refused in MEM stays there. It assumes what `ExceptionIsPrecise` does (with
  the programs of `unknown_call`, TLC finds that a core that sleeps with such a call in
  ID raises an exception).
- `TypeCorrectCore`: the type invariant, for every width of a byte. It is about the
  arithmetic of the units: no product, shift, division, extension, byte swap, load, store
  or lookup leaves the width of its register. A type invariant of its own is not
  inductive for the divider, which divides by what was given to it cycles ago:
  `DivideInv` adds that it was never given zero, and that operands that wait for it belong to
  the division that waits in EX. The lemmas about the operations are in
  `Arithmetic_proofs`. A value is a sum over the places of its bits or bytes, and
  `MapThenSumSet` says what a sum is by a recursive function on sets; what it adds up to
  takes induction, which the library has for operators only. `CountingUp` and
  `FillingUp` have it for sets, from the library's well-founded order of the numbers, and
  with them it is proved that a number has the digits it is the sum of (`SumHasDigits`) and is the sum
  of its digits (`SumOfDigits`), for bits (`NumberHasBits`, `BitsMakeNumber`) and for
  bytes (`BytesOfBytes`). Of powers the provers know nothing but their values for
  numerals: that they double is the assumption `PowersOK`, which TLC evaluates.

`InOrder_proofs` (for the same):

- `InOrderImplemented`: the refinement of `InOrder`. Whatever is under way in the stages,
  program counter, registers and memory change as they do when the units work on one
  instruction at a time. The inductive invariant `InOrderInv` says of each stage that
  what its buffer holds is what the instruction in it needs: the buffers carry the
  instruction that the memory has at their address (`CarryInv`); operands that are not
  going to be forwarded are those of the register bank when the older instructions are
  done (`OperandInv`), which is the youngest producer in MEM or WB or the bank
  (`PathInv`, `HeldInv`), not one that comes late (`InTimeInv`) nor one that the host
  changes under it (`HostAlone`), and the divider works for the instruction in EX
  (`DivisionInv`, `DividerInv`, `QuotientInv`); a branch that was saved goes where the
  instruction goes (`SuccessorInv`, `StopInv`); and what EX prepared for the memory is
  what the instruction accesses (`PreparedInv`, `MemoryInv`). `InOrderInvHolds` is the
  lemma that it is an invariant. The theorem assumes what the runs show that it must:
  sleep is not asserted with a taken branch in EX (`HostSleeps # "any"`, run
  `sleep_branch`), and `[]Agreed`, that is: a load in WB is not lost to an atomic
  operation (`LoadWrittenOnce`, run `load_atomic`), no unknown function is called
  (`~error_function_id`, run `unknown_call`), and a byte swap does not enter EX while
  its operand is late (`SwapInTime`, above).
- `SignedOrder`: the comparator's tests of sign and magnitude are the order of signed
  numbers, for both widths and every width of a byte.

`Sequential_proofs` (for the same):

- `PipelineIsSequential`: the refinement of `SequentialMachine`, for bytes of every number
  of bits. By `InOrderImplemented` it is left to show of one instruction, in a state of the
  right type (`TypeCorrectCore`) with the program counter inside the program
  (`PCStep`), that the units do what the instruction means (`ExecuteAgrees`); there is
  one lemma for each class of instruction. Under them is the arithmetic that the units do
  in pieces: sums of bits are numbers, the bits of a sum of powers are those of its parts
  (and, or, exclusive or), a shift to the right that fills with the sign is a division,
  a division of magnitudes with the signs put back is one of signed numbers, a swap of
  bytes is a sum in the other order, and a word written through byte lanes is read again
  at the same lanes.
- Beyond the conditions of `InOrderImplemented` it assumes `[]Meaningful`, of the
  instruction at the program counter: the source accepts a MOV of 56 bits and an END of
  112 (`BPF_Exception_Unit.vhd:79`, `:96`), which have no meaning to implement, and a
  compare-and-exchange of 32 bits also compares the whole word with the whole of `r0`, in
  the low half nothing else (`BPF_Data_Mem_Interface.vhd:246`), so that must come to the
  same as a comparison of the half it is about. The proof needs nothing else of the
  program. The programs of the run `programs` keep both hypotheses in every state.

`HostDriver_proofs` (for every length of program, every register bank and every width
of a half): `HostTypeCorrect`, `StartsWithFramePointer`, `ControlRegisterAgrees`,
`EndIsReported`, `ResultIsWhole` and `LoadsStoppedCore`, from the inductive invariant `HInv`.
None of the properties is inductive, as each speaks of a moment between calls and depends on
which access of which call is next: `HInv` says of each such moment what the control
register holds and what the core can be doing (`SleepInv`, `ResetInv`, `FreshInv`,
`CallInv`), and of the values that have been returned that the end they are of still
stands (`ReturnInv`). There is one lemma per access.

`Assembler_proofs` (for every set of files, every width of offset and immediate that is
no narrower than the numbers of a byte swap, and every length of the array):
`SlotsHeld`, `OperandsAreThere`, `LabelsAreReached` and `ListedAreAccepted`, of the assembler
that writes an object file (`Spec`). The argument has two halves.

- `AssemblerInvariant`: there is one layout of the statements, the sequence `st` of the
  slots they begin at, and each pass counts along it: the parser has its end in
  `offset` and gives labels its elements, the resolution has `st[i]` in `pc` and writes
  the difference of two of them as a distance, and the code generator has written `st[i]`
  slots. Without a witness common to all three the property is not inductive: the
  counts are made one after the other, and none of them is kept.
- `WrittenSlots` and `CoreAccepts`: what is written for a statement that the type checker
  lets through, family by family of mnemonics, and that the exception unit takes it.

`MapAllocator_proofs`: `MapsHaveOneOwner`, in every order of creations and deletions no
map is handed out to two callers; the invariant relates the allocator's state to who
owns what.

Only model-checked:

- `NarrowCArrayIsObject` and `Reassembled`: the C array is the fold of what is printed
  for each statement. The theorems about `Assembler` speak of a file that is assembled to
  an object file; that they also hold of what the disassembler printed is the run
  `assemble`'s.
- Liveness: `HostServed`, `Progress`, `SleepAnswered`, `SleepReturns`, `AwaitReturns`.

## Not modelled

- `BPF_AXI_Peripheral.vhd`: wiring. `BPF_Mem_Interface.vhd`: not instantiated.
  The memories and test doubles of the simulation, but for what the block memory
  and the divider do. `main.c`: one use of the driver.
- Assembler: options, messages, several files per command (`main.cpp:51`: the list of
  statements and the slot count survive `dealloc`, so a second file would be
  appended to the first), a file without a newline at its end (`parser.cpp:260`), and a
  jump over more slots than 16 bits tell (`codegen.cpp:789`).
- Cases seen in the code and modelled as they are, with no property: the
  compare-and-exchange of 32 bits in the low half (`BPF_Data_Mem_Interface.vhd:246`); the
  key equal to `max_entries`, found by the core and refused by the driver
  (`BPF_Helper_Functions_Unit.vhd:122`, `ebpf_lib.h:377`); the sizes 56 and 112 that
  pass for those of a MOV and an END (`BPF_Exception_Unit.vhd:79`, `:96`).
- Cases kept out of the runs by an assumption above: a request driven in the flush step of
  a host that abandons stores buffers the saved store again; a reset between the two
  cycles of an atomic operation (`BPF_Data_Mem_Interface.vhd:308`); a register write of
  a core that runs.

## Plan

1. Memory system, pipeline, helper unit, divider, arithmetic (done).
2. Driver and map allocator (done), both outputs of the assembler and the disassembler
   (done for one file).
3. Several files per command in `Assembler`: `ast` and `offset` survive `dealloc`.
4. A run for the lookups of the core and of the driver on one map.
5. Proofs (done but for the following): the assembler's theorems of the text that the
   disassembler prints.
