------------------------------- MODULE InOrder --------------------------------
(***************************************************************************)
(* The units of the core without the pipeline between them: one step is    *)
(* one instruction, which takes its operands from the register bank and    *)
(* goes through ALU, divider, branch checker, data memory interface and    *)
(* helper functions unit at once.  It stands between BpfCore, whose        *)
(* stages work on several instructions, and SequentialMachine, which has   *)
(* numbers where this has units.                                           *)
(***************************************************************************)
EXTENDS BpfCore

(* R is the register bank.                                                 *)
base_register(i) == IF i.class = "LDX" THEN i.src ELSE i.dst
address(i, R) == Address(R[base_register(i)], i.offset)

fits(i, v) == IF Control(i).alu64 THEN v ELSE Low(v)

(* The constant of the instruction i at pc.                                *)
constant(i, pc) ==
  IF i.class = "LD" THEN Join(imem[NextPC(pc)].imm, i.imm) ELSE SignExtend(i.imm)

first(i, R) == fits(i, R[i.dst])
second(i, pc, R) ==
  fits(i, IF i.source # "REG" \/ sig_force_imm(i) THEN constant(i, pc) ELSE R[i.src])

(* The divider works on magnitudes, and one sign serves quotient and       *)
(* remainder.                                                              *)
division(i, pc, R) ==
  [en |-> TRUE, op |-> i.code, is64 |-> Control(i).alu64, signed |-> i.offset % 2 = 1,
   A |-> first(i, R), B |-> second(i, pc, R)]

signs_differ(d) == negative(d, d.A) # negative(d, d.B)

divided(d) ==
  IF d.B = 0 THEN IF d.op = "DIV" THEN 0 ELSE d.A
  ELSE negated_if(signs_differ(d),
                  IF d.op = "DIV" THEN magnitude(d, d.A) \div magnitude(d, d.B)
                                  ELSE magnitude(d, d.A) % magnitude(d, d.B))

(* A constant is moved.                                                    *)
operation(i) == IF i.class = "LD" THEN "MOV" ELSE i.code

computed(i, pc, R) ==
  fits(i, IF operation(i) \in {"DIV", "MOD"} THEN divided(division(i, pc, R))
          ELSE alu_bus(operation(i), Control(i).alu64, Control(i).size,
                       first(i, R), second(i, pc, R)))

(* What a load or a fetching operation brings from the memory m.           *)
fetched(i, R, m) ==
  byte_mask(output(m[address(i, R) \div 8], i.size, address(i, R)), i.size, Control(i).sign_ext)

branches(i, pc, R) ==
  sig_branch(i) /\ taken(i.code, Control(i).alu64, first(i, R), second(i, pc, R))

(* The register that i writes and what it writes there.                    *)
target(i) ==
  IF Control(i).write_r0 THEN 0 ELSE IF i.class = "STX" THEN i.src ELSE i.dst

result(i, pc, R, m) ==
  IF is_call(i) THEN MapLookup(R[1], R[2])
  ELSE IF i.class \in MemClass THEN fetched(i, R, m)
  ELSE computed(i, pc, R)

successor(i, pc, R) ==
  IF branches(i, pc, R) \/ Control(i).jump
  THEN JumpTo(NextPC(pc), IF Control(i).jump32 THEN i.imm ELSE i.offset)
  ELSE IF i.class = "LD" THEN NextPC(NextPC(pc)) ELSE NextPC(pc)

regs_after(i, pc, R, m) ==
  IF Control(i).reg_write \/ Control(i).write_r0
  THEN [R EXCEPT ![target(i)] = result(i, pc, R, m)] ELSE R

mem_after(i, pc, R, m) ==
  IF ~Control(i).write_en THEN m
  ELSE IF is_atomic(i)
  THEN [m EXCEPT ![address(i, R) \div 8] =
          modified(i.aop, @, R[i.src], R[0], i.size, address(i, R))]
  ELSE [m EXCEPT ![address(i, R) \div 8] =
          stored(@, IF i.class = "ST" THEN constant(i, pc) ELSE R[i.src], i.size, address(i, R))]

(* The instruction at the program counter, if the machine does not stop    *)
(* there.                                                                  *)
Execute(i) ==
  /\ ~Sequential!Exits(i) /\ ~Sequential!Faults(i)
  /\ architectural_pc' = successor(i, architectural_pc, reg_file_written)
  /\ reg_file_written' = regs_after(i, architectural_pc, reg_file_written, mem)
  /\ mem' = mem_after(i, architectural_pc, reg_file_written, mem)
  /\ imem' = imem

InOrderNext ==
  \/ ~CORE_reset /\ Execute(imem[architectural_pc])
  \/ Sequential!Restart
  \/ ~CORE_reset /\ Sequential!HostWrite

InOrderSpec == Sequential!Init /\ [][InOrderNext]_(Sequential!vars)
=============================================================================
