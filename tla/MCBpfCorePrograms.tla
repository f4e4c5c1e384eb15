---------------------------- MODULE MCBpfCorePrograms ----------------------------
EXTENDS MCBpfCore, InOrder

(* Five questions asked in one run.  A behaviour is about which operands   *)
(* an instruction gets from those before it; about operations that take    *)
(* several cycles, and the host starts the program over in any of them;    *)
(* about where the next instruction comes from, and the host puts the      *)
(* program to sleep; about what one operation makes of its operands; or    *)
(* about which bytes one access reads and writes.                          *)
VARIABLE scenario

(* The first instruction gives another one something to read, and the last *)
(* one reads.                                                              *)
Reads(i) == i # Mov8 /\ i.code # "END"
OperandProgram(p) == p[0].code # "END" /\ Reads(p[3])
DivisionProgram(p) == Reads(p[3]) /\ p[3].class # "LDX"
AtomicProgram(p) == \A i \in 0 .. 2 : ~(from_memory(p[i]) /\ p[i + 1].mode = "ATOMIC")

ForwardingProgram == \E p \in [0 .. 3 -> Operands] : OperandProgram(p) /\ imem = Rom(p)

LongProgram ==
  \/ \E p \in [0 .. 3 -> Divisions] : DivisionProgram(p) /\ imem = Rom(p)
  \/ \E p \in [0 .. 3 -> Atomics] : AtomicProgram(p) /\ imem = Rom(p)

(* Of the programs of four, those whose last instruction leads out or      *)
(* nowhere.                                                                *)
ControlProgram ==
  \/ \E p \in [0 .. 3 -> Flow] :
       p[3] \in {RI("ALU64", "XOR", 1, 8), Exit} /\ imem = Rom(p)
  \/ \E p \in [0 .. 2 -> Faulty] : imem = Rom(p)

(* Operands at and around the signs of bytes, halves and words, the places *)
(* of a shift among them.                                                  *)
Boundary == {3, 127, 128, 32767, 32768, 65413}

Arithmetic ==
  {RR(c, op, 1, 2) : c \in AluClass, op \in RegularOps}
    \union {SignedOp(RR(c, op, 1, 2)) : c \in AluClass, op \in SignedOps}
    \union {[RR(c, "MOV", 1, 2) EXCEPT !.offset = o] : c \in AluClass, o \in {0, 8, 16, 32}}
    \union {RI("ALU64", "END", 1, n) : n \in {16, 32, 64}}
    \union {[RR("ALU", "END", 1, 0) EXCEPT !.imm = n] : n \in {16, 32, 64}}
    \union {[RR(c, op, 1, 2) EXCEPT !.offset = 1] : c \in JumpClass, op \in BranchOps}

(* TLC's integers do not hold the square of the largest value.             *)
ArithmeticProgram ==
  \E v, w \in Boundary, i \in Arithmetic :
    /\ i.code = "MUL" => v + w < 2 * 65413
    /\ imem = Rom(0 :> Lddw(1, Low(v)) @@ 1 :> [ZeroInsn EXCEPT !.imm = High(v)] @@
                  2 :> Lddw(2, Low(w)) @@ 3 :> [ZeroInsn EXCEPT !.imm = High(w)] @@ 4 :> i)

(* A compare-and-exchange of the low half is left out: the core compares   *)
(* the whole word with r0.                                                 *)
At(i, size, offset) == [i EXCEPT !.size = size, !.offset = offset]
Accesses ==
  {At(i, size, offset) : i \in {Ldx(2, 1), Ldxsx(2, 1), Stx(1, 2), St(1, 177)},
                         size \in Size, offset \in 0 .. 7}
    \union {At(Amo(op, fetch, 1, 2), size, offset) : op \in SimpleAtomics, fetch \in BOOLEAN,
                                    size \in {"SIZE32", "SIZE64"}, offset \in {0, 2, 4, 7}}
    \union {At(Amo("XCHG", TRUE, 1, 2), size, offset) :
              size \in {"SIZE32", "SIZE64"}, offset \in 0 .. 7}
    \union {At(Amo("CMPXCHG", TRUE, 1, 2), "SIZE32", offset) : offset \in 4 .. 7}

LaneProgram ==
  \E i \in Accesses, token \in {147, 146} :
    /\ i.aop # "CMPXCHG" => token = 147
    /\ imem = Rom(0 :> RI("ALU64", "MOV", 0, token) @@ 1 :> Lddw(2, 236) @@
                  2 :> [ZeroInsn EXCEPT !.imm = 77] @@ 3 :> i)

Striped == {[a \in WordAddr |-> IF a = 0 THEN Join(147, 228) ELSE Join(27, 226)]}

NoPrograms == {}

ScenarioInit ==
  /\ PowerUp
  /\ \/ scenario = "operands" /\ ForwardingProgram /\ mem \in MarkedAndZero
     \/ scenario = "long" /\ LongProgram /\ mem \in MarkedAndZero
     \/ scenario = "control" /\ ControlProgram /\ mem \in Marked
     \/ scenario = "arithmetic" /\ ArithmeticProgram /\ mem \in Marked
     \/ scenario = "lanes" /\ LaneProgram /\ mem \in Striped

ScenarioNext ==
  /\ Next /\ UNCHANGED scenario
  /\ scenario # "control" => ~CORE_sleep'
  /\ scenario # "long" => ~CORE_reset'
  /\ scenario \in {"arithmetic", "lanes"} => DATA_granted' /\ divider_ready'

ScenarioSpec == ScenarioInit /\ [][ScenarioNext]_<<vars, scenario>>
=============================================================================
