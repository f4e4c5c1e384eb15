-------------------------- MODULE SequentialMachine ---------------------------
(***************************************************************************)
(* What a program means, with no pipeline: one step executes the one       *)
(* instruction at pc.  The machine stops at an exit, at an instruction     *)
(* that is not valid, at a call of an unknown function and at an access    *)
(* outside the memories; none of them changes anything.                    *)
(***************************************************************************)
EXTENDS ControlUnit, ExceptionUnit

CONSTANTS
  Lookup(_, _),        \* what bpf_map_lookup_elem(map, key) returns
  KnownFunction        \* the immediates of a call that name a function

VARIABLES
  imem, pc, regs, mem,
  reset,               \* the host holds the machine in reset
  host                 \* [write, dst, input]: it writes a register

vars == <<imem, pc, regs, mem>>

ImmOf(i) == SignExtend(i.imm)
OperandB(i) == IF i.source = "REG" /\ i.code # "END" THEN regs[i.src] ELSE ImmOf(i)
Cut(is64, v) == IF is64 THEN v ELSE Low(v)

(* A value of n bits as a signed number.                                   *)
Signed(n, v) == LET w == v % 2^n IN IF w < 2^(n - 1) THEN w ELSE w - 2^n

(* What the n bytes at an address hold, and the memory with others there.  *)
(* An address within a slice of n bytes stands for the slice.              *)
MemAddr(i) == Address(regs[IF i.class = "LDX" THEN i.src ELSE i.dst], i.offset)
slice(a, n) == {k \in 0 .. 7 : k \div n = (a % 8) \div n}

Loaded(a, n) == (mem[a \div 8] \div ByteMod^Min(slice(a, n))) % ByteMod^n
StoredAt(a, n, v) ==
  [mem EXCEPT ![a \div 8] =
     of_bytes([k \in 0 .. 7 |-> IF k \in slice(a, n) THEN byte(v, k - Min(slice(a, n)))
                                                    ELSE byte(@, k)])]

(* Why the machine may stop at an instruction.                             *)
Exits(i) == i.class = "JMP" /\ i.code = "JEXIT"
Faults(i) == \/ ~valid_instruction(i)
             \/ i.class = "JMP" /\ i.code = "JCALL" /\ i.imm \notin KnownFunction
             \/ i.class \in MemClass /\ MemAddr(i) \notin ValidAddr

Put(r, v) == regs' = [regs EXCEPT ![r] = v] /\ UNCHANGED mem
Continue == pc' = NextPC(pc)

(* Two instruction words make one 64-bit constant.                         *)
LoadImm64(i) ==
  /\ i.class = "LD"
  /\ Put(i.dst, Join(imem[NextPC(pc)].imm, i.imm))
  /\ pc' = NextPC(NextPC(pc))

LoadReg(i) ==
  /\ i.class = "LDX"
  /\ LET n == bytes(i.size)
         v == Loaded(MemAddr(i), n)
     IN  Put(i.dst, IF i.mode = "MEMSX" THEN Signed(n * ByteBits, v) % WordMod ELSE v)
  /\ Continue

StoreMem(i) ==
  /\ i.class = "ST" \/ (i.class = "STX" /\ i.mode = "MEM")
  /\ mem' = StoredAt(MemAddr(i), bytes(i.size), IF i.class = "ST" THEN ImmOf(i) ELSE regs[i.src])
  /\ UNCHANGED regs /\ Continue

(* Bit by bit: both, one or the other.                                     *)
Conjunction(a, b) == number({k \in 0 .. WordBits - 1 : bit(a, k) * bit(b, k) = 1})

BitByBit(op, a, b) ==
  CASE op = "AND" -> Conjunction(a, b)
    [] op = "OR" -> a + b - Conjunction(a, b)
    [] op = "XOR" -> a + b - 2 * Conjunction(a, b)

(* Reading, computing and writing is one step; a compare-and-exchange      *)
(* returns what was there in r0, a fetching operation in src.              *)
NewValue(op, old, v, expected) ==
  CASE op = "ADD" -> (old + v) % WordMod
    [] op = "XCHG" -> v
    [] op = "CMPXCHG" -> IF old = expected THEN v ELSE old
    [] OTHER -> BitByBit(op, old, v)

Atomic(i) ==
  /\ i.class = "STX" /\ i.mode = "ATOMIC"
  /\ LET n == bytes(i.size)
         old == Loaded(MemAddr(i), n)
         new == NewValue(i.aop, old, regs[i.src] % ByteMod^n, regs[0] % ByteMod^n)
         result == IF i.aop = "CMPXCHG" THEN 0 ELSE i.src
     IN  /\ mem' = StoredAt(MemAddr(i), n, new)
         /\ regs' = IF i.fetch THEN [regs EXCEPT ![result] = old] ELSE regs
  /\ Continue

(* Quotients are cut towards zero and remainders have the quotient's sign. *)
Magnitude(x) == IF x < 0 THEN -x ELSE x

Divide(op, n, signed, a, b) ==
  LET x == IF signed THEN Signed(n, a) ELSE a
      y == IF signed THEN Signed(n, b) ELSE b
      v == IF op = "DIV" THEN Magnitude(x) \div Magnitude(y) ELSE Magnitude(x) % Magnitude(y)
  IN  IF b = 0 THEN IF op = "DIV" THEN 0 ELSE a
      ELSE (IF (x < 0) # (y < 0) THEN -v ELSE v) % WordMod

(* Operands of n bits.  A shift counts by the six low bits of its operand; *)
(* a MOV is told how many bits its operand has, an END how many it swaps.  *)
Computed(i, n, a, b) ==
  LET places == b % WordBits
      swapped == i.imm \div 8
  IN  CASE i.code \in {"DIV", "MOD"} -> Divide(i.code, n, i.offset % 2 = 1, a, b)
        [] i.code = "ADD" -> a + b
        [] i.code = "SUB" -> a - b
        [] i.code = "MUL" -> a * b
        [] i.code \in {"OR", "AND", "XOR"} -> BitByBit(i.code, a, b)
        [] i.code = "LSH" -> a * 2^places
        [] i.code = "RSH" -> a \div 2^places
        [] i.code = "ARSH" -> Signed(n, a) \div 2^places
        [] i.code = "NEG" -> WordMod - 1 - a
        [] i.code = "MOV" -> IF i.offset = 0 THEN b ELSE Signed((i.offset \div 8) * ByteBits, b)
        [] i.code = "END" -> of_bytes([k \in 0 .. swapped - 1 |-> byte(a, swapped - 1 - k)])

Arithmetic(i) ==
  /\ i.class \in AluClass
  /\ LET is64 == i.class = "ALU64" \/ i.code = "END"
         n == IF is64 THEN WordBits ELSE WordBits \div 2
         v == Computed(i, n, Cut(is64, regs[i.dst]), Cut(is64, OperandB(i)))
     IN  IF i.class = "ALU" /\ i.code = "END" /\ i.source = "IMM"
         THEN UNCHANGED <<regs, mem>>        \* the machine is little endian
         ELSE Put(i.dst, v % 2^n)
  /\ Continue

(* A comparison of two numbers of n bits.                                  *)
Holds(op, n, a, b) ==
  LET x == Signed(n, a)
      y == Signed(n, b)
  IN  CASE op = "JEQ" -> a = b
        [] op = "JNE" -> a # b
        [] op = "JGT" -> a > b
        [] op = "JGE" -> a >= b
        [] op = "JLT" -> a < b
        [] op = "JLE" -> a <= b
        [] op = "JSGT" -> x > y
        [] op = "JSGE" -> x >= y
        [] op = "JSLT" -> x < y
        [] op = "JSLE" -> x <= y
        [] op = "JSET" -> Conjunction(a, b) # 0

Jump(i) ==
  /\ i.class \in JumpClass /\ i.code \notin {"JCALL", "JEXIT"}
  /\ LET is64 == i.class = "JMP"
         n == IF is64 THEN WordBits ELSE WordBits \div 2
         jump == i.code = "JA" \/ Holds(i.code, n, Cut(is64, regs[i.dst]), Cut(is64, OperandB(i)))
         offset == IF i.class = "JMP32" /\ i.code = "JA" THEN i.imm ELSE i.offset
     IN  pc' = IF jump THEN JumpTo(NextPC(pc), offset) ELSE NextPC(pc)
  /\ UNCHANGED <<regs, mem>>

Call(i) ==
  /\ i.class = "JMP" /\ i.code = "JCALL"
  /\ Put(0, Lookup(regs[1], regs[2]))
  /\ Continue

Step(i) ==
  /\ ~Exits(i) /\ ~Faults(i)
  /\ \/ LoadImm64(i) \/ LoadReg(i) \/ StoreMem(i) \/ Atomic(i)
     \/ Arithmetic(i) \/ Jump(i) \/ Call(i)
  /\ UNCHANGED imem

with_host_write(bank) ==
  IF host'.write THEN [bank EXCEPT ![host'.dst] = host'.input] ELSE bank

(* The program starts over; the memories stay as they are.                 *)
Restart ==
  /\ reset
  /\ pc' = 0 /\ regs' = with_host_write([r \in Regs |-> 0])
  /\ UNCHANGED <<imem, mem>>

(* The host writes a register between two instructions.                    *)
HostWrite ==
  /\ host'.write
  /\ regs' = with_host_write(regs)
  /\ UNCHANGED <<imem, pc, mem>>

Init == pc = 0 /\ regs = [r \in Regs |-> 0]

Next == (~reset /\ Step(imem[pc])) \/ Restart \/ (~reset /\ HostWrite)

Spec == Init /\ [][Next]_vars
=============================================================================
