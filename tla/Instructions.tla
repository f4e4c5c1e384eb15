----------------------------- MODULE Instructions -----------------------------
(***************************************************************************)
(* The data of the processor, shared by the pipeline's units and by the    *)
(* sequential machine it implements.                                       *)
(*                                                                         *)
(* A register holds eight bytes of ByteBits bits (8 in the source), in a   *)
(* high and a low half of HalfMod values each.  A memory has words of the  *)
(* same width and is addressed by bytes.                                   *)
(***************************************************************************)
EXTENDS InstructionFormat, FiniteSetsExt

CONSTANTS
  PCMod,                \* 2^12 in the source
  ByteBits,
  ValidAddr             \* addresses that fall in the unshared or the shared memory

ByteMod == 2^ByteBits
WordBits == 8 * ByteBits
Data == 0 .. WordMod - 1
PC == 0 .. PCMod - 1

ASSUME PCOK == PCMod \in 1 .. WordMod

ASSUME ByteOK == ByteBits \in Nat \ {0} /\ HalfMod = 2^(4 * ByteBits)

(* The powers that occur are what they are: the provers know no others     *)
(* than those of numbers.                                                  *)
ASSUME PowersOK ==
  /\ \A k \in 0 .. WordBits - 1 : 2^(k + 1) = 2 * 2^k
  /\ ByteMod^0 = 1 /\ \A k \in 0 .. 7 : ByteMod^(k + 1) = ByteMod * ByteMod^k

(* The memories hold whole words.                                          *)
ASSUME AddrOK ==
  /\ ValidAddr \subseteq Data
  /\ \A a \in ValidAddr : {8 * (a \div 8) + k : k \in 0 .. 7} \subseteq ValidAddr

WordAddr == {a \div 8 : a \in ValidAddr}
Memory == [WordAddr -> Data]

bytes(size) ==
  CASE size = "SIZE8" -> 1 [] size = "SIZE16" -> 2 [] size = "SIZE32" -> 4 [] size = "SIZE64" -> 8

(* A 64-bit value of two halves, and what a 32-bit operation keeps of it.  *)
Join(high, low) == high * HalfMod + low
Low(v) == v % HalfMod
High(v) == v \div HalfMod

SignExtend(h) == IF h >= HalfMod \div 2 THEN Join(HalfMod - 1, h) ELSE h

(* The bits of a value, its bytes, and back.                               *)
bit(v, k) == (v \div 2^k) % 2
ones(v) == {k \in 0 .. WordBits - 1 : bit(v, k) = 1}
number(K) == MapThenSumSet(LAMBDA k : 2^k, K)

byte(v, k) == (v \div ByteMod^k) % ByteMod
of_bytes(b) == MapThenSumSet(LAMBDA k : b[k] * ByteMod^k, DOMAIN b)

NextPC(pc) == (pc + 1) % PCMod

(* Fault: the target of a jump is not cut to the program counter.          *)
JumpTo_uncut(pc1, offset) == pc1 + offset

JumpTo(pc1, offset) == (pc1 + offset) % PCMod
Address(base, offset) == (base + offset) % WordMod
=============================================================================
