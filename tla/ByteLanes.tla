------------------------------ MODULE ByteLanes -------------------------------
(***************************************************************************)
(* How the data memory interface (BPF_Data_Mem_Interface.vhd) brings the   *)
(* operand of an access to its bytes of a word, and the bytes that a load  *)
(* asked for to the low end of its result.  The bytes are those of the     *)
(* size's slice that the address falls in: what it points to within the    *)
(* slice is not looked at.                                                 *)
(***************************************************************************)
EXTENDS Instructions

sel_8b(addr) == addr % 8
sel_32b(addr) == sel_8b(addr) \div 4

wea(size, addr) == {k \in 0 .. 7 : k \div bytes(size) = sel_8b(addr) \div bytes(size)}

xchg_output(input, size) == of_bytes([k \in 0 .. 7 |-> byte(input, k % bytes(size))])

written_bytes(old, din, lanes) ==
  of_bytes([k \in 0 .. 7 |-> IF k \in lanes THEN byte(din, k) ELSE byte(old, k)])

(* Fault: the bytes of a word are counted from the address, not from the   *)
(* beginning of the slice.                                                 *)
output_unaligned(dout, size, addr) ==
  (dout \div ByteMod^sel_8b(addr)) % ByteMod^bytes(size)

output(dout, size, addr) ==
  (dout \div ByteMod^((sel_8b(addr) \div bytes(size)) * bytes(size))) % ByteMod^bytes(size)

(* The arithmetic of atomic operations is on 64 bits: the operand of one   *)
(* on the high half has zero below it, and of the result the bytes of the  *)
(* operation are written.                                                  *)
(* Fault: the operand stays where it is.                                   *)
operand_B_low(input, size, addr) == input

operand_B(input, size, addr) ==
  IF size = "SIZE32" /\ sel_32b(addr) = 1 THEN Low(input) * HalfMod ELSE input

alu_output(op, A, B) ==
  CASE op = "ADD" -> (A + B) % WordMod
    [] op = "OR" -> number(ones(A) \union ones(B))
    [] op = "AND" -> number(ones(A) \intersect ones(B))
    [] op = "XOR" -> number(SymDiff(ones(A), ones(B)))
    [] OTHER -> B

(* A compare on the high half compares 32 bits; every other one, the low   *)
(* half included, compares the 64 bits of the word with those of r0.       *)
do_xchg(token, old, size, addr) ==
  \/ size = "SIZE32" /\ sel_32b(addr) = 1 /\ Low(token) = High(old)
  \/ token = old

stored(old, input, size, addr) == written_bytes(old, xchg_output(input, size), wea(size, addr))

modified(op, old, input, token, size, addr) ==
  IF op = "CMPXCHG" /\ ~do_xchg(token, old, size, addr) THEN old
  ELSE written_bytes(old, alu_output(op, old, operand_B(input, size, addr)), wea(size, addr))
=============================================================================
