--------------------------------- MODULE Alu ----------------------------------
(***************************************************************************)
(* The operations of the ALU that take one cycle (BPF_ALU.vhd) and the     *)
(* byte mask (BPF_Byte_Mask.vhd), which it shares with stage WB.  Every    *)
(* operation works on 64 bits; a 32-bit one has operands whose upper half  *)
(* is zero and a result of which the lower half is kept.                   *)
(***************************************************************************)
EXTENDS Instructions

(* Fault: the sign of a byte mask is that of the whole word.               *)
byte_mask_word_sign(v, size, sign_ext) ==
  LET n == bytes(size) * ByteBits
  IN  (v % 2^n) + (IF sign_ext /\ bit(v, WordBits - 1) = 1 THEN WordMod - 2^n ELSE 0)

byte_mask(v, size, sign_ext) ==
  LET n == bytes(size) * ByteBits
  IN  (v % 2^n) + (IF sign_ext /\ bit(v, n - 1) = 1 THEN WordMod - 2^n ELSE 0)

(* Bits of operand B that count: six in the source, for both widths.       *)
shift(B) == B % WordBits

arithmetic_shift(v, n, mod) == ((IF v >= mod \div 2 THEN v - mod ELSE v) \div 2^n) % mod

arsh_bus(is64, A, B) ==
  IF is64 THEN arithmetic_shift(A, shift(B), WordMod) ELSE arithmetic_shift(Low(A), shift(B), HalfMod)

byte_swap(A, n) == of_bytes([k \in 0 .. n - 1 |-> byte(A, n - 1 - k)])

end_bus(A, B) ==
  IF bit(B, 4) = 1 THEN byte_swap(A, 2)
  ELSE IF bit(B, 5) = 1 THEN byte_swap(A, 4)
  ELSE IF bit(B, 6) = 1 THEN byte_swap(A, 8) ELSE A

alu_bus(op, is64, sx_size, A, B) ==
  CASE op = "ADD" -> (A + B) % WordMod
    [] op = "SUB" -> (A - B) % WordMod
    [] op = "MUL" -> (A * B) % WordMod
    [] op = "OR" -> number(ones(A) \union ones(B))
    [] op = "AND" -> number(ones(A) \intersect ones(B))
    [] op = "XOR" -> number(SymDiff(ones(A), ones(B)))
    [] op = "LSH" -> (A * 2^shift(B)) % WordMod
    [] op = "RSH" -> A \div 2^shift(B)
    [] op = "NEG" -> WordMod - 1 - A
    [] op = "ARSH" -> arsh_bus(is64, A, B)
    [] op = "MOV" -> byte_mask(B, sx_size, TRUE)
    [] op = "END" -> end_bus(A, B)
    [] OTHER -> 0
=============================================================================
