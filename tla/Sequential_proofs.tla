------------------------- MODULE Sequential_proofs -------------------------
(***************************************************************************)
(* The pipeline does what the instructions of a program mean.  That it     *)
(* executes one instruction after the other is proved in InOrder_proofs;   *)
(* here it is proved that the units, which have bits, magnitudes, byte     *)
(* lanes and one unsigned comparison, do with one instruction what         *)
(* SequentialMachine says with numbers: for bytes of every number of bits, *)
(* of which the source has eight.                                          *)
(***************************************************************************)
EXTENDS InOrder_proofs

(* The sequential machine has a copy of the definitions of values: the     *)
(* same ones.                                                              *)
LEMMA SameNames ==
  /\ Sequential!WordBits = WordBits /\ Sequential!ByteMod = ByteMod
  /\ Sequential!WordMod = WordMod
  /\ \A v, k : Sequential!bit(v, k) = bit(v, k) /\ Sequential!byte(v, k) = byte(v, k)
  /\ \A v : Sequential!Low(v) = Low(v) /\ Sequential!SignExtend(v) = SignExtend(v)
  /\ \A h, l : Sequential!Join(h, l) = Join(h, l)
  /\ \A size : Sequential!bytes(size) = bytes(size)
  /\ \A b, o : Sequential!Address(b, o) = Address(b, o) /\ Sequential!JumpTo(b, o) = JumpTo(b, o)
  /\ \A p : Sequential!NextPC(p) = NextPC(p)
<1>0. Sequential!WordBits = WordBits /\ Sequential!ByteMod = ByteMod /\ Sequential!WordMod = WordMod
  BY DEF Sequential!WordBits, WordBits, Sequential!ByteMod, ByteMod, Sequential!WordMod, WordMod
<1>1. \A v, k : Sequential!bit(v, k) = bit(v, k) /\ Sequential!byte(v, k) = byte(v, k)
  BY <1>0 DEF Sequential!bit, bit, Sequential!byte, byte
<1>2. \A v : Sequential!Low(v) = Low(v) 
  BY DEF Sequential!Low, Low
<1>3. \A h, l : Sequential!Join(h, l) = Join(h, l)
  BY DEF Sequential!Join, Join
<1>4. \A v : Sequential!SignExtend(v) = SignExtend(v)
  BY <1>3 DEF Sequential!SignExtend, SignExtend
<1>5. \A size : Sequential!bytes(size) = bytes(size)
  BY DEF Sequential!bytes, bytes
<1>6. \A b, o : Sequential!Address(b, o) = Address(b, o) /\ Sequential!JumpTo(b, o) = JumpTo(b, o)
  BY <1>0 DEF Sequential!Address, Address, Sequential!JumpTo, JumpTo
<1>7. \A p : Sequential!NextPC(p) = NextPC(p)
  BY DEF Sequential!NextPC, NextPC
<1> QED
  BY <1>0, <1>1, <1>2, <1>3, <1>4, <1>5, <1>6, <1>7

(* And of the numbers that bits and bytes make.                            *)
LEMMA SameSums ==
  /\ \A K : Sequential!number(K) = number(K)
  /\ \A b : Sequential!of_bytes(b) = of_bytes(b)
<1>1. \A K : Sequential!number(K) = number(K)
  BY ZenonT(40) DEF Sequential!number, number, Sequential!MapThenSumSet, MapThenSumSet,
       Sequential!MapThenFoldSet, MapThenFoldSet
<1>2. \A b : Sequential!of_bytes(b) = of_bytes(b)
  BY SameNames, ZenonT(40)
       DEF Sequential!of_bytes, of_bytes, Sequential!MapThenSumSet, MapThenSumSet,
         Sequential!MapThenFoldSet, MapThenFoldSet
<1> QED
  BY <1>1, <1>2

(* The least number of a set.                                              *)
LEMMA SameMin == \A S : Sequential!Min(S) = CHOOSE x \in S : \A y \in S : x <= y
  BY DEF Sequential!Min
-----------------------------------------------------------------------------
(***************************************************************************)
(* Bits, bytes and halves of a value.                                      *)
(***************************************************************************)
(* Two divisions are one.                                                  *)
LEMMA NestedQuotient ==
  ASSUME NEW b \in Nat \ {0}, NEW c \in Nat \ {0}, NEW a \in Int
  PROVE  (a \div b) \div c = a \div (b * c)
<1>0. b * c \in Nat \ {0} /\ \A x \in Int : x * b \in Int
  OBVIOUS
<1>1. PICK q \in Int, r \in 0 .. b - 1 : q = a \div b /\ a = q * b + r
  BY Quotient
<1>2. PICK p \in Int, s \in 0 .. c - 1 : p = q \div c /\ q = p * c + s
  BY Quotient
<1>3. s * b + r \in 0 .. (b * c) - 1
  <2>1. s * b >= 0 /\ s * b \in Int
    OBVIOUS
  <2>2. (s + 1) * b <= c * b
    OBVIOUS
  <2>3. s * b + b <= b * c
    BY <2>2
  <2> QED
    BY <2>1, <2>3
<1>4. a = p * (b * c) + (s * b + r)
  <2>1. q * b = p * (b * c) + s * b
    BY <1>2
  <2> QED
    BY <1>1, <2>1
<1>5. PICK m \in Nat \ {0}, t \in Nat : m = b * c /\ t = s * b + r /\ t \in 0 .. m - 1
  BY <1>0, <1>3
<1>6. (p * m + t) \div m = p
  BY <1>2, <1>5, QuotientUnique
<1> QED
  BY <1>1, <1>2, <1>4, <1>5, <1>6

(* What is left of a remainder.                                            *)
LEMMA NestedRemainder ==
  ASSUME NEW b \in Nat \ {0}, NEW c \in Nat \ {0}, NEW a \in Int
  PROVE  /\ (a % (b * c)) % b = a % b
         /\ (a % (b * c)) \div b = (a \div b) % c
<1>0. PICK d \in Int : d = a \div b
  BY Quotient
<1>1. PICK q \in Int, r \in Int : q = d % c /\ r = a % b /\ r \in 0 .. b - 1
  BY <1>0, Quotient
<1>2. a % (b * c) = q * b + r
  BY <1>0, <1>1, SplitRemainder
<1>3. (q * b + r) \div b = q /\ (q * b + r) % b = r
  BY <1>1, QuotientUnique
<1> QED
  BY <1>0, <1>1, <1>2, <1>3

(* The operations, where only what is proved above is needed of them.      *)
quo(a, c) == a \div c
rem(a, c) == a % c
times(a, b) == a * b
pos == Nat \ {0}

(* Two quotients or remainders are one, and a quotient of a remainder is a *)
(* remainder of a quotient.                                                *)
LEMMA Operations ==
  /\ \A c \in pos : \A a \in Int : quo(a, c) \in Int /\ rem(a, c) \in Int
  /\ \A b, c \in pos : times(b, c) \in pos
  /\ \A a, b, c \in Int : times(times(a, b), c) = times(a, times(b, c)) /\ times(a, b) = times(b, a)
  /\ \A c \in pos : c \in Int
  /\ \A b, c \in pos : \A a \in Int :
       /\ quo(quo(a, b), c) = quo(a, times(b, c))
       /\ rem(rem(a, times(b, c)), b) = rem(a, b)
       /\ quo(rem(a, times(b, c)), b) = rem(quo(a, b), c)
<1>1. \A c \in pos : \A a \in Int : quo(a, c) \in Int /\ rem(a, c) \in Int
  BY Quotient DEF quo, rem, pos
<1>2. \A b, c \in pos : times(b, c) \in pos
  BY DEF times, pos
<1>3. \A a, b, c \in Int : times(times(a, b), c) = times(a, times(b, c))
        /\ times(a, b) = times(b, a)
  BY DEF times
<1>4. ASSUME NEW b \in pos, NEW c \in pos, NEW a \in Int
      PROVE  /\ quo(quo(a, b), c) = quo(a, times(b, c))
             /\ rem(rem(a, times(b, c)), b) = rem(a, b)
             /\ quo(rem(a, times(b, c)), b) = rem(quo(a, b), c)
  <2>1. b \in Nat \ {0} /\ c \in Nat \ {0}
    BY DEF pos
  <2> QED
    BY <2>1, NestedQuotient, NestedRemainder DEF quo, rem, times
<1>5. \A c \in pos : c \in Int
  BY DEF pos
<1> QED
  BY <1>1, <1>2, <1>3, <1>4, <1>5

(* A digit does not depend on what is above it.                            *)
LEMMA DigitOfLow ==
  ASSUME NEW p \in pos, NEW B \in pos, NEW r \in pos, NEW v \in Int
  PROVE  rem(quo(rem(v, times(p, times(B, r))), p), B) = rem(quo(v, p), B)
BY Operations

(* What a 32-bit operation keeps.                                          *)
LEMMA LowOf ==
  /\ \A v \in Int : Low(v % WordMod) = Low(v) /\ Low(Low(v)) = Low(v) /\ Low(v) \in Half32
  /\ \A v \in Half32 : Low(v) = v /\ v \in Data
  /\ \A v \in Data : v % WordMod = v
<1>0. HalfMod \in Nat \ {0} /\ WordMod \in Nat \ {0} /\ WordMod = HalfMod * HalfMod
  BY WordsArePowers DEF WordMod
<1>1. \A v \in Int : Low(v % WordMod) = Low(v)
  <2>1. WordMod = times(HalfMod, HalfMod) /\ HalfMod \in pos
    BY <1>0 DEF times, pos
  <2>2. \A v \in Int : rem(rem(v, WordMod), HalfMod) = rem(v, HalfMod)
    BY <2>1, Operations
  <2> QED
    BY <2>2 DEF Low, rem
<1>2. \A v \in Int : Low(v) \in Half32
  BY <1>0, Quotient DEF Low, Half32
<1>3. \A v \in Half32 : Low(v) = v
  BY <1>0, SmallQuotient DEF Low, Half32
<1>4. \A v \in Data : v % WordMod = v
  BY <1>0, SmallQuotient DEF Data
<1>5. \A v \in Half32 : v \in Data
  <2>1. HalfMod <= HalfMod * HalfMod
    BY <1>0
  <2> QED
    BY <1>0, <2>1 DEF Half32, Data
<1> QED
  BY <1>1, <1>2, <1>3, <1>4, <1>5

(* Powers that make up a half and a word.                                  *)
LEMMA PowersMultiply ==
  /\ HalfMod \in pos /\ 2 \in pos /\ ByteMod \in pos
  /\ \A k \in 0 .. 8 : ByteMod^k \in pos
  /\ \A k \in 0 .. 3 : /\ HalfMod = times(ByteMod^k, times(ByteMod, ByteMod^(3 - k)))
                       /\ ByteMod^(k + 4) = times(HalfMod, ByteMod^k)
  /\ \A k \in 0 .. WordBits : 2^k \in pos
  /\ \A k \in 0 .. 4 * ByteBits - 1 :
       /\ HalfMod = times(2^k, times(2, 2^(4 * ByteBits - 1 - k)))
       /\ 2^(k + 4 * ByteBits) = times(HalfMod, 2^k)
<1>0. HalfMod \in pos /\ 2 \in pos /\ ByteMod \in pos /\ ByteMod \in Nat /\ 4 * ByteBits \in Nat
      /\ 4 * ByteBits + 4 * ByteBits = WordBits
  BY WordsArePowers, ExactWidths DEF pos
<1>1. \A k \in 0 .. WordBits : 2^k \in pos
  BY Powers DEF pos
<1>2. \A k \in 0 .. 8 : ByteMod^k \in pos
  BY <1>1, WordsArePowers
<1>3. ASSUME NEW k \in 0 .. 4 * ByteBits - 1
      PROVE  /\ HalfMod = times(2^k, times(2, 2^(4 * ByteBits - 1 - k)))
             /\ 2^(k + 4 * ByteBits) = times(HalfMod, 2^k)
  <2>1. PICK m \in Nat : m = 4 * ByteBits - 1 - k
    BY <1>0
  <2>2. /\ k \in 0 .. WordBits /\ m \in 0 .. WordBits - 1 /\ m + 1 \in 0 .. WordBits
        /\ 4 * ByteBits \in 0 .. WordBits
        /\ k + (m + 1) = 4 * ByteBits /\ k + 4 * ByteBits = 4 * ByteBits + k
        /\ 4 * ByteBits + k <= WordBits
    BY <1>0, <2>1
  <2>3. 2^(k + (m + 1)) = 2^k * 2^(m + 1) /\ 2^(m + 1) = 2 * 2^m
    BY <1>0, <2>2, Powers, PowersOK
  <2>4. 2^(4 * ByteBits + k) = 2^(4 * ByteBits) * 2^k
    BY <2>2, Powers
  <2> QED
    BY <2>1, <2>2, <2>3, <2>4, WordsArePowers DEF times
<1>4. ASSUME NEW k \in 0 .. 3
      PROVE  /\ HalfMod = times(ByteMod^k, times(ByteMod, ByteMod^(3 - k)))
             /\ ByteMod^(k + 4) = times(HalfMod, ByteMod^k)
  <2>1. PICK m \in 0 .. 3 : m = 3 - k
    OBVIOUS
  <2>2. /\ k \in 0 .. 8 /\ m \in 0 .. 7 /\ m + 1 \in 0 .. 8 /\ 4 \in 0 .. 8 /\ k + 4 \in 0 .. 8
        /\ k + (m + 1) = 4
    BY <2>1
  <2>3. ByteMod^(m + 1) = times(ByteMod, ByteMod^m)
    BY <2>2, PowersOK DEF times
  <2>4. /\ ByteMod^4 = 2^(4 * ByteBits) /\ ByteMod^k = 2^(k * ByteBits)
        /\ ByteMod^(m + 1) = 2^((m + 1) * ByteBits) /\ ByteMod^(k + 4) = 2^((k + 4) * ByteBits)
        /\ 4 * ByteBits \in 0 .. WordBits /\ k * ByteBits \in 0 .. WordBits
        /\ (m + 1) * ByteBits \in 0 .. WordBits /\ (k + 4) * ByteBits \in 0 .. WordBits
    BY <2>2, WordsArePowers
  <2>5. /\ k * ByteBits + (m + 1) * ByteBits = 4 * ByteBits
        /\ 4 * ByteBits + k * ByteBits = (k + 4) * ByteBits
    BY <2>1, ExactWidths
  <2>6. /\ 2^(k * ByteBits + (m + 1) * ByteBits) = 2^(k * ByteBits) * 2^((m + 1) * ByteBits)
        /\ 2^(4 * ByteBits + k * ByteBits) = 2^(4 * ByteBits) * 2^(k * ByteBits)
    BY <2>4, <2>5, Powers
  <2>7. HalfMod = 2^(4 * ByteBits)
    BY WordsArePowers
  <2> QED
    BY <2>1, <2>3, <2>4, <2>5, <2>6, <2>7 DEF times
<1> QED
  BY <1>0, <1>1, <1>2, <1>3, <1>4

(* The bytes of the halves of a value.                                     *)
LEMMA HalfBytes ==
  ASSUME NEW v \in Int, NEW k \in 0 .. 3
  PROVE  byte(Low(v), k) = byte(v, k) /\ byte(High(v), k) = byte(v, k + 4)
<1>1. /\ HalfMod \in pos /\ ByteMod \in pos /\ ByteMod^k \in pos /\ ByteMod^(3 - k) \in pos
      /\ HalfMod = times(ByteMod^k, times(ByteMod, ByteMod^(3 - k)))
      /\ ByteMod^(k + 4) = times(HalfMod, ByteMod^k)
  <2>1. k \in 0 .. 8 /\ 3 - k \in 0 .. 8
    OBVIOUS
  <2> QED
    BY <2>1, PowersMultiply
<1>2. rem(quo(rem(v, HalfMod), ByteMod^k), ByteMod) = rem(quo(v, ByteMod^k), ByteMod)
  BY <1>1, DigitOfLow
<1>3. rem(quo(quo(v, HalfMod), ByteMod^k), ByteMod) = rem(quo(v, ByteMod^(k + 4)), ByteMod)
  <2>1. quo(quo(v, HalfMod), ByteMod^k) = quo(v, times(HalfMod, ByteMod^k))
    BY <1>1, Operations, ZenonT(40)
  <2> QED
    BY <1>1, <2>1
<1> QED
  BY <1>2, <1>3 DEF rem, quo, byte, Low, High

(* And its bits.                                                           *)
LEMMA HalfBits ==
  ASSUME NEW v \in Data, NEW k \in 0 .. WordBits - 1
  PROVE  /\ bit(Low(v), k) = IF k < 4 * ByteBits THEN bit(v, k) ELSE 0
         /\ bit(High(v), k) = IF k < 4 * ByteBits THEN bit(v, k + 4 * ByteBits) ELSE 0
<1>0. /\ 4 * ByteBits \in Nat /\ 4 * ByteBits + 4 * ByteBits = WordBits /\ WordBits \in Nat
      /\ v \in Int /\ Low(v) \in Half32 /\ High(v) \in Half32
  BY ExactWidths, Halves
<1>1. CASE k < 4 * ByteBits
  <2>1. PICK m \in Nat : m = 4 * ByteBits - 1 - k
    BY <1>0, <1>1
  <2>2. /\ HalfMod \in pos /\ 2 \in pos /\ 2^k \in pos /\ 2^m \in pos
        /\ HalfMod = times(2^k, times(2, 2^m))
        /\ 2^(k + 4 * ByteBits) = times(HalfMod, 2^k)
    <3>1. k \in 0 .. 4 * ByteBits - 1 /\ k \in 0 .. WordBits /\ m \in 0 .. WordBits
      BY <1>0, <1>1, <2>1
    <3> QED
      BY <2>1, <3>1, PowersMultiply
  <2>3. rem(quo(rem(v, HalfMod), 2^k), 2) = rem(quo(v, 2^k), 2)
    BY <1>0, <2>2, DigitOfLow
  <2>4. rem(quo(quo(v, HalfMod), 2^k), 2) = rem(quo(v, 2^(k + 4 * ByteBits)), 2)
    <3>1. quo(quo(v, HalfMod), 2^k) = quo(v, times(HalfMod, 2^k))
      BY <1>0, <2>2, Operations, ZenonT(40)
    <3> QED
      BY <2>2, <3>1
  <2> QED
    BY <1>1, <2>3, <2>4 DEF rem, quo, bit, Low, High
<1>2. CASE ~(k < 4 * ByteBits)
  <2>1. PICK j \in Nat : j = k - 4 * ByteBits
    BY <1>0, <1>2
  <2>2. HalfMod <= 2^k /\ 2^k \in Nat \ {0}
    <3>1. 4 * ByteBits \in 0 .. WordBits /\ j \in 0 .. WordBits /\ 4 * ByteBits + j = k
          /\ k <= WordBits /\ k \in 0 .. WordBits
      BY <1>0, <2>1
    <3>2. 2^(4 * ByteBits + j) = 2^(4 * ByteBits) * 2^j /\ 2^j \in Nat \ {0} /\ 2^k \in Nat \ {0}
      BY <3>1, Powers
    <3>3. HalfMod \in Nat /\ HalfMod = 2^(4 * ByteBits)
      BY WordsArePowers
    <3>4. \A x \in Nat : \A y \in Nat \ {0} : x <= x * y
      OBVIOUS
    <3> QED
      BY <3>1, <3>2, <3>3, <3>4
  <2>3. \A x \in Half32 : bit(x, k) = 0
    <3> TAKE x \in Half32
    <3>1. x \in 0 .. 2^k - 1
      BY <2>2, WordsArePowers DEF Half32
    <3>2. x \div 2^k = 0
      BY <2>2, <3>1, SmallQuotient
    <3> QED
      BY <3>2 DEF bit
  <2> QED
    BY <1>0, <1>2, <2>3
<1> QED
  BY <1>1, <1>2

(* The bytes of a word make it up.                                         *)
LEMMA BytesMakeWord ==
  ASSUME NEW v \in Data
  PROVE  of_bytes([k \in 0 .. 7 |-> byte(v, k)]) = v
<1>1. PICK n \in Nat : n = 8
  OBVIOUS
<1> DEFINE b == [k \in 0 .. n - 1 |-> byte(v, k)]
           F == [k \in 0 .. n - 1 |-> byte(v, k) * ByteMod^k]
<1>2. DOMAIN b = 0 .. n - 1 /\ IsFiniteSet(0 .. n - 1)
  BY FS_Interval
<1>3. \A k \in 0 .. n - 1 : F[k] = b[k] * ByteMod^k
  OBVIOUS
<1>4. \A k \in 0 .. n - 1 : F[k] = digit(v, byte_places, ByteMod, k) * byte_places[k]
  BY <1>1, BytesAreDigits DEF byte_places
<1>5. v \in Nat /\ b = [k \in 0 .. 7 |-> byte(v, k)]
  BY <1>1, Halves
<1> HIDE DEF b, F
<1>6. of_bytes(b) = sum(0 .. n - 1, F)
  BY <1>2, <1>3, BytesAreSum
<1>7. weights(byte_places, ByteMod, n) /\ byte_places[n] = WordMod
  BY <1>1, Weights
<1>8. sum(0 .. n - 1, F) = v % byte_places[n]
  BY <1>4, <1>5, <1>7, SumOfDigits
<1> QED
  BY <1>5, <1>6, <1>7, <1>8, LowOf

(* The places of disjoint sets of bits add up.                             *)
LEMMA NumberOfUnion ==
  ASSUME NEW K \in SUBSET (0 .. WordBits - 1), NEW L \in SUBSET (0 .. WordBits - 1)
  PROVE  K \intersect L = {} => number(K \union L) = number(K) + number(L)
<1> SUFFICES K \intersect L = {} => sum(K \union L, places) = sum(K, places) + sum(L, places)
  <2>1. K \union L \in SUBSET (0 .. WordBits - 1)
    OBVIOUS
  <2> QED
    BY <2>1, NumberIsSum
<1>1. IsFiniteSet(K) /\ IsFiniteSet(L)
  <2>1. IsFiniteSet(0 .. WordBits - 1)
    BY ExactWidths, FS_Interval
  <2> QED
    BY <2>1, FS_Subset
<1>2. \A k \in K \union L : places[k] \in Int
  <2>1. \A k \in 0 .. WordBits - 1 : k \in 0 .. WordBits
    BY ExactWidths
  <2> QED
    BY <2>1, Powers DEF places
<1>3. ASSUME NEW S, NEW T, IsFiniteSet(S), IsFiniteSet(T), \A k \in S \union T : places[k] \in Int
      PROVE  S \intersect T = {} => sum(S \union T, places) = sum(S, places) + sum(T, places)
  BY <1>3, SumOfUnion
<1> QED
  BY <1>1, <1>2, <1>3, Zenon

(* Bit by bit: the bits of one, of both or of either of two values.        *)
combined(op, K, L) ==
  CASE op = "OR" -> K \union L [] op = "AND" -> K \intersect L [] op = "XOR" -> SymDiff(K, L)

bitwise(op, a, b) == number(combined(op, ones(a), ones(b)))

BitOps == {"OR", "AND", "XOR"}

(* The bits of what they give.                                             *)
LEMMA BitwiseBits ==
  ASSUME NEW op \in BitOps, NEW a, NEW b
  PROVE  /\ bitwise(op, a, b) \in Data
         /\ \A k \in 0 .. WordBits - 1 :
              bit(bitwise(op, a, b), k) = 1 <=> k \in combined(op, ones(a), ones(b))
<1>1. combined(op, ones(a), ones(b)) \in SUBSET (0 .. WordBits - 1)
  <2>1. ones(a) \subseteq 0 .. WordBits - 1 /\ ones(b) \subseteq 0 .. WordBits - 1
    BY DEF ones
  <2> QED
    BY <2>1 DEF combined, SymDiff, BitOps
<1>2. number(combined(op, ones(a), ones(b))) \in Data
  BY <1>1, NumberHasBits
<1>3. ones(number(combined(op, ones(a), ones(b)))) = combined(op, ones(a), ones(b))
  BY <1>1, NumberHasBits
<1>4. \A v : \A k \in 0 .. WordBits - 1 : bit(v, k) = 1 <=> k \in ones(v)
  BY DEF ones
<1> QED
  BY <1>2, <1>3, <1>4 DEF bitwise

(* A bit is zero or one.                                                   *)
LEMMA BitOfData ==
  ASSUME NEW v \in Data, NEW k \in 0 .. WordBits - 1
  PROVE  bit(v, k) \in {0, 1}
<1>1. PICK p \in Nat \ {0} : p = 2^k
  <2>1. k \in 0 .. WordBits
    BY ExactWidths
  <2> QED
    BY <2>1, Powers
<1>2. PICK q \in Int : q = v \div p
  BY Halves, Quotient
<1>3. q % 2 \in {0, 1}
  BY <1>2
<1> QED
  BY <1>1, <1>2, <1>3 DEF bit

(* The three operations in terms of the bits that both values have.        *)
LEMMA BitByBitIs ==
  ASSUME NEW op \in BitOps, NEW a \in Data, NEW b \in Data
  PROVE  Sequential!BitByBit(op, a, b) = bitwise(op, a, b)
<1> DEFINE A == ones(a)
           B == ones(b)
           all == 0 .. WordBits - 1
<1>1. A \in SUBSET all /\ B \in SUBSET all /\ number(A) = a /\ number(B) = b
  BY BitsMakeNumber
<1>2. Sequential!Conjunction(a, b) = number(A \intersect B)
  <2>1. \A k \in all : bit(a, k) * bit(b, k) = 1 <=> bit(a, k) = 1 /\ bit(b, k) = 1
    <3> TAKE k \in all
    <3>1. bit(a, k) \in {0, 1} /\ bit(b, k) \in {0, 1}
      BY BitOfData
    <3> QED
      BY <3>1
  <2>2. {k \in all : bit(a, k) * bit(b, k) = 1} = A \intersect B
    BY <2>1 DEF ones
  <2> QED
    BY <2>2, SameNames, SameSums DEF Sequential!Conjunction
<1> HIDE DEF A, B
<1>3. A \intersect B \in SUBSET all /\ A \ B \in SUBSET all /\ B \ A \in SUBSET all
      /\ SymDiff(A, B) = (A \ B) \union (B \ A)
  BY <1>1 DEF SymDiff
<1>4. /\ number((A \ B) \union (A \intersect B)) = number(A \ B) + number(A \intersect B)
      /\ number((B \ A) \union (A \intersect B)) = number(B \ A) + number(A \intersect B)
      /\ number((A \ B) \union (B \ A)) = number(A \ B) + number(B \ A)
      /\ number(A \union (B \ A)) = number(A) + number(B \ A)
  <2>1. /\ (A \ B) \intersect (A \intersect B) = {} /\ (B \ A) \intersect (A \intersect B) = {}
        /\ (A \ B) \intersect (B \ A) = {} /\ A \intersect (B \ A) = {}
    OBVIOUS
  <2> QED
    BY <1>1, <1>3, <2>1, NumberOfUnion
<1>5. /\ (A \ B) \union (A \intersect B) = A /\ (B \ A) \union (A \intersect B) = B
      /\ A \union (B \ A) = A \union B
  OBVIOUS
<1>6. /\ number(A \ B) \in Int /\ number(B \ A) \in Int /\ number(A \intersect B) \in Int
      /\ a \in Int /\ b \in Int
  BY <1>1, <1>3, NumberHasBits, Halves, SMTT(30)
<1>7. /\ number(A \union B) = a + b - number(A \intersect B)
      /\ number(SymDiff(A, B)) = a + b - 2 * number(A \intersect B)
  <2>1. PICK x \in Int, y \in Int, z \in Int :
          x = number(A \ B) /\ y = number(B \ A) /\ z = number(A \intersect B)
    BY <1>6
  <2>2. /\ a = x + z /\ b = y + z
        /\ number(SymDiff(A, B)) = x + y /\ number(A \union B) = a + y
    BY <1>1, <1>3, <1>4, <1>5, <2>1
  <2> QED
    BY <2>1, <2>2
<1> QED
  BY <1>2, <1>7 DEF Sequential!BitByBit, bitwise, combined, BitOps, A, B

(* The halves of the operations.                                           *)
LEMMA BitwiseHalves ==
  ASSUME NEW op \in BitOps, NEW a \in Data, NEW b \in Data, NEW l \in Half32
  PROVE  /\ Low(bitwise(op, a, b)) = bitwise(op, Low(a), Low(b))
         /\ High(bitwise(op, a, Join(l, 0))) = bitwise(op, High(a), l)
<1>0. /\ 4 * ByteBits \in Nat /\ WordBits \in Nat /\ 4 * ByteBits + 4 * ByteBits = WordBits
      /\ Low(a) \in Data /\ Low(b) \in Data /\ High(a) \in Data /\ l \in Data
      /\ Join(l, 0) \in Data /\ High(Join(l, 0)) = l
  <2>1. /\ 4 * ByteBits \in Nat /\ WordBits \in Nat /\ 4 * ByteBits + 4 * ByteBits = WordBits
    BY ExactWidths
  <2>2. Low(a) \in Data /\ Low(b) \in Data /\ High(a) \in Data /\ l \in Data
    BY Halves, LowOf
  <2>3. 0 \in Half32
    BY WordsArePowers DEF Half32
  <2>4. Join(l, 0) \in Data /\ High(Join(l, 0)) = l
    BY <2>3, Halves
  <2> QED
    BY <2>1, <2>2, <2>4
<1>1. \A v \in Data : \A k \in 0 .. WordBits - 1 : k \in ones(v) <=> bit(v, k) = 1
  BY DEF ones
<1>2. ASSUME NEW v \in Data, NEW w \in Data,
             \A k \in 0 .. WordBits - 1 : bit(v, k) = 1 <=> bit(w, k) = 1
      PROVE  v = w
  <2>1. \A k \in 0 .. WordBits - 1 : bit(v, k) \in {0, 1} /\ bit(w, k) \in {0, 1}
    BY BitOfData
  <2> QED
    BY <1>2, <2>1, SameBits
<1>3. Low(bitwise(op, a, b)) = bitwise(op, Low(a), Low(b))
  <2> DEFINE v == bitwise(op, a, b)
  <2>1. v \in Data /\ Low(v) \in Data /\ bitwise(op, Low(a), Low(b)) \in Data
    BY BitwiseBits, Halves, LowOf
  <2>2. ASSUME NEW k \in 0 .. WordBits - 1
        PROVE  bit(Low(v), k) = 1 <=> bit(bitwise(op, Low(a), Low(b)), k) = 1
    <3>1. /\ bit(Low(v), k) = 1 <=> k < 4 * ByteBits /\ k \in combined(op, ones(a), ones(b))
          /\ k \in ones(Low(a)) <=> k < 4 * ByteBits /\ k \in ones(a)
          /\ k \in ones(Low(b)) <=> k < 4 * ByteBits /\ k \in ones(b)
          /\ bit(bitwise(op, Low(a), Low(b)), k) = 1
               <=> k \in combined(op, ones(Low(a)), ones(Low(b)))
      BY <1>0, <1>1, <2>1, BitwiseBits, HalfBits
    <3> QED
      BY <3>1 DEF combined, SymDiff, BitOps
  <2> HIDE DEF v
  <2> QED
    BY <1>2, <2>1, <2>2 DEF v
<1>4. High(bitwise(op, a, Join(l, 0))) = bitwise(op, High(a), l)
  <2> DEFINE b2 == Join(l, 0)
             v == bitwise(op, a, b2)
  <2>1. v \in Data /\ High(v) \in Data /\ bitwise(op, High(a), l) \in Data
    BY BitwiseBits, Halves, LowOf
  <2>2. ASSUME NEW k \in 0 .. WordBits - 1
        PROVE  bit(High(v), k) = 1 <=> bit(bitwise(op, High(a), l), k) = 1
    <3>1. CASE k < 4 * ByteBits
      <4>1. PICK j \in 0 .. WordBits - 1 : j = k + 4 * ByteBits
        BY <1>0, <3>1
      <4>2. /\ bit(High(v), k) = 1 <=> j \in combined(op, ones(a), ones(b2))
            /\ k \in ones(High(a)) <=> j \in ones(a)
            /\ k \in ones(l) <=> j \in ones(b2)
            /\ bit(bitwise(op, High(a), l), k) = 1 <=> k \in combined(op, ones(High(a)), ones(l))
        BY <1>0, <1>1, <2>1, <3>1, <4>1, BitwiseBits, HalfBits
      <4> QED
        BY <4>2 DEF combined, SymDiff, BitOps
    <3>2. CASE ~(k < 4 * ByteBits)
      <4>1. /\ bit(High(v), k) = 0 /\ k \notin ones(High(a)) /\ k \notin ones(l)
            /\ bit(bitwise(op, High(a), l), k) = 1 <=> k \in combined(op, ones(High(a)), ones(l))
        BY <1>0, <1>1, <2>1, <3>2, BitwiseBits, HalfBits
      <4> QED
        BY <4>1 DEF combined, SymDiff, BitOps
    <3> QED
      BY <3>1, <3>2
  <2> HIDE DEF v
  <2> QED
    BY <1>2, <2>1, <2>2 DEF v
<1> QED
  BY <1>3, <1>4
-----------------------------------------------------------------------------
(***************************************************************************)
(* Branches and arithmetic.                                                *)
(***************************************************************************)
(* Remainders of a number with a sign.                                     *)
LEMMA NegativeRemainder ==
  ASSUME NEW c \in Nat \ {0}, NEW x \in Int, -c <= x, x < 0
  PROVE  x % c = x + c
<1>1. PICK r \in Int : r = x + c /\ r \in 0 .. c - 1
  OBVIOUS
<1>2. PICK q \in Int : q = -1
  OBVIOUS
<1>3. (q * c + r) % c = r
  BY <1>1, <1>2, QuotientUnique
<1>4. q * c + r = x
  BY <1>1, <1>2
<1> QED
  BY <1>1, <1>3, <1>4

(* A quotient and a remainder are no more than the dividend.               *)
LEMMA DivisionSmall ==
  ASSUME NEW M \in Nat, NEW N \in Nat \ {0}
  PROVE  M \div N \in 0 .. M /\ M % N \in 0 .. M
<1>1. PICK q \in Int, r \in Int : q = M \div N /\ r = M % N /\ M = q * N + r /\ q >= 0 /\ r >= 0
  BY Quotient
<1>2. q <= q * N /\ q * N \in Int
  BY <1>1
<1> QED
  BY <1>1, <1>2

(* The highest bit and the others.                                         *)
LEMMA TopBit ==
  ASSUME NEW p \in Nat \ {0}, NEW a \in Int
  PROVE  a % (p * 2) = ((a \div p) % 2) * p + (a % p)
<1>1. \A c \in Nat \ {0} : a % (p * c) = ((a \div p) % c) * p + (a % p)
  BY SplitRemainder
<1>2. 2 \in Nat \ {0}
  OBVIOUS
<1> QED
  BY <1>1, <1>2, Zenon

(* Operands of an operation have this many bits.                           *)
width(is64) == IF is64 THEN WordBits ELSE WordBits \div 2

(* As many bits make as many values, half of them negative.                *)
LEMMA Widths ==
  ASSUME NEW is64 \in BOOLEAN
  PROVE  /\ width(is64) \in 1 .. WordBits /\ 2^width(is64) = values(is64)
         /\ 2^(width(is64) - 1) = values(is64) \div 2
         /\ values(is64) \in Nat \ {0} /\ values(is64) <= WordMod
<1>1. /\ WordBits \in Nat \ {0} /\ WordBits \div 2 = 4 * ByteBits /\ 4 * ByteBits \in Nat \ {0}
      /\ 4 * ByteBits <= WordBits
  BY ExactWidths
<1>2. width(is64) \in 1 .. WordBits
  BY <1>1 DEF width
<1>3. 2^width(is64) = values(is64) /\ values(is64) \in Nat \ {0}
  BY <1>1, WordsArePowers DEF width, values
<1>4. PICK k \in Nat : /\ k = width(is64) - 1 /\ k + 1 = width(is64)
                       /\ k \in 0 .. WordBits - 1 /\ k \in 0 .. WordBits
  BY <1>1, <1>2
<1>5. 2^(k + 1) = 2 * 2^k /\ 2^k \in Nat
  BY <1>4, PowersOK, Powers
<1>6. values(is64) = 2 * 2^k
  BY <1>3, <1>4, <1>5
<1>7. PICK m \in Nat : values(is64) = m + m /\ values(is64) \div 2 = m
  BY HalvesEqual
<1>8. 2^k = m
  BY <1>5, <1>6, <1>7
<1>9. values(is64) <= WordMod
  <2>1. HalfMod <= HalfMod * HalfMod
    BY WordsArePowers
  <2> QED
    BY <2>1, WordsArePowers DEF values, WordMod
<1> QED
  BY <1>2, <1>3, <1>4, <1>7, <1>8, <1>9

(* The operands of an operation.                                           *)
LEMMA OperandIsData ==
  ASSUME NEW is64 \in BOOLEAN, NEW a \in 0 .. values(is64) - 1
  PROVE  a \in Data /\ a \in Nat /\ a % values(is64) = a
<1>1. PICK n \in Nat \ {0} : n = values(is64) /\ n <= WordMod /\ WordMod \in Nat
  BY Widths, WordsArePowers
<1>2. a \in 0 .. n - 1
  BY <1>1
<1>3. a % n = a
  BY <1>1, <1>2, SmallQuotient
<1> QED
  BY <1>1, <1>2, <1>3 DEF Data

(* The number that an operand stands for.                                  *)
LEMMA SignedIs ==
  ASSUME NEW is64 \in BOOLEAN, NEW a \in 0 .. values(is64) - 1
  PROVE  Sequential!Signed(width(is64), a) = signed(is64, a)
<1>1. PICK m \in Nat : values(is64) = m + m /\ values(is64) \div 2 = m
  BY HalvesEqual
<1>2. a % 2^width(is64) = a /\ 2^width(is64) = m + m /\ 2^(width(is64) - 1) = m
  BY <1>1, Widths, OperandIsData
<1>3. Sequential!Signed(width(is64), a) = IF a < m THEN a ELSE a - (m + m)
  BY <1>2 DEF Sequential!Signed
<1> QED
  BY <1>1, <1>3 DEF signed, sign_bit

(* Zero has no bits.                                                       *)
LEMMA NoBits ==
  ASSUME NEW K \in SUBSET (0 .. WordBits - 1)
  PROVE  number(K) = 0 <=> K = {}
<1>1. number({}) = 0
  BY NumberIsSum, SumOfNone
<1>2. ones(0) = {}
  <2>1. 0 \in Data
    BY WordsArePowers DEF Data
  <2>2. ones(number({})) = {}
    BY NumberHasBits
  <2> QED
    BY <1>1, <2>2
<1> QED
  BY <1>1, <1>2, NumberHasBits

(* The branch checker compares as numbers are compared.                    *)
LEMMA BranchAgrees ==
  ASSUME NEW is64 \in BOOLEAN, NEW op \in BranchOps,
         NEW a \in 0 .. values(is64) - 1, NEW b \in 0 .. values(is64) - 1
  PROVE  Sequential!Holds(op, width(is64), a, b) <=> taken(op, is64, a, b)
<1>1. a \in Data /\ b \in Data /\ a \in Nat /\ b \in Nat
  BY OperandIsData
<1>2. CASE op = "JSET"
  <2>1. Sequential!Conjunction(a, b) = number(ones(a) \intersect ones(b))
    BY <1>1, BitByBitIs DEF Sequential!BitByBit, bitwise, combined, BitOps
  <2>2. ones(a) \intersect ones(b) \in SUBSET (0 .. WordBits - 1)
    BY DEF ones
  <2> QED
    BY <1>2, <2>1, <2>2, NoBits DEF Sequential!Holds, taken
<1>3. CASE op # "JSET"
  <2>1. /\ Sequential!Signed(width(is64), a) = signed(is64, a)
        /\ Sequential!Signed(width(is64), b) = signed(is64, b)
    BY SignedIs
  <2>2. CASE op \in {"JSGT", "JSGE", "JSLT", "JSLE"}
    BY <2>1, <2>2, SignedOrder DEF Sequential!Holds, taken
  <2>3. CASE op \notin {"JSGT", "JSGE", "JSLT", "JSLE"}
    <3>1. /\ Sequential!Holds("JEQ", width(is64), a, b) <=> a = b
          /\ Sequential!Holds("JNE", width(is64), a, b) <=> a # b
          /\ Sequential!Holds("JGT", width(is64), a, b) <=> a > b
          /\ Sequential!Holds("JGE", width(is64), a, b) <=> a >= b
          /\ Sequential!Holds("JLT", width(is64), a, b) <=> a < b
          /\ Sequential!Holds("JLE", width(is64), a, b) <=> a <= b
      BY Zenon DEF Sequential!Holds
    <3>2. /\ taken("JEQ", is64, a, b) <=> a = b
          /\ taken("JNE", is64, a, b) <=> a # b
          /\ taken("JGT", is64, a, b) <=> ~(a < b) /\ a # b
          /\ taken("JGE", is64, a, b) <=> ~(a < b)
          /\ taken("JLT", is64, a, b) <=> a < b
          /\ taken("JLE", is64, a, b) <=> a < b \/ a = b
      BY Zenon DEF taken, gt, ge, lt, le
    <3>3. /\ a > b <=> ~(a < b) /\ a # b
          /\ a >= b <=> ~(a < b)
          /\ a <= b <=> a < b \/ a = b
      BY <1>1
    <3>4. op \in {"JEQ", "JNE", "JGT", "JGE", "JLT", "JLE"}
      BY <1>3, <2>3 DEF BranchOps
    <3> QED
      BY <3>1, <3>2, <3>3, <3>4, Zenon
  <2> QED
    BY <2>2, <2>3
<1> QED
  BY <1>2, <1>3

(* A sign extended value, as a number of fewer bits.                       *)
LEMMA MaskAgrees ==
  ASSUME NEW v \in Data, NEW size \in Size
  PROVE  /\ byte_mask(v, size, TRUE) = Sequential!Signed(bytes(size) * ByteBits, v) % WordMod
         /\ byte_mask(v, size, FALSE) = v % 2^(bytes(size) * ByteBits)
<1>1. PICK n \in Nat : n = bytes(size) * ByteBits /\ n \in 1 .. WordBits /\ 2^n \in 1 .. WordMod
  BY ByteCount, ExactWidths
<1>2. PICK k \in Nat : k = n - 1 /\ k + 1 = n /\ k \in 0 .. WordBits - 1 /\ k \in 0 .. WordBits
  BY <1>1, ExactWidths
<1>3. PICK p \in Nat \ {0} : p = 2^k /\ 2^n = p * 2
  BY <1>2, PowersOK, Powers
<1>4. v \in Int /\ WordMod \in Nat \ {0} /\ p * 2 <= WordMod
  BY <1>1, <1>3, Halves, WordsArePowers
<1>5. PICK q \in Int, r \in Int : q = v \div p /\ r = v % p /\ 0 <= r /\ r < p
  BY <1>4, Quotient
<1>6. v % (p * 2) = (q % 2) * p + r
  BY <1>4, <1>5, TopBit
<1>7. PICK w \in Int : w = v % (p * 2)
  BY <1>5, <1>6
<1>8. bit(v, n - 1) = q % 2 /\ q % 2 \in {0, 1}
  BY <1>2, <1>3, <1>5 DEF bit
<1>b. PICK f, g : f = byte_mask(v, size, TRUE) /\ g = byte_mask(v, size, FALSE)
  OBVIOUS
<1>9. f = w + (IF q % 2 = 1 THEN WordMod - p * 2 ELSE 0) /\ g = w + 0
  BY <1>1, <1>3, <1>7, <1>8, <1>b DEF byte_mask
<1>10. Sequential!Signed(n, v) = IF w < p THEN w ELSE w - p * 2
  BY <1>2, <1>3, <1>7 DEF Sequential!Signed
<1>11. CASE q % 2 = 1
  <2>1. w = p + r
    BY <1>6, <1>7, <1>11
  <2>2. PICK x \in Int : x = w - p * 2
    OBVIOUS
  <2>3. -WordMod <= x /\ x < 0 /\ Sequential!Signed(n, v) = x
    BY <1>4, <1>5, <1>7, <1>10, <2>1, <2>2
  <2>4. x % WordMod = x + WordMod
    BY <1>4, <2>2, <2>3, NegativeRemainder
  <2>5. f = x + WordMod /\ g = w
    <3>1. f = w + (WordMod - p * 2) /\ g = w + 0
      BY <1>9, <1>11
    <3>2. w \in Int /\ WordMod \in Int /\ p * 2 \in Int
      BY <1>4, <1>7
    <3> QED
      BY <2>2, <3>1, <3>2
  <2>6. f = Sequential!Signed(n, v) % WordMod /\ g = v % 2^n
    BY <1>3, <1>7, <2>3, <2>4, <2>5
  <2> QED
    BY <1>1, <1>b, <2>6, Zenon
<1>12. CASE q % 2 = 0
  <2>1. w = r
    BY <1>6, <1>7, <1>12
  <2>2. w \in 0 .. WordMod - 1 /\ Sequential!Signed(n, v) = w
    BY <1>4, <1>5, <1>10, <2>1
  <2>3. w % WordMod = w
    BY <1>4, <2>2, SmallQuotient
  <2>4. f = w /\ g = w
    <3>1. f = w + 0 /\ g = w + 0
      BY <1>9, <1>12
    <3>2. w \in Int
      BY <1>7
    <3> QED
      BY <3>1, <3>2
  <2>5. f = Sequential!Signed(n, v) % WordMod /\ g = v % 2^n
    BY <1>3, <1>7, <2>2, <2>3, <2>4
  <2> QED
    BY <1>1, <1>b, <2>5, Zenon
<1> QED
  BY <1>8, <1>11, <1>12

(* The divider divides numbers with a sign.                                *)
LEMMA DivisionAgrees ==
  ASSUME NEW is64 \in BOOLEAN, NEW op \in SignedOps, NEW sx \in BOOLEAN, NEW en,
         NEW a \in 0 .. values(is64) - 1, NEW b \in 0 .. values(is64) - 1
  PROVE  divided([en |-> en, op |-> op, is64 |-> is64, signed |-> sx, A |-> a, B |-> b])
         = Sequential!Divide(op, width(is64), sx, a, b)
<1> DEFINE d == [en |-> en, op |-> op, is64 |-> is64, signed |-> sx, A |-> a, B |-> b]
           x == IF sx THEN signed(is64, a) ELSE a
           y == IF sx THEN signed(is64, b) ELSE b
<1>1. PICK m \in Nat : values(is64) = m + m /\ values(is64) \div 2 = m
  BY HalvesEqual
<1>2. values(is64) <= WordMod /\ WordMod \in Nat \ {0}
  BY Widths, WordsArePowers
<1>3. /\ negative(d, a) <=> sx /\ a >= m
      /\ negative(d, b) <=> sx /\ b >= m
      /\ magnitude(d, a) = IF sx /\ a >= m THEN (m + m) - a ELSE a
      /\ magnitude(d, b) = IF sx /\ b >= m THEN (m + m) - b ELSE b
  BY <1>1 DEF negative, magnitude, values
<1>4. /\ x = IF sx /\ a >= m THEN a - (m + m) ELSE a
      /\ y = IF sx /\ b >= m THEN b - (m + m) ELSE b
  BY <1>1 DEF signed, sign_bit
<1>5. /\ x \in Int /\ y \in Int
      /\ x < 0 <=> negative(d, a)
      /\ y < 0 <=> negative(d, b)
      /\ Sequential!Magnitude(x) = magnitude(d, a)
      /\ Sequential!Magnitude(y) = magnitude(d, b)
  <2> HIDE DEF x, y
  <2> QED
    BY <1>1, <1>3, <1>4 DEF Sequential!Magnitude
<1>6. /\ d.A = a /\ d.B = b /\ d.op = op
  OBVIOUS
<1>7. /\ Sequential!Signed(width(is64), a) = signed(is64, a)
      /\ Sequential!Signed(width(is64), b) = signed(is64, b)
  BY SignedIs
<1>8. CASE b = 0
  BY <1>6, <1>8 DEF divided, Sequential!Divide
<1>9. CASE b # 0
  <2>1. PICK M \in Nat, N \in Nat \ {0} : M = magnitude(d, a) /\ N = magnitude(d, b) /\ M < WordMod
    BY <1>1, <1>2, <1>3, <1>9
  <2>2. PICK v \in Nat : v = (IF op = "DIV" THEN M \div N ELSE M % N) /\ v <= M
    BY <2>1, DivisionSmall
  <2>3. v < WordMod
    BY <1>2, <2>1, <2>2
  <2>4. v % WordMod = v /\ (WordMod - v) % WordMod = (-v) % WordMod
    <3>1. v \in 0 .. WordMod - 1
      BY <1>2, <2>3
    <3>2. CASE v = 0
      <4>1. (-v + 1 * WordMod) % WordMod = (-v) % WordMod
        BY <1>2, <3>2, ShiftedQuotient
      <4>2. -v + 1 * WordMod = WordMod - v
        BY <1>2
      <4> QED
        BY <1>2, <3>1, <4>1, <4>2, SmallQuotient
    <3>3. CASE v # 0
      <4>1. PICK y1 \in Int : y1 = -v /\ -WordMod <= y1 /\ y1 < 0 /\ WordMod - v = y1 + WordMod
                              /\ y1 + WordMod \in 0 .. WordMod - 1
        BY <1>2, <2>3, <3>3
      <4>2. y1 % WordMod = y1 + WordMod /\ (y1 + WordMod) % WordMod = y1 + WordMod
        BY <1>2, <4>1, NegativeRemainder, SmallQuotient
      <4> QED
        BY <1>2, <3>1, <4>1, <4>2, SmallQuotient
    <3> QED
      BY <3>2, <3>3
  <2>5. divided(d) = negated_if(negative(d, a) # negative(d, b), v)
    BY <1>6, <1>9, <2>1, <2>2 DEF divided, signs_differ
  <2>6. Sequential!Divide(op, width(is64), sx, a, b)
        = (IF (x < 0) # (y < 0) THEN -v ELSE v) % WordMod
    <3> HIDE DEF x, y, d
    <3>1. Sequential!Divide(op, width(is64), sx, a, b)
          = (IF (x < 0) # (y < 0)
             THEN -(IF op = "DIV" THEN Sequential!Magnitude(x) \div Sequential!Magnitude(y)
                                  ELSE Sequential!Magnitude(x) % Sequential!Magnitude(y))
             ELSE IF op = "DIV" THEN Sequential!Magnitude(x) \div Sequential!Magnitude(y)
                                ELSE Sequential!Magnitude(x) % Sequential!Magnitude(y)) % WordMod
      BY <1>7, <1>9, SameNames, Zenon DEF Sequential!Divide, x, y
    <3> QED
      BY <1>5, <2>1, <2>2, <3>1
  <2>7. (negative(d, a) # negative(d, b)) <=> ((x < 0) # (y < 0))
    <3> HIDE DEF x, y, d
    <3>1. negative(d, a) \in BOOLEAN /\ negative(d, b) \in BOOLEAN
      BY DEF negative
    <3> QED
      BY <1>5, <3>1
  <2> HIDE DEF x, y, d
  <2>8. divided(d) = Sequential!Divide(op, width(is64), sx, a, b)
    BY <2>4, <2>5, <2>6, <2>7 DEF negated_if
  <2> QED
    BY <2>8 DEF d
<1> QED
  BY <1>8, <1>9

(* What an operation keeps of its result.                                  *)
cut(is64, v) == IF is64 THEN v ELSE Low(v)

(* It is what is left of the result in as many bits.                       *)
LEMMA CutWord ==
  ASSUME NEW is64 \in BOOLEAN
  PROVE  /\ \A v \in Int : cut(is64, v % WordMod) = v % 2^width(is64)
         /\ \A v \in Data : cut(is64, v) = v % 2^width(is64)
         /\ \A v \in Data : cut(is64, v) \in 0 .. values(is64) - 1
<1>1. 2^width(is64) = values(is64)
  BY Widths
<1>2. \A v \in Int : cut(is64, v % WordMod) = v % values(is64)
  BY LowOf DEF cut, values, Low
<1>3. \A v \in Data : v \in Int /\ v % WordMod = v
  BY LowOf, Halves
<1>4. \A v \in Data : cut(is64, v) = v % values(is64)
  BY <1>2, <1>3
<1>5. \A v \in Data : cut(is64, v) \in 0 .. values(is64) - 1
  <2>1. CASE is64
    BY <2>1 DEF cut, values, Data
  <2>2. CASE ~is64
    BY <1>3, <2>2, LowOf DEF cut, values, Half32
  <2> QED
    BY <2>1, <2>2
<1> QED
  BY <1>1, <1>2, <1>4, <1>5

(* Additions, shifts to the left and the like lose what does not fit.      *)
LEMMA RegularAgrees ==
  ASSUME NEW is64 \in BOOLEAN, NEW a \in 0 .. values(is64) - 1, NEW b \in 0 .. values(is64) - 1,
         NEW i, NEW size, i.code \in RegularOps \ SignedOps
  PROVE  cut(is64, alu_bus(i.code, is64, size, a, b))
         = Sequential!Computed(i, width(is64), a, b) % 2^width(is64)
<1>0. a \in Data /\ b \in Data /\ a \in Nat /\ b \in Nat
  BY OperandIsData
<1>1. PICK p \in Nat \ {0} : p = 2^shift(b) /\ shift(b) = b % Sequential!WordBits
  BY <1>0, ShiftType, SameNames DEF shift
<1>2. Sequential!WordMod = WordMod /\ WordMod \in Nat \ {0}
  BY SameNames, WordsArePowers
<1>3. CASE i.code \in {"ADD", "SUB", "MUL", "LSH"}
  <2>1. a + b \in Int /\ a - b \in Int /\ a * b \in Int /\ a * p \in Int
    BY <1>0
  <2>2. /\ cut(is64, (a + b) % WordMod) = (a + b) % 2^width(is64)
        /\ cut(is64, (a - b) % WordMod) = (a - b) % 2^width(is64)
        /\ cut(is64, (a * b) % WordMod) = (a * b) % 2^width(is64)
        /\ cut(is64, (a * p) % WordMod) = (a * p) % 2^width(is64)
    BY <2>1, CutWord
  <2>3. /\ alu_bus("ADD", is64, size, a, b) = (a + b) % WordMod
        /\ alu_bus("SUB", is64, size, a, b) = (a - b) % WordMod
        /\ alu_bus("MUL", is64, size, a, b) = (a * b) % WordMod
        /\ alu_bus("LSH", is64, size, a, b) = (a * p) % WordMod
    BY <1>1, Zenon DEF alu_bus
  <2>4. /\ i.code = "ADD" => Sequential!Computed(i, width(is64), a, b) = a + b
        /\ i.code = "SUB" => Sequential!Computed(i, width(is64), a, b) = a - b
        /\ i.code = "MUL" => Sequential!Computed(i, width(is64), a, b) = a * b
        /\ i.code = "LSH" => Sequential!Computed(i, width(is64), a, b) = a * p
    BY <1>1 DEF Sequential!Computed
  <2> QED
    BY <1>3, <2>2, <2>3, <2>4, Zenon
<1>4. CASE i.code \in {"RSH", "NEG"}
  <2>1. a \div p \in Data /\ WordMod - 1 - a \in Data
    <3>1. a \div p \in Data
      BY <1>0, <1>1, QuotientType
    <3>2. WordMod - 1 - a \in Data
      BY <1>0, <1>2 DEF Data
    <3> QED
      BY <3>1, <3>2
  <2>2. /\ cut(is64, a \div p) = (a \div p) % 2^width(is64)
        /\ cut(is64, WordMod - 1 - a) = (WordMod - 1 - a) % 2^width(is64)
    BY <2>1, CutWord, Zenon
  <2>3. /\ alu_bus("RSH", is64, size, a, b) = a \div p
        /\ alu_bus("NEG", is64, size, a, b) = WordMod - 1 - a
    BY <1>1, Zenon DEF alu_bus
  <2>4. /\ i.code = "RSH" => Sequential!Computed(i, width(is64), a, b) = a \div p
        /\ i.code = "NEG" => Sequential!Computed(i, width(is64), a, b) = WordMod - 1 - a
    BY <1>1, <1>2 DEF Sequential!Computed
  <2> QED
    BY <1>4, <2>2, <2>3, <2>4, Zenon
<1>5. CASE i.code \in BitOps
  <2>1. /\ bitwise(i.code, a, b) \in Data
        /\ Sequential!BitByBit(i.code, a, b) = bitwise(i.code, a, b)
    BY <1>0, <1>5, BitwiseBits, BitByBitIs
  <2>2. Sequential!Computed(i, width(is64), a, b) = Sequential!BitByBit(i.code, a, b)
    BY <1>5 DEF Sequential!Computed, BitOps
  <2>3. alu_bus(i.code, is64, size, a, b) = bitwise(i.code, a, b)
    BY <1>5 DEF alu_bus, bitwise, combined, BitOps
  <2> QED
    BY <2>1, <2>2, <2>3, CutWord
<1>6. CASE i.code = "ARSH"
  <2> DEFINE s == signed(is64, a)
  <2>1. s = IF a >= values(is64) \div 2 THEN a - values(is64) ELSE a
    BY DEF signed, sign_bit
  <2>2. values(is64) \in Nat \ {0} /\ s \in Int
    BY <1>0, <2>1, Widths
  <2>3. s \div p \in Int
    BY <1>1, <2>2, Quotient
  <2>4. alu_bus(i.code, is64, size, a, b) = (s \div p) % values(is64)
    <3>1. alu_bus(i.code, is64, size, a, b) = arsh_bus(is64, a, b)
      BY <1>6 DEF alu_bus
    <3>2. CASE is64
      BY <1>1, <2>1, <3>1, <3>2 DEF arsh_bus, arithmetic_shift, values
    <3>3. CASE ~is64
      <4>1. Low(a) = a
        BY <3>3, LowOf DEF values, Half32
      <4> QED
        BY <1>1, <2>1, <3>1, <3>3, <4>1 DEF arsh_bus, arithmetic_shift, values
    <3> QED
      BY <3>2, <3>3
  <2>5. Sequential!Computed(i, width(is64), a, b) = s \div p
    <3>1. Sequential!Computed(i, width(is64), a, b) = Sequential!Signed(width(is64), a) \div p
      BY <1>1, <1>6 DEF Sequential!Computed
    <3> QED
      BY <3>1, SignedIs
  <2>6. cut(is64, (s \div p) % values(is64)) = (s \div p) % values(is64)
    <3>1. PICK x \in Int : x = s \div p
      BY <2>3
    <3>2. CASE is64
      BY <3>2 DEF cut
    <3>3. CASE ~is64
      BY <3>1, <3>3, LowOf DEF cut, values, Low
    <3> QED
      BY <3>2, <3>3
  <2> QED
    BY <2>4, <2>5, <2>6, Widths, Zenon
<1> QED
  BY <1>3, <1>4, <1>5, <1>6 DEF RegularOps, SignedOps, BitOps

(* A quotient or a remainder is a word.                                    *)
LEMMA DivideType ==
  ASSUME NEW is64 \in BOOLEAN, NEW op, NEW sx \in BOOLEAN,
         NEW a \in 0 .. values(is64) - 1, NEW b \in 0 .. values(is64) - 1
  PROVE  Sequential!Divide(op, width(is64), sx, a, b) \in Data
<1> DEFINE x == IF sx THEN signed(is64, a) ELSE a
           y == IF sx THEN signed(is64, b) ELSE b
<1>0. \A M \in Int : \A N \in Nat \ {0} : M \div N \in Int /\ M % N \in Int
  BY Quotient
<1>1. a \in Data /\ 0 \in Data /\ values(is64) \in Nat \ {0} /\ a \in Int /\ b \in Int
  BY OperandIsData, Widths, WordsArePowers DEF Data
<1>2. /\ Sequential!Signed(width(is64), a) = signed(is64, a)
      /\ Sequential!Signed(width(is64), b) = signed(is64, b)
  BY SignedIs
<1>3. x \in Int /\ y \in Int /\ (b # 0 => y # 0)
  BY <1>1 DEF signed, sign_bit
<1> DEFINE v == IF op = "DIV" THEN Sequential!Magnitude(x) \div Sequential!Magnitude(y)
                ELSE Sequential!Magnitude(x) % Sequential!Magnitude(y)
<1>4. Sequential!Divide(op, width(is64), sx, a, b)
      = IF b = 0 THEN IF op = "DIV" THEN 0 ELSE a
        ELSE (IF (x < 0) # (y < 0) THEN -v ELSE v) % WordMod
  BY <1>2, SameNames, Zenon DEF Sequential!Divide
<1> HIDE DEF x, y
<1>5. b # 0 => v \in Int
  <2> SUFFICES ASSUME b # 0 PROVE v \in Int
    OBVIOUS
  <2>1. PICK M \in Int, N \in Nat \ {0} : M = Sequential!Magnitude(x) /\ N = Sequential!Magnitude(y)
    BY <1>3 DEF Sequential!Magnitude
  <2>2. M \div N \in Int /\ M % N \in Int
    BY <1>0, <2>1, Zenon
  <2> QED
    BY <2>1, <2>2
<1> HIDE DEF v
<1>6. b # 0 => (IF (x < 0) # (y < 0) THEN -v ELSE v) \in Int
  BY <1>5
<1>7. b # 0 => (IF (x < 0) # (y < 0) THEN -v ELSE v) % WordMod \in Data
  BY <1>6, RemainderType
<1> QED
  BY <1>1, <1>4, <1>7, Zenon

(* What a division gives is kept.                                          *)
LEMMA DivideCut ==
  ASSUME NEW is64 \in BOOLEAN, NEW i, i.code \in SignedOps, i.offset % 2 \in Int,
         NEW a \in 0 .. values(is64) - 1, NEW b \in 0 .. values(is64) - 1
  PROVE  cut(is64, divided([en |-> TRUE, op |-> i.code, is64 |-> is64, signed |-> i.offset % 2 = 1,
                            A |-> a, B |-> b]))
         = Sequential!Computed(i, width(is64), a, b) % 2^width(is64)
<1>1. PICK sx \in BOOLEAN : sx = (i.offset % 2 = 1)
  OBVIOUS
<1>2. divided([en |-> TRUE, op |-> i.code, is64 |-> is64, signed |-> sx, A |-> a, B |-> b])
      = Sequential!Divide(i.code, width(is64), sx, a, b)
  <2>1. PICK en : en = TRUE
    OBVIOUS
  <2>2. \A op \in SignedOps :
          divided([en |-> en, op |-> op, is64 |-> is64, signed |-> sx, A |-> a, B |-> b])
          = Sequential!Divide(op, width(is64), sx, a, b)
    BY DivisionAgrees
  <2> QED
    BY <2>1, <2>2
<1>3. Sequential!Divide(i.code, width(is64), sx, a, b) \in Data
  BY DivideType
<1>4. Sequential!Computed(i, width(is64), a, b) = Sequential!Divide(i.code, width(is64), sx, a, b)
  BY <1>1 DEF Sequential!Computed, SignedOps
<1> QED
  BY <1>1, <1>2, <1>3, <1>4, CutWord

(* A sign in the highest bit is kept.                                      *)
LEMMA WordMask ==
  ASSUME NEW v \in Data
  PROVE  byte_mask(v, "SIZE64", TRUE) = v
<1>1. PICK f : f = byte_mask(v, "SIZE64", TRUE)
  OBVIOUS
<1>2. bytes("SIZE64") * ByteBits = WordBits /\ "SIZE64" \in Size
  BY ExactWidths DEF bytes, Size
<1>3. f = Sequential!Signed(WordBits, v) % WordMod
  BY <1>1, <1>2, MaskAgrees, Zenon
<1>4. Sequential!Signed(WordBits, v) = signed(TRUE, v)
  BY SignedIs DEF width, values, Data
<1>5. v % WordMod = v /\ v \in Int /\ WordMod \in Nat \ {0}
  BY LowOf, Halves, WordsArePowers
<1>6. PICK n \in Int : n \in {-1, 0} /\ signed(TRUE, v) = v + n * WordMod
  <2>1. signed(TRUE, v) = v \/ signed(TRUE, v) = v - WordMod
    BY DEF signed, values
  <2>2. v = v + 0 * WordMod /\ v - WordMod = v + (-1) * WordMod
    BY <1>5
  <2>3. 0 \in Int /\ -1 \in Int
    OBVIOUS
  <2> QED
    BY <2>1, <2>2, <2>3
<1>7. (v + n * WordMod) % WordMod = v % WordMod
  BY <1>5, <1>6, ShiftedQuotient
<1> QED
  BY <1>1, <1>3, <1>4, <1>5, <1>6, <1>7

(* A MOV extends the sign of as many bytes as its offset says.             *)
LEMMA MoveAgrees ==
  ASSUME NEW is64 \in BOOLEAN, NEW i, i.code = "MOV", i.offset \in {0, 8, 16, 32},
         NEW a, NEW b \in 0 .. values(is64) - 1
  PROVE  cut(is64, alu_bus(i.code, is64, movsx_size(i), a, b))
         = Sequential!Computed(i, width(is64), a, b) % 2^width(is64)
<1>1. b \in Data
  BY OperandIsData
<1>2. PICK f : /\ f = byte_mask(b, movsx_size(i), TRUE)
               /\ f = alu_bus(i.code, is64, movsx_size(i), a, b)
  BY Zenon DEF alu_bus
<1>3. Sequential!Computed(i, width(is64), a, b)
      = IF i.offset = 0 THEN b ELSE Sequential!Signed((i.offset \div 8) * ByteBits, b)
  BY DEF Sequential!Computed
<1>4. ASSUME NEW n \in Nat, i.offset = 8 * n, n \in {1, 2, 4}, bytes(movsx_size(i)) = n,
             movsx_size(i) \in Size
      PROVE  cut(is64, f)
             = Sequential!Computed(i, width(is64), a, b) % 2^width(is64)
  <2>1. i.offset # 0 /\ i.offset \div 8 = n
    BY <1>4
  <2>2. PICK v : v = Sequential!Signed(n * ByteBits, b)
    OBVIOUS
  <2>3. f = v % WordMod
    BY <1>1, <1>2, <1>4, <2>2, MaskAgrees, Zenon
  <2>4. v \in Int
    <3>1. bytes(movsx_size(i)) * ByteBits \in 1 .. WordBits
      BY <1>4, ByteCount
    <3>2. PICK m \in Nat : m = n * ByteBits /\ m \in 0 .. WordBits /\ m - 1 \in 0 .. WordBits
      BY <1>4, <3>1, ExactWidths
    <3>3. PICK p \in Nat \ {0} : p = 2^m
      BY <3>2, Powers
    <3>4. b % p \in Int
      BY <1>1, Halves, Quotient
    <3> QED
      BY <2>2, <3>2, <3>3, <3>4 DEF Sequential!Signed
  <2>5. cut(is64, v % WordMod) = v % 2^width(is64)
    BY <2>4, CutWord
  <2>6. Sequential!Computed(i, width(is64), a, b) = v
    BY <1>3, <2>1, <2>2
  <2> QED
    BY <2>3, <2>5, <2>6
<1>5. CASE i.offset = 0
  <2>1. movsx_size(i) = "SIZE64"
    BY <1>5 DEF movsx_size, bit
  <2>2. f = b /\ Sequential!Computed(i, width(is64), a, b) = b
    BY <1>1, <1>2, <1>3, <1>5, <2>1, WordMask, Zenon
  <2> QED
    BY <1>1, <1>2, <2>2, CutWord
<1>6. CASE i.offset = 8
  <2>1. movsx_size(i) = "SIZE8" /\ "SIZE8" \in Size /\ bytes("SIZE8") = 1
    BY <1>6 DEF movsx_size, bit, Size, bytes
  <2> QED
    <3>1. 1 \in Nat /\ i.offset = 8 * 1
      BY <1>6
    <3> QED
      BY <1>2, <1>4, <2>1, <3>1
<1>7. CASE i.offset = 16
  <2>1. movsx_size(i) = "SIZE16" /\ "SIZE16" \in Size /\ bytes("SIZE16") = 2
    BY <1>7 DEF movsx_size, bit, Size, bytes
  <2> QED
    <3>1. 2 \in Nat /\ i.offset = 8 * 2
      BY <1>7
    <3> QED
      BY <1>2, <1>4, <2>1, <3>1
<1>8. CASE i.offset = 32
  <2>1. movsx_size(i) = "SIZE32" /\ "SIZE32" \in Size /\ bytes("SIZE32") = 4
    BY <1>8 DEF movsx_size, bit, Size, bytes
  <2> QED
    <3>1. 4 \in Nat /\ i.offset = 8 * 4
      BY <1>8
    <3> QED
      BY <1>2, <1>4, <2>1, <3>1
<1> QED
  BY <1>5, <1>6, <1>7, <1>8

(* An immediate that an END may have is no negative number.                *)
LEMMA EndConstant ==
  ASSUME NEW h \in Half32, h \in {16, 32, 64}
  PROVE  SignExtend(h) = h
<1>1. PICK n \in Nat \ {0} : n = ByteBits /\ HalfMod = 2^(4 * ByteBits) /\ HalfMod \in Nat
  BY ByteOK, HalfOK
<1>2. n >= 2
  <2> SUFFICES ASSUME n = 1 PROVE FALSE
    BY <1>1
  <2>1. HalfMod = 16
    <3>1. 4 * ByteBits = 4
      BY <1>1
    <3>2. HalfMod = 2^4
      BY <1>1, <3>1, Zenon
    <3> QED
      BY <3>2
  <2> QED
    BY <2>1 DEF Half32
<1>3. HalfMod >= 256
  <2>1. PICK k \in Nat : k = 4 * ByteBits - 8 /\ k + 8 = 4 * ByteBits /\ k \in 0 .. WordBits
                         /\ 8 \in 0 .. WordBits /\ k + 8 <= WordBits
    BY <1>1, <1>2, ExactWidths
  <2>2. 2^(k + 8) = 2^k * 2^8 /\ 2^k \in Nat \ {0}
    BY <2>1, Powers
  <2>3. 2^8 = 256
    OBVIOUS
  <2> QED
    BY <1>1, <2>1, <2>2, <2>3
<1> QED
  BY <1>1, <1>3 DEF SignExtend

(* The bytes of as many bits as its immediate says are swapped.            *)
LEMMA EndAgrees ==
  ASSUME NEW i, i.code = "END", i.imm \in Half32, i.imm \in {16, 32, 64},
         NEW a \in Data, NEW size
  PROVE  alu_bus(i.code, TRUE, size, a, SignExtend(i.imm))
         = Sequential!Computed(i, WordBits, a, SignExtend(i.imm)) % 2^WordBits
<1>1. SignExtend(i.imm) = i.imm
  BY EndConstant
<1>2. alu_bus(i.code, TRUE, size, a, SignExtend(i.imm)) = byte_swap(a, i.imm \div 8)
  <2>1. alu_bus(i.code, TRUE, size, a, SignExtend(i.imm)) = end_bus(a, i.imm)
    BY <1>1 DEF alu_bus
  <2>2. /\ bit(16, 4) = 1 /\ bit(32, 4) = 0 /\ bit(32, 5) = 1
        /\ bit(64, 4) = 0 /\ bit(64, 5) = 0 /\ bit(64, 6) = 1
        /\ 16 \div 8 = 2 /\ 32 \div 8 = 4 /\ 64 \div 8 = 8
    BY DEF bit
  <2>3. /\ end_bus(a, 16) = byte_swap(a, 2) /\ end_bus(a, 32) = byte_swap(a, 4)
        /\ end_bus(a, 64) = byte_swap(a, 8)
    BY <2>2 DEF end_bus
  <2> QED
    BY <2>1, <2>2, <2>3, Zenon
<1>3. PICK n \in {2, 4, 8} : n = i.imm \div 8
  <2>1. 16 \div 8 = 2 /\ 32 \div 8 = 4 /\ 64 \div 8 = 8
    OBVIOUS
  <2> QED
    BY <2>1
<1>4. Sequential!Computed(i, WordBits, a, SignExtend(i.imm)) = byte_swap(a, n)
  <2>1. Sequential!Computed(i, WordBits, a, SignExtend(i.imm))
        = Sequential!of_bytes([k \in 0 .. n - 1 |-> Sequential!byte(a, n - 1 - k)])
    BY <1>3 DEF Sequential!Computed
  <2> QED
    BY <2>1, SameNames, SameSums DEF byte_swap
<1>5. byte_swap(a, n) \in Data
  <2>1. a \in Int
    BY Halves
  <2> QED
    BY <1>3, <2>1, ByteSwapType
<1>6. byte_swap(a, n) % 2^WordBits = byte_swap(a, n)
  BY <1>5, CutWord DEF cut, width
<1> QED
  BY <1>2, <1>3, <1>4, <1>6, Zenon
-----------------------------------------------------------------------------
(***************************************************************************)
(* Memory.                                                                 *)
(***************************************************************************)
(* Where the bytes of an access begin.                                     *)
base_of(size, a) == (sel_8b(a) \div bytes(size)) * bytes(size)

(* The bytes of a slice, counted from where it begins.                     *)
LEMMA SliceBytes ==
  ASSUME NEW size \in Size, NEW a \in Nat
  PROVE  /\ base_of(size, a) \in wea(size, a) /\ wea(size, a) \subseteq 0 .. 7
         /\ \A k \in wea(size, a) : /\ k - base_of(size, a) \in 0 .. 7
                                   /\ k - base_of(size, a) = k % bytes(size)
<1>1. PICK s \in 0 .. 7 : s = sel_8b(a)
  BY DEF sel_8b
<1>2. PICK m \in Int : m = base_of(size, a) /\ m = (s \div bytes(size)) * bytes(size)
  <2>1. base_of(size, a) \in Int
    BY <1>1 DEF base_of, bytes, Size
  <2> QED
    BY <1>1, <2>1 DEF base_of
<1>3. wea(size, a) = {k \in 0 .. 7 : k \div bytes(size) = s \div bytes(size)}
  BY <1>1 DEF wea
<1>4. ASSUME NEW n \in {1, 2, 4, 8}, m = (s \div n) * n
      PROVE  /\ m \in 0 .. 7 /\ m \div n = s \div n
             /\ \A k \in 0 .. 7 : k \div n = s \div n => k - m \in 0 .. 7 /\ k - m = k % n
  <2>1. CASE n = 1
    BY <1>4, <2>1
  <2>2. CASE n = 2
    BY <1>4, <2>2
  <2>3. CASE n = 4
    BY <1>4, <2>3
  <2>4. CASE n = 8
    BY <1>4, <2>4
  <2> QED
    BY <2>1, <2>2, <2>3, <2>4
<1>5. bytes(size) \in {1, 2, 4, 8}
  BY ByteCount
<1> QED
  BY <1>2, <1>3, <1>4, <1>5

(* The bytes that an access writes are the slice its address falls in.     *)
LEMMA SliceAgrees ==
  ASSUME NEW size \in Size, NEW a \in Nat
  PROVE  /\ Sequential!slice(a, bytes(size)) = wea(size, a)
         /\ Sequential!Min(Sequential!slice(a, bytes(size))) = base_of(size, a)
<1>1. Sequential!slice(a, bytes(size)) = wea(size, a)
  BY DEF Sequential!slice, wea, sel_8b
<1>2. PICK m \in 0 .. 7 : m = base_of(size, a) /\ m \in wea(size, a)
  BY SliceBytes
<1>3. \A k \in wea(size, a) : k \in 0 .. 7 /\ m <= k
  BY <1>2, SliceBytes
<1>4. Sequential!Min(wea(size, a)) = CHOOSE x \in wea(size, a) : \A y \in wea(size, a) : x <= y
  BY SameMin
<1>5. \A x \in wea(size, a) : (\A y \in wea(size, a) : x <= y) => x = m
  BY <1>2, <1>3
<1> QED
  BY <1>1, <1>2, <1>3, <1>4, <1>5

(* What a load reads of a word.                                            *)
LEMMA LoadedAgrees ==
  ASSUME NEW size \in Size, NEW a \in Nat, mem[a \div 8] \in Data
  PROVE  /\ Sequential!Loaded(a, bytes(size)) = output(mem[a \div 8], size, a)
         /\ Sequential!Loaded(a, bytes(size)) \in 0 .. ByteMod^bytes(size) - 1
         /\ Sequential!Loaded(a, bytes(size)) \in Data
<1>1. Sequential!Loaded(a, bytes(size)) = output(mem[a \div 8], size, a)
  BY SliceAgrees, SameNames DEF Sequential!Loaded, output, base_of
<1>2. PICK p \in Nat \ {0} : p = ByteMod^base_of(size, a)
  <2>1. base_of(size, a) \in 0 .. 8
    BY SliceBytes
  <2> QED
    BY <2>1, PowersMultiply DEF pos
<1>3. PICK q \in Nat \ {0} : q = ByteMod^bytes(size) /\ q <= WordMod
  BY ByteCount
<1>4. PICK d \in Int : d = mem[a \div 8] \div p
  <2>1. mem[a \div 8] \in Int
    BY Halves
  <2> QED
    BY <2>1, Quotient
<1>5. output(mem[a \div 8], size, a) = d % q
  BY <1>2, <1>3, <1>4 DEF output, base_of
<1>6. d % q \in 0 .. q - 1
  BY <1>4, Quotient
<1> QED
  BY <1>1, <1>3, <1>5, <1>6, WordsArePowers DEF Data

(* And what is made of it.                                                 *)
LEMMA FetchedAgrees ==
  ASSUME NEW size \in Size, NEW a \in Nat, mem[a \div 8] \in Data
  PROVE  /\ byte_mask(output(mem[a \div 8], size, a), size, TRUE)
            = Sequential!Signed(bytes(size) * ByteBits, Sequential!Loaded(a, bytes(size))) % WordMod
         /\ byte_mask(output(mem[a \div 8], size, a), size, FALSE)
              = Sequential!Loaded(a, bytes(size))
<1>1. PICK v \in Data : v = output(mem[a \div 8], size, a) /\ v = Sequential!Loaded(a, bytes(size))
                        /\ v \in 0 .. ByteMod^bytes(size) - 1
  BY LoadedAgrees
<1>2. PICK q \in Nat \ {0} : q = ByteMod^bytes(size) /\ q = 2^(bytes(size) * ByteBits)
  BY ByteCount
<1>3. v % q = v
  BY <1>1, <1>2, SmallQuotient
<1>4. /\ byte_mask(v, size, TRUE) = Sequential!Signed(bytes(size) * ByteBits, v) % WordMod
      /\ byte_mask(v, size, FALSE) = v % 2^(bytes(size) * ByteBits)
  BY MaskAgrees
<1>5. byte_mask(v, size, FALSE) = v
  BY <1>2, <1>3, <1>4, Zenon
<1> QED
  BY <1>1, <1>4, <1>5, Zenon

(* The word that has the bytes of v where the access is.                   *)
word_with(old, v, size, a) ==
  of_bytes([k \in 0 .. 7 |->
              IF k \in wea(size, a) THEN byte(v, k - base_of(size, a)) ELSE byte(old, k)])

(* A store replaces one word.                                              *)
LEMMA StoredAtIs ==
  ASSUME NEW size \in Size, NEW a \in Nat, NEW v
  PROVE  Sequential!StoredAt(a, bytes(size), v)
         = [mem EXCEPT ![a \div 8] = word_with(mem[a \div 8], v, size, a)]
BY SliceAgrees, SameNames, SameSums DEF Sequential!StoredAt, word_with

(* Lanes that have the bytes of v make this word.                          *)
LEMMA WrittenIs ==
  ASSUME NEW size \in Size, NEW a \in Nat, NEW old, NEW v, NEW din,
         \A k \in wea(size, a) : byte(din, k) = byte(v, k - base_of(size, a))
  PROVE  written_bytes(old, din, wea(size, a)) = word_with(old, v, size, a)
BY DEF written_bytes, word_with

(* A store.                                                                *)
LEMMA StoreAgrees ==
  ASSUME NEW size \in Size, NEW a \in Nat, NEW old, NEW v \in Data
  PROVE  stored(old, v, size, a) = word_with(old, v, size, a)
<1>1. v \in Int /\ bytes(size) \in Nat \ {0} /\ bytes(size) <= 8
  BY Halves, ByteCount, SMTT(30)
<1> DEFINE f == [k \in 0 .. 7 |-> byte(v, k % bytes(size))]
<1>2. \A k \in 0 .. 8 - 1 : f[k] \in 0 .. ByteMod - 1
  <2> TAKE k \in 0 .. 8 - 1
  <2>1. k % bytes(size) \in 0 .. bytes(size) - 1
    <3>1. k \in Int
      OBVIOUS
    <3> QED
      BY <1>1, <3>1, Quotient
  <2>2. k % bytes(size) \in 0 .. 8 /\ k \in 0 .. 7
    BY <1>1, <2>1
  <2>3. byte(v, k % bytes(size)) \in 0 .. ByteMod - 1
    BY <1>1, <2>2, ByteType
  <2> QED
    BY <2>2, <2>3
<1>3. DOMAIN f = 0 .. 8 - 1 /\ 8 \in 0 .. 8 /\ \A k \in 0 .. 7 : f[k] = byte(v, k % bytes(size))
  OBVIOUS
<1>4. xchg_output(v, size) = of_bytes(f)
  BY DEF xchg_output
<1> HIDE DEF f
<1>5. \A k \in 0 .. 7 : byte(of_bytes(f), k) = f[k]
  <2>1. \A k \in 0 .. 8 - 1 : byte(of_bytes(f), k) = f[k]
    BY <1>2, <1>3, BytesOfBytes
  <2> QED
    BY <2>1
<1>6. \A k \in wea(size, a) : byte(of_bytes(f), k) = byte(v, k - base_of(size, a))
  <2> TAKE k \in wea(size, a)
  <2>1. k \in 0 .. 7 /\ k - base_of(size, a) = k % bytes(size)
    BY SliceBytes
  <2> QED
    BY <1>3, <1>5, <2>1
<1> QED
  BY <1>4, <1>6, WrittenIs DEF stored

(* Two values with the same bytes in their halves.                         *)
LEMMA SameLowBytes ==
  ASSUME NEW v \in Int, NEW w \in Int, Low(v) = Low(w)
  PROVE  \A k \in 0 .. 3 : byte(v, k) = byte(w, k)
BY HalfBytes

(* The slices of the operations on halves and on words.                    *)
LEMMA HalfSlices ==
  ASSUME NEW a \in Nat
  PROVE  /\ sel_32b(a) \in {0, 1}
         /\ base_of("SIZE32", a) = 4 * sel_32b(a)
         /\ \A k \in wea("SIZE32", a) : k - 4 * sel_32b(a) \in 0 .. 3
         /\ base_of("SIZE64", a) = 0 /\ wea("SIZE64", a) = 0 .. 7
<1>1. PICK s \in 0 .. 7 : s = sel_8b(a)
  BY DEF sel_8b
<1>2. bytes("SIZE32") = 4 /\ bytes("SIZE64") = 8
  BY DEF bytes
<1>3. s \div 8 = 0 /\ \A k \in 0 .. 7 : k \div 8 = 0
  BY <1>1
<1>4. base_of("SIZE64", a) = 0 /\ wea("SIZE64", a) = 0 .. 7
  BY <1>1, <1>2, <1>3 DEF base_of, wea
<1>5. PICK h \in {0, 1} : h = sel_32b(a) /\ h = s \div 4
  BY <1>1 DEF sel_32b
<1>6. base_of("SIZE32", a) = 4 * h
  BY <1>1, <1>2, <1>5 DEF base_of
<1>7. \A k \in wea("SIZE32", a) : k - 4 * h \in 0 .. 3
  <2>1. \A k \in wea("SIZE32", a) : k \in 0 .. 7 /\ k \div 4 = h
    BY <1>1, <1>2, <1>5 DEF wea
  <2>2. \A k \in 0 .. 7 : k \div 4 = h => k - 4 * h \in 0 .. 3
    BY <1>5
  <2> QED
    BY <2>1, <2>2
<1> QED
  BY <1>4, <1>5, <1>6, <1>7

(* An operand of an atomic operation and what is expected of the word.     *)
LEMMA HalfOperand ==
  ASSUME NEW v \in Data
  PROVE  /\ v % ByteMod^bytes("SIZE32") = Low(v) /\ v % ByteMod^bytes("SIZE64") = v
<1>1. bytes("SIZE32") = 4 /\ bytes("SIZE64") = 8 /\ "SIZE32" \in Size /\ "SIZE64" \in Size
  BY DEF bytes, Size
<1>2. ByteMod^bytes("SIZE32") = 2^(4 * ByteBits) /\ ByteMod^bytes("SIZE64") = 2^(8 * ByteBits)
  BY <1>1, ByteCount
<1>3. 2^(4 * ByteBits) = HalfMod /\ 2^(8 * ByteBits) = WordMod
  BY WordsArePowers DEF WordBits
<1> QED
  BY <1>2, <1>3, LowOf DEF Low

(* What is written if the word is exchanged or changed.                    *)
computed_word(op, old, v) ==
  CASE op = "ADD" -> (old + v) % WordMod
    [] op \in BitOps -> bitwise(op, old, v)
    [] OTHER -> v

(* It is what the unit computes and what the machine does.                 *)
LEMMA ComputedWord ==
  ASSUME NEW op \in SimpleAtomics \union {"XCHG", "CMPXCHG"}, NEW old \in Data, NEW v \in Data
  PROVE  /\ alu_output(op, old, v) = computed_word(op, old, v)
         /\ computed_word(op, old, v) \in Data
         /\ \A expected :
              Sequential!NewValue(op, old, v, expected)
              = IF op = "CMPXCHG" /\ old # expected THEN old ELSE computed_word(op, old, v)
<1>1. op \in BitOps
        => Sequential!BitByBit(op, old, v) = bitwise(op, old, v) /\ bitwise(op, old, v) \in Data
  BY BitByBitIs, BitwiseBits
<1>2. (old + v) % WordMod \in Data
  <2>1. old + v \in Int
    BY Halves
  <2> QED
    BY <2>1, RemainderType
<1>3. op \in BitOps \union {"ADD", "XCHG", "CMPXCHG"}
  BY DEF SimpleAtomics, BitOps
<1>4. alu_output(op, old, v) = computed_word(op, old, v)
  BY <1>3 DEF alu_output, computed_word, BitOps, bitwise, combined
<1>5. computed_word(op, old, v) \in Data
  BY <1>1, <1>2, <1>3 DEF computed_word
<1>6. \A expected : Sequential!NewValue(op, old, v, expected)
                     = IF op = "CMPXCHG" /\ old # expected THEN old ELSE computed_word(op, old, v)
  BY <1>1, <1>3, SameNames DEF Sequential!NewValue, computed_word, BitOps
<1> QED
  BY <1>4, <1>5, <1>6

(* The halves of what is computed.                                         *)
LEMMA ComputedHalves ==
  ASSUME NEW op \in SimpleAtomics \union {"XCHG", "CMPXCHG"}, NEW old \in Data, NEW v \in Data
  PROVE  /\ Low(computed_word(op, old, v)) = Low(computed_word(op, Low(old), Low(v)))
         /\ High(computed_word(op, old, Join(Low(v), 0)))
              = Low(computed_word(op, High(old), Low(v)))
<1>1. PICK n \in Nat \ {0} : n = HalfMod
  BY WordsArePowers
<1>2. /\ old \in Int /\ v \in Int
      /\ Low(old) \in Half32 /\ Low(v) \in Half32 /\ High(old) \in Half32
      /\ Half32 \subseteq Int /\ Low(old) \in Data /\ Low(v) \in Data /\ High(old) \in Data
      /\ old = Join(High(old), Low(old)) /\ 0 \in Half32
  BY <1>1, Halves, LowOf DEF Half32
<1>3. Join(Low(v), 0) \in Data /\ High(Join(Low(v), 0)) = Low(v)
  BY <1>2, Halves
<1>4. CASE op = "ADD"
  <2>1. Low(old + v) = Low(Low(old) + Low(v))
    <3>1. PICK q \in Int, r \in Int : old = q * n + r /\ r = Low(old)
      BY <1>1, <1>2, Quotient DEF Low
    <3>2. PICK p \in Int, s \in Int : v = p * n + s /\ s = Low(v)
      BY <1>1, <1>2, Quotient DEF Low
    <3>3. ((r + s) + (q + p) * n) % n = (r + s) % n
      <4>1. r + s \in Int /\ q + p \in Int
        OBVIOUS
      <4> QED
        BY <1>1, <4>1, ShiftedQuotient
    <3>4. old + v = (r + s) + (q + p) * n
      BY <1>1, <3>1, <3>2
    <3> QED
      BY <1>1, <3>1, <3>2, <3>3, <3>4 DEF Low
  <2>2. Low((old + v) % WordMod) = Low(old + v)
          /\ Low((Low(old) + Low(v)) % WordMod) = Low(Low(old) + Low(v))
    <3>1. old + v \in Int /\ Low(old) + Low(v) \in Int
      <4>1. Low(old) \in Int /\ Low(v) \in Int
        BY <1>2
      <4> QED
        BY <1>2, <4>1
    <3> QED
      BY <3>1, LowOf
  <2>3. High((old + Join(Low(v), 0)) % WordMod) = Low((High(old) + Low(v)) % WordMod)
    <3>1. PICK h \in Int, l \in Int, o \in Int :
            h = High(old) /\ l = Low(v) /\ o = old /\ h = o \div n
      BY <1>1, <1>2 DEF High
    <3>2. Join(Low(v), 0) = l * n /\ o + l * n \in Int
      BY <1>1, <3>1 DEF Join
    <3>3. ((o + l * n) % (n * n)) \div n = ((o + l * n) \div n) % n
      BY <1>1, <3>1, <3>2, NestedRemainder
    <3>4. (o + l * n) \div n = h + l
      BY <1>1, <3>1, ShiftedQuotient
    <3>5. h + l \in Int /\ Low((h + l) % WordMod) = Low(h + l)
      <4>1. h + l \in Int
        OBVIOUS
      <4> QED
        BY <4>1, LowOf
    <3> QED
      BY <1>1, <3>1, <3>2, <3>3, <3>4, <3>5 DEF Low, High, WordMod
  <2> QED
    BY <1>4, <2>1, <2>2, <2>3 DEF computed_word, BitOps
<1>5. CASE op \in BitOps
  <2>1. Low(bitwise(op, old, v)) = bitwise(op, Low(old), Low(v))
        /\ High(bitwise(op, old, Join(Low(v), 0))) = bitwise(op, High(old), Low(v))
    BY <1>2, <1>5, BitwiseHalves, ZenonT(40)
  <2>2. bitwise(op, old, v) \in Data /\ bitwise(op, old, Join(Low(v), 0)) \in Data
    BY <1>5, BitwiseBits
  <2>3. PICK x, y : /\ x = bitwise(op, old, v) /\ x \in Int
                    /\ y = bitwise(op, old, Join(Low(v), 0)) /\ y \in Data
    BY <2>2, Halves
  <2>4. Low(Low(x)) = Low(x) /\ High(y) \in Half32 /\ Low(High(y)) = High(y)
    BY <2>3, LowOf, Halves
  <2> QED
    BY <1>5, <2>1, <2>3, <2>4 DEF computed_word, BitOps
<1>6. CASE op \in {"XCHG", "CMPXCHG"}
  BY <1>2, <1>3, <1>6, LowOf DEF computed_word, BitOps
<1> QED
  BY <1>4, <1>5, <1>6 DEF SimpleAtomics, BitOps

(* What a compare on half a word says is what it says of that half.        *)
compares(op, old, token, size, a) ==
  op = "CMPXCHG" /\ size = "SIZE32" =>
    (do_xchg(token, old, size, a) <=> output(old, size, a) = token % ByteMod^bytes(size))

(* What is read of a word: all of it, or one half.                         *)
LEMMA OutputHalves ==
  ASSUME NEW old \in Data, NEW a \in Nat
  PROVE  /\ output(old, "SIZE64", a) = old
         /\ output(old, "SIZE32", a) = IF sel_32b(a) = 0 THEN Low(old) ELSE High(old)
<1>1. old \in Int /\ Low(old) \in Half32 /\ High(old) \in Half32
  BY Halves
<1>2. /\ bytes("SIZE32") = 4 /\ bytes("SIZE64") = 8 /\ ByteMod^4 = HalfMod /\ ByteMod^8 = WordMod
      /\ ByteMod^0 = 1
  <2>1. ByteMod^4 = 2^(4 * ByteBits) /\ ByteMod^8 = 2^(8 * ByteBits)
    BY WordsArePowers
  <2>2. 2^(4 * ByteBits) = HalfMod /\ 2^(8 * ByteBits) = WordMod
    BY WordsArePowers DEF WordBits
  <2> QED
    BY <2>1, <2>2, PowersOK DEF bytes
<1>3. output(old, "SIZE64", a) = (old \div ByteMod^base_of("SIZE64", a)) % ByteMod^bytes("SIZE64")
  BY DEF output, base_of
<1>4. output(old, "SIZE32", a) = (old \div ByteMod^base_of("SIZE32", a)) % ByteMod^bytes("SIZE32")
  BY DEF output, base_of
<1>5. old \div 1 = old
  BY <1>1
<1>6. output(old, "SIZE64", a) = old % WordMod
  BY <1>2, <1>3, <1>5, HalfSlices
<1>7. CASE sel_32b(a) = 0
  <2>1. 4 * sel_32b(a) = 0
    BY <1>7
  <2>2. output(old, "SIZE32", a) = old % HalfMod
    BY <1>2, <1>4, <1>5, <2>1, HalfSlices
  <2> QED
    BY <1>6, <1>7, <2>2, LowOf DEF Low
<1>8. CASE sel_32b(a) = 1
  <2>1. 4 * sel_32b(a) = 4
    BY <1>8
  <2>2. output(old, "SIZE32", a) = (old \div HalfMod) % HalfMod
    BY <1>2, <1>4, <2>1, HalfSlices
  <2>3. Low(High(old)) = High(old)
    BY <1>1, LowOf
  <2> QED
    BY <1>6, <1>8, <2>2, <2>3, LowOf DEF Low, High
<1> QED
  BY <1>7, <1>8, HalfSlices

(* A word whose bytes are written as they are stays as it is.              *)
LEMMA WordKept ==
  ASSUME NEW size \in {"SIZE32", "SIZE64"}, NEW old \in Data, NEW a \in Nat
  PROVE  word_with(old, output(old, size, a), size, a) = old
<1>0. old \in Int
  BY Halves
<1>1. \A k \in wea(size, a) : byte(output(old, size, a), k - base_of(size, a)) = byte(old, k)
  <2>1. CASE size = "SIZE64"
    <3>1. \A k \in 0 .. 7 : k - 0 = k
      OBVIOUS
    <3> QED
      BY <2>1, <3>1, HalfSlices, OutputHalves
  <2>2. CASE size = "SIZE32"
    <3> TAKE k \in wea(size, a)
    <3>1. PICK j \in 0 .. 3 : j = k - base_of(size, a)
      BY <2>2, HalfSlices
    <3>2. k \in Int /\ sel_32b(a) \in {0, 1} /\ k = j + 4 * sel_32b(a)
      <4>1. k \in 0 .. 7
        BY SliceBytes DEF Size
      <4> QED
        BY <2>2, <3>1, <4>1, HalfSlices
    <3>3. byte(Low(old), j) = byte(old, j) /\ byte(High(old), j) = byte(old, j + 4)
      BY <1>0, HalfBytes
    <3>4. CASE sel_32b(a) = 0
      BY <2>2, <3>1, <3>2, <3>3, <3>4, OutputHalves
    <3>5. CASE sel_32b(a) = 1
      BY <2>2, <3>1, <3>2, <3>3, <3>5, OutputHalves
    <3> QED
      BY <3>2, <3>4, <3>5
  <2> QED
    BY <2>1, <2>2
<1>2. word_with(old, output(old, size, a), size, a) = of_bytes([k \in 0 .. 7 |-> byte(old, k)])
  <2>1. [k \in 0 .. 7 |->
           IF k \in wea(size, a) THEN byte(output(old, size, a), k - base_of(size, a))
                                 ELSE byte(old, k)]
        = [k \in 0 .. 7 |-> byte(old, k)]
    BY <1>1
  <2> QED
    BY <2>1 DEF word_with
<1> QED
  BY <1>2, BytesMakeWord

(* An atomic operation.                                                    *)
LEMMA AtomicAgrees ==
  ASSUME NEW size \in {"SIZE32", "SIZE64"}, NEW op \in SimpleAtomics \union {"XCHG", "CMPXCHG"},
         NEW old \in Data, NEW v \in Data, NEW token \in Data, NEW a \in Nat,
         compares(op, old, token, size, a)
  PROVE  modified(op, old, v, token, size, a)
         = word_with(old, Sequential!NewValue(op, output(old, size, a), v % ByteMod^bytes(size),
                                              token % ByteMod^bytes(size)), size, a)
<1>0. PICK e, w, x : /\ e = output(old, size, a) /\ w = v % ByteMod^bytes(size)
                     /\ x = token % ByteMod^bytes(size)
  OBVIOUS
<1>1. op = "CMPXCHG" => (do_xchg(token, old, size, a) <=> e = x)
  <2>1. CASE size = "SIZE32"
    BY <1>0, <2>1 DEF compares
  <2>2. CASE size = "SIZE64"
    BY <1>0, <2>2, OutputHalves, HalfOperand DEF do_xchg
  <2> QED
    BY <2>1, <2>2
<1>2. e \in Data /\ w \in Data /\ old \in Int /\ v \in Int
  <2>1. /\ Low(old) \in Data /\ High(old) \in Data /\ Low(v) \in Data /\ old \in Int /\ v \in Int
    BY Halves, LowOf
  <2> QED
    BY <1>0, <2>1, OutputHalves, HalfOperand
<1>3. PICK new : new = Sequential!NewValue(op, e, w, x)
  OBVIOUS
<1>4. new = IF op = "CMPXCHG" /\ e # x THEN e ELSE computed_word(op, e, w)
  <2>1. \A z : Sequential!NewValue(op, e, w, z)
              = IF op = "CMPXCHG" /\ e # z THEN e ELSE computed_word(op, e, w)
    BY <1>2, ComputedWord
  <2> QED
    BY <1>3, <2>1, Zenon
<1>5. modified(op, old, v, token, size, a) = word_with(old, new, size, a)
  <2>1. CASE op = "CMPXCHG" /\ e # x
    BY <1>0, <1>1, <1>4, <2>1, WordKept DEF modified
  <2>2. CASE ~(op = "CMPXCHG" /\ e # x)
    <3>1. PICK b, din : /\ b = operand_B(v, size, a) /\ din = alu_output(op, old, b)
                        /\ modified(op, old, v, token, size, a)
                             = written_bytes(old, din, wea(size, a))
      BY <1>1, <2>2 DEF modified
    <3>9. \A y \in Data : b = y => din = computed_word(op, old, y) /\ din \in Data /\ din \in Int
      <4>1. \A y \in Data : /\ alu_output(op, old, y) = computed_word(op, old, y)
                            /\ computed_word(op, old, y) \in Data
        BY ComputedWord
      <4>2. \A y \in Data : y \in Int
        BY Halves
      <4> QED
        BY <3>1, <4>1, <4>2, Zenon
    <3>2. new = computed_word(op, e, w) /\ new \in Data /\ new \in Int
      BY <1>2, <1>4, <2>2, ComputedWord, Halves
    <3>3. \A k \in wea(size, a) : byte(din, k) = byte(new, k - base_of(size, a))
      <4>1. CASE size = "SIZE64"
        <5>1. din = new
          BY <1>0, <3>9, <3>1, <3>2, <4>1, OutputHalves, HalfOperand DEF operand_B
        <5>2. \A k \in 0 .. 7 : k - 0 = k
          OBVIOUS
        <5> QED
          BY <4>1, <5>1, <5>2, HalfSlices
      <4>2. CASE size = "SIZE32"
        <5> TAKE k \in wea(size, a)
        <5>1. PICK j \in 0 .. 3 : j = k - base_of(size, a)
          BY <4>2, HalfSlices
        <5>2. k \in Int /\ sel_32b(a) \in {0, 1} /\ k = j + 4 * sel_32b(a)
          <6>1. k \in 0 .. 7
            BY SliceBytes DEF Size
          <6> QED
            BY <4>2, <5>1, <6>1, HalfSlices
        <5>3. w = Low(v) /\ byte(Low(new), j) = byte(new, j)
          BY <1>0, <3>2, <4>2, HalfOperand, HalfBytes
        <5>4. CASE sel_32b(a) = 0
          <6>1. din = computed_word(op, old, v) /\ din \in Data /\ din \in Int
            BY <3>9, <3>1, <5>4 DEF operand_B
          <6>2. new = computed_word(op, Low(old), Low(v))
            BY <1>0, <3>2, <4>2, <5>3, <5>4, OutputHalves
          <6>3. Low(din) = Low(new)
            BY <6>1, <6>2, ComputedHalves
          <6>4. byte(Low(din), j) = byte(din, j) /\ k = j
            BY <5>2, <5>4, <6>1, HalfBytes
          <6> QED
            BY <5>1, <5>3, <6>3, <6>4
        <5>5. CASE sel_32b(a) = 1
          <6>0. operand_B(v, size, a) = Join(Low(v), 0) /\ Join(Low(v), 0) \in Data
            <7>1. Low(v) \in Half32 /\ 0 \in Half32 /\ Low(v) \in Int /\ HalfMod \in Int
              BY Halves, WordsArePowers DEF Half32
            <7>2. Join(Low(v), 0) = Low(v) * HalfMod
              BY <7>1 DEF Join
            <7> QED
              BY <4>2, <5>5, <7>1, <7>2, Halves DEF operand_B
          <6>1. din = computed_word(op, old, Join(Low(v), 0)) /\ din \in Data /\ din \in Int
            BY <3>9, <3>1, <6>0
          <6>2. new = computed_word(op, High(old), Low(v))
            BY <1>0, <3>2, <4>2, <5>3, <5>5, OutputHalves
          <6>3. High(din) = Low(new)
            BY <6>1, <6>2, ComputedHalves
          <6>4. byte(High(din), j) = byte(din, j + 4) /\ k = j + 4
            BY <5>2, <5>5, <6>1, HalfBytes
          <6> QED
            BY <5>1, <5>3, <6>3, <6>4
        <5> QED
          BY <5>2, <5>4, <5>5
      <4> QED
        BY <4>1, <4>2
    <3>4. size \in Size
      BY DEF Size
    <3> QED
      BY <3>1, <3>3, <3>4, WrittenIs
  <2> QED
    BY <2>1, <2>2
<1> QED
  BY <1>0, <1>3, <1>5
-----------------------------------------------------------------------------
(***************************************************************************)
(* Instructions.                                                           *)
(***************************************************************************)
(* The register bank.                                                      *)
R == reg_file_written

(* An instruction that the machine executes.                               *)
runs(i) ==
  /\ i \in Instruction /\ TypeOK
  /\ ~Sequential!Exits(i) /\ ~Sequential!Faults(i)

(* What is known of it.                                                    *)
LEMMA RunningFacts ==
  ASSUME NEW i, runs(i)
  PROVE  /\ valid_instruction(i) /\ i.dst \in Regs /\ i.src \in Regs
         /\ R \in [Regs -> Data] /\ R[i.dst] \in Data /\ R[i.src] \in Data /\ R[0] \in Data
         /\ i.imm \in Half32 /\ SignExtend(i.imm) \in Data /\ i.offset \in Int
         /\ i.size \in Size /\ i.class \in {"LD"} \union MemClass \union AluClass \union JumpClass
         /\ (i.class = "JMP" /\ i.code = "JCALL" => i.imm = LOOKUP_FUNCTION)
         /\ ~(i.class = "JMP" /\ i.code = "JEXIT")
<1>1. valid_instruction(i)
  BY SameInstructions DEF runs, Sequential!Faults
<1>2. i.dst \in Regs /\ i.src \in Regs
  BY <1>1, ValidRegisters
<1>3. R \in [Regs -> Data] /\ 0 \in Regs
  BY DEF runs, TypeOK, R, Regs
<1>4. /\ i.imm \in Half32 /\ i.offset \in Int
      /\ i.size \in Size /\ i.class \in {"LD"} \union MemClass \union AluClass \union JumpClass
  BY DEF runs, Instruction
<1>5. SignExtend(i.imm) \in Data
  BY <1>4, SignExtendType
<1>6. /\ (i.class = "JMP" /\ i.code = "JCALL" => i.imm = LOOKUP_FUNCTION)
      /\ ~(i.class = "JMP" /\ i.code = "JEXIT")
  BY DEF runs, Sequential!Faults, Sequential!Exits
<1> QED
  BY <1>1, <1>2, <1>3, <1>4, <1>5, <1>6

(* Where the access of an instruction is, and what is there.               *)
LEMMA AccessFacts ==
  ASSUME NEW i, runs(i), i.class \in MemClass
  PROVE  /\ address(i, R) = Sequential!MemAddr(i)
         /\ address(i, R) \in ValidAddr /\ address(i, R) \in Nat
         /\ mem[address(i, R) \div 8] \in Data
<1>1. address(i, R) = Sequential!MemAddr(i)
  BY SameInstructions DEF address, R
<1>2. address(i, R) \in ValidAddr
  BY <1>1, SameInstructions DEF runs, Sequential!Faults
<1>3. address(i, R) \in Nat
  <2>1. address(i, R) \in Data
    BY <1>2, AddrOK
  <2> QED
    BY <2>1, Halves
<1>4. mem \in [WordAddr -> Data] /\ address(i, R) \div 8 \in WordAddr
  BY <1>2 DEF runs, TypeOK, Memory, WordAddr
<1> QED
  BY <1>1, <1>2, <1>3, <1>4

(* The operands, and how wide they are.                                    *)
is_64(i) == IF i.class \in JumpClass THEN i.class = "JMP" ELSE i.class = "ALU64" \/ i.code = "END"

(* Both take the same values from the registers and the instruction, cut   *)
(* to the same width.                                                      *)
LEMMA OperandsAgree ==
  ASSUME NEW i, runs(i), i.class \in AluClass \/ (i.class \in JumpClass /\ i.code \in BranchOps),
           NEW pc
  PROVE  /\ Control(i).alu64 = is_64(i) /\ is_64(i) \in BOOLEAN
         /\ \A v : fits(i, v) = cut(is_64(i), v) /\ Sequential!Cut(is_64(i), v) = cut(is_64(i), v)
         /\ first(i, R) = cut(is_64(i), reg_file_written[i.dst])
         /\ second(i, pc, R) = cut(is_64(i), Sequential!OperandB(i))
         /\ first(i, R) \in 0 .. values(is_64(i)) - 1
         /\ second(i, pc, R) \in 0 .. values(is_64(i)) - 1
         /\ (i.code = "END" => Sequential!OperandB(i) = SignExtend(i.imm))
<1>1. Control(i).alu64 = is_64(i) /\ is_64(i) \in BOOLEAN
  BY DEF Control, is_64, AluClass, JumpClass, BranchOps
<1>2. \A v : fits(i, v) = cut(is_64(i), v)
  BY <1>1 DEF fits, cut
<1>3. \A v : Sequential!Cut(is_64(i), v) = cut(is_64(i), v)
  BY SameNames DEF Sequential!Cut, cut
<1>4. first(i, R) = cut(is_64(i), reg_file_written[i.dst])
  BY <1>2 DEF first, R
<1>5. Sequential!OperandB(i)
      = IF i.source = "REG" /\ i.code # "END" THEN R[i.src] ELSE SignExtend(i.imm)
  BY SameNames DEF Sequential!OperandB, Sequential!ImmOf, R
<1>6. constant(i, pc) = SignExtend(i.imm)
  BY DEF constant, AluClass, JumpClass
<1>7. (i.source # "REG" \/ sig_force_imm(i)) <=> ~(i.source = "REG" /\ i.code # "END")
  BY DEF sig_force_imm, AluClass, JumpClass, BranchOps
<1>8. second(i, pc, R) = cut(is_64(i), Sequential!OperandB(i))
  BY <1>2, <1>5, <1>6, <1>7 DEF second
<1>9. Sequential!OperandB(i) \in Data /\ R[i.dst] \in Data
  BY <1>5, RunningFacts
<1>10. first(i, R) \in 0 .. values(is_64(i)) - 1 /\ second(i, pc, R) \in 0 .. values(is_64(i)) - 1
  BY <1>1, <1>4, <1>8, <1>9, CutWord DEF R
<1> QED
  BY <1>1, <1>2, <1>3, <1>4, <1>5, <1>8, <1>10

(* What the source gets wrong of an instruction whatever stands before it: *)
(* a MOV and an END of a size that there is not are valid, and a compare   *)
(* on half of a word looks at the whole of it.                             *)
has_meaning(i) ==
  /\ i.class \in AluClass /\ i.code = "MOV" => i.offset # 8 + 16 + 32
  /\ i.class \in AluClass /\ i.code = "END" => i.imm # 16 + 32 + 64
  /\ is_atomic(i) => compares(i.aop, mem[address(i, R) \div 8], R[0], i.size, address(i, R))

(* ALU, divider and their result path compute what the instruction says.   *)
LEMMA ComputedAgrees ==
  ASSUME NEW i, runs(i), has_meaning(i), i.class \in AluClass, NEW pc
  PROVE  computed(i, pc, R)
         = Sequential!Computed(i, width(is_64(i)),
                               Sequential!Cut(is_64(i), reg_file_written[i.dst]),
                               Sequential!Cut(is_64(i), Sequential!OperandB(i))) % 2^width(is_64(i))
<1>1. PICK w, a, b : /\ w = is_64(i) /\ a = first(i, R) /\ b = second(i, pc, R) /\ w \in BOOLEAN
                     /\ a \in 0 .. values(w) - 1 /\ b \in 0 .. values(w) - 1
                     /\ a = Sequential!Cut(w, reg_file_written[i.dst])
                     /\ b = Sequential!Cut(w, Sequential!OperandB(i))
                     /\ Control(i).alu64 = w
  BY OperandsAgree
<1>2. operation(i) = i.code
  BY DEF operation, AluClass
<1>3. \A v : fits(i, v) = cut(w, v)
  BY <1>1, OperandsAgree
<1>4. PICK size : size = Control(i).size
  OBVIOUS
<1>5. computed(i, pc, R) = cut(w, IF i.code \in {"DIV", "MOD"} THEN divided(division(i, pc, R))
                                  ELSE alu_bus(i.code, w, size, a, b))
  BY <1>1, <1>2, <1>3, <1>4 DEF computed
<1>6. valid_alu(i)
  BY RunningFacts DEF valid_instruction, AluClass, MemClass, JumpClass
<1>7. CASE i.code \in SignedOps
  <2>1. division(i, pc, R) = [en |-> TRUE, op |-> i.code, is64 |-> w, signed |-> i.offset % 2 = 1,
                              A |-> a, B |-> b]
    BY <1>1 DEF division
  <2>2. i.offset % 2 \in Int
    BY RunningFacts
  <2>3. cut(w, divided([en |-> TRUE, op |-> i.code, is64 |-> w, signed |-> i.offset % 2 = 1,
                        A |-> a, B |-> b]))
        = Sequential!Computed(i, width(w), a, b) % 2^width(w)
    BY <1>1, <1>7, <2>2, DivideCut
  <2> QED
    BY <1>1, <1>5, <1>7, <2>1, <2>3 DEF SignedOps
<1>8. CASE i.code \in RegularOps \ SignedOps
  <2>1. cut(w, alu_bus(i.code, w, size, a, b)) = Sequential!Computed(i, width(w), a, b) % 2^width(w)
    BY <1>1, <1>8, RegularAgrees
  <2> QED
    BY <1>1, <1>5, <1>8, <2>1 DEF SignedOps, RegularOps
<1>9. CASE i.code = "MOV"
  <2>1. size = movsx_size(i)
    BY <1>4, <1>9 DEF Control, MemClass, AluClass
  <2>2. i.offset \in {0, 8, 16, 32}
    BY <1>6, <1>9 DEF valid_alu, mov_size_ok, has_meaning, RegularOps, SignedOps
  <2>3. cut(w, alu_bus(i.code, w, movsx_size(i), a, b))
          = Sequential!Computed(i, width(w), a, b) % 2^width(w)
    BY <1>1, <1>9, <2>2, MoveAgrees
  <2> QED
    BY <1>1, <1>5, <1>9, <2>1, <2>3
<1>10. CASE i.code = "END"
  <2>1. w = TRUE
    BY <1>1, <1>10 DEF is_64, AluClass, JumpClass
  <2>2. i.imm \in {16, 32, 64} /\ i.imm \in Half32
    BY <1>6, <1>10, RunningFacts DEF valid_alu, end_size_ok, has_meaning, RegularOps, SignedOps
  <2>3. b = SignExtend(i.imm) /\ a \in Data
    <3>1. Sequential!OperandB(i) = SignExtend(i.imm)
            /\ Sequential!Cut(w, Sequential!OperandB(i)) = SignExtend(i.imm)
      BY <1>1, <1>10, <2>1, OperandsAgree DEF cut
    <3> QED
      BY <1>1, <3>1, OperandIsData
  <2>4. alu_bus(i.code, TRUE, size, a, SignExtend(i.imm))
        = Sequential!Computed(i, WordBits, a, SignExtend(i.imm)) % 2^WordBits
    BY <1>10, <2>2, <2>3, EndAgrees, ZenonT(40)
  <2>5. width(w) = WordBits /\ \A v : cut(w, v) = v
    BY <2>1 DEF width, cut
  <2>6. computed(i, pc, R) = alu_bus(i.code, TRUE, size, a, SignExtend(i.imm))
    BY <1>5, <1>10, <2>1, <2>3, <2>5, Zenon
  <2> QED
    BY <1>1, <2>3, <2>4, <2>5, <2>6, Zenon
<1> QED
  BY <1>6, <1>7, <1>8, <1>9, <1>10 DEF valid_alu, SignedOps, RegularOps

(* What an instruction does when it is executed.                           *)
LEMMA ExecuteFacts ==
  ASSUME NEW i, Execute(i)
  PROVE  /\ architectural_pc' = successor(i, architectural_pc, R)
         /\ reg_file_written' = regs_after(i, architectural_pc, R, mem)
         /\ mem' = mem_after(i, architectural_pc, R, mem)
BY DEF Execute, R

(* The control signals of an instruction.                                  *)
LEMMA Signals ==
  ASSUME NEW i
  PROVE  /\ Control(i).write_en <=> i.class \in {"ST", "STX"}
         /\ Control(i).write_r0 <=> is_cmpxchg(i) \/ is_call(i)
         /\ Control(i).jump <=> is_jump(i) /\ i.code = "JA"
         /\ Control(i).jump32 <=> i.class = "JMP32" /\ i.code = "JA"
         /\ Control(i).reg_write <=> sig_reg_write(i)
         /\ Control(i).sign_ext \in BOOLEAN
         /\ Control(i).sign_ext
              <=> (i.class = "LDX" /\ i.mode = "MEMSX") \/ (i.class \in AluClass /\ i.code = "MOV")
<1>1. Control(i).write_en <=> i.class \in {"ST", "STX"}
  BY DEF Control
<1>2. Control(i).write_r0 <=> is_cmpxchg(i) \/ is_call(i)
  BY DEF Control
<1>3. Control(i).jump <=> is_jump(i) /\ i.code = "JA"
  BY DEF Control
<1>4. Control(i).jump32 <=> i.class = "JMP32" /\ i.code = "JA"
  BY DEF Control
<1>5. Control(i).reg_write <=> sig_reg_write(i)
  BY DEF Control
<1>6. Control(i).sign_ext
        <=> (i.class = "LDX" /\ i.mode = "MEMSX") \/ (i.class \in AluClass /\ i.code = "MOV")
  BY DEF Control
<1>7. Control(i).sign_ext \in BOOLEAN
  BY DEF Control
<1> QED
  BY <1>1, <1>2, <1>3, <1>4, <1>5, <1>6, <1>7

(* An arithmetic instruction.                                              *)
LEMMA ArithmeticStep ==
  ASSUME NEW i, runs(i), has_meaning(i), Execute(i), i.class \in AluClass
  PROVE  Sequential!Arithmetic(i)
<1>1. /\ ~Control(i).write_en /\ ~Control(i).write_r0 /\ ~Control(i).jump
      /\ (Control(i).reg_write <=> ~(i.class = "ALU" /\ i.code = "END" /\ i.source = "IMM"))
      /\ ~sig_branch(i) /\ ~is_call(i) /\ i.class \notin MemClass
      /\ i.class # "LD" /\ i.class # "STX"
  BY Signals DEF is_jump, sig_branch, is_call, is_cmpxchg, is_atomic, sig_reg_write, AluClass,
         JumpClass, MemClass
<1>2. architectural_pc' = NextPC(architectural_pc)
  BY <1>1, ExecuteFacts DEF successor, branches
<1>3. mem' = mem
  BY <1>1, ExecuteFacts DEF mem_after
<1>4. reg_file_written' = IF i.class = "ALU" /\ i.code = "END" /\ i.source = "IMM" THEN R
                          ELSE [R EXCEPT ![i.dst] = computed(i, architectural_pc, R)]
  BY <1>1, ExecuteFacts DEF regs_after, target, result
<1>5. PICK w : w = is_64(i) /\ w = (i.class = "ALU64" \/ i.code = "END")
  BY DEF is_64, AluClass, JumpClass
<1>6. width(w) = IF i.class = "ALU64" \/ i.code = "END"
                 THEN Sequential!WordBits ELSE Sequential!WordBits \div 2
  BY <1>5, SameNames DEF width
<1>7. computed(i, architectural_pc, R)
      = Sequential!Computed(i, width(w), Sequential!Cut(w, reg_file_written[i.dst]),
                            Sequential!Cut(w, Sequential!OperandB(i))) % 2^width(w)
  BY <1>5, ComputedAgrees
<1> QED
  BY <1>2, <1>3, <1>4, <1>5, <1>6, <1>7, SameNames
     DEF Sequential!Arithmetic, Sequential!Put, Sequential!Continue, Sequential!AluClass,
       AluClass, R

(* A 64-bit constant: it is loaded by the MOV of the ALU.                  *)
LEMMA ConstantStep ==
  ASSUME NEW i, runs(i), architectural_pc \in PC, Execute(i), i.class = "LD"
  PROVE  Sequential!LoadImm64(i)
<1>1. /\ ~Control(i).write_en /\ ~Control(i).write_r0 /\ ~Control(i).jump
      /\ Control(i).reg_write
      /\ ~sig_branch(i) /\ ~is_call(i) /\ i.class \notin MemClass /\ sig_force_imm(i)
  BY Signals DEF is_jump, sig_branch, is_call, is_cmpxchg, is_atomic, sig_reg_write, AluClass,
         JumpClass, MemClass, sig_force_imm
<1>9. Control(i).alu64 /\ Control(i).size = "SIZE64"
  BY DEF Control, MemClass, AluClass
<1>2. architectural_pc' = NextPC(NextPC(architectural_pc))
  BY <1>1, ExecuteFacts DEF successor, branches
<1>3. mem' = mem
  BY <1>1, ExecuteFacts DEF mem_after
<1>4. reg_file_written' = [R EXCEPT ![i.dst] = computed(i, architectural_pc, R)]
  BY <1>1, ExecuteFacts DEF regs_after, target, result
<1>5. PICK b \in Data : b = Join(imem[NextPC(architectural_pc)].imm, i.imm)
  <2>1. NextPC(architectural_pc) \in PC
    BY PCs
  <2>2. imem[NextPC(architectural_pc)].imm \in Half32
    BY <2>1 DEF runs, TypeOK, Instruction
  <2> QED
    BY <2>2, RunningFacts, Halves
<1>6. second(i, architectural_pc, R) = b
  BY <1>1, <1>5, <1>9 DEF second, fits, constant
<1>7. computed(i, architectural_pc, R) = b
  <2>1. PICK w, s : w = Control(i).alu64 /\ s = Control(i).size
    OBVIOUS
  <2>2. computed(i, architectural_pc, R) = alu_bus("MOV", w, s, first(i, R), b)
    BY <1>1, <1>6, <1>9, <2>1 DEF computed, operation, fits
  <2>3. alu_bus("MOV", w, s, first(i, R), b) = byte_mask(b, s, TRUE)
    BY Zenon DEF alu_bus
  <2> QED
    BY <1>9, <2>1, <2>2, <2>3, WordMask, Zenon
<1> QED
  BY <1>2, <1>3, <1>4, <1>5, <1>7, SameNames DEF Sequential!LoadImm64, Sequential!Put, R

(* A load.                                                                 *)
LEMMA LoadStepAgrees ==
  ASSUME NEW i, runs(i), Execute(i), i.class = "LDX"
  PROVE  Sequential!LoadReg(i)
<1>1. /\ ~Control(i).write_en /\ ~Control(i).write_r0 /\ ~Control(i).jump
      /\ Control(i).reg_write /\ (Control(i).sign_ext <=> (i.mode = "MEMSX"))
      /\ ~sig_branch(i) /\ ~is_call(i) /\ i.class \in MemClass
      /\ i.class # "LD" /\ i.class # "STX"
  BY Signals DEF is_jump, sig_branch, is_call, is_cmpxchg, is_atomic, sig_reg_write, AluClass,
         JumpClass, MemClass
<1>2. architectural_pc' = NextPC(architectural_pc)
  BY <1>1, ExecuteFacts DEF successor, branches
<1>3. mem' = mem
  BY <1>1, ExecuteFacts DEF mem_after
<1>4. reg_file_written' = [R EXCEPT ![i.dst] = fetched(i, R, mem)]
  BY <1>1, ExecuteFacts DEF regs_after, target, result
<1>5. PICK a \in Nat, size \in Size : /\ a = address(i, R) /\ a = Sequential!MemAddr(i)
                                      /\ size = i.size /\ mem[a \div 8] \in Data
  BY <1>1, AccessFacts, RunningFacts
<1>6. PICK o, sx : o = output(mem[a \div 8], size, a) /\ sx \in BOOLEAN /\ (sx <=> i.mode = "MEMSX")
                   /\ fetched(i, R, mem) = byte_mask(o, size, sx)
  BY <1>1, <1>5, Signals DEF fetched
<1>7. /\ byte_mask(o, size, TRUE)
         = Sequential!Signed(bytes(size) * ByteBits, Sequential!Loaded(a, bytes(size))) % WordMod
      /\ byte_mask(o, size, FALSE) = Sequential!Loaded(a, bytes(size))
  BY <1>5, <1>6, FetchedAgrees, Zenon
<1>8. fetched(i, R, mem)
      = IF i.mode = "MEMSX"
        THEN Sequential!Signed(bytes(size) * ByteBits, Sequential!Loaded(a, bytes(size))) % WordMod
        ELSE Sequential!Loaded(a, bytes(size))
  <2>1. CASE i.mode = "MEMSX"
    <3>1. sx = TRUE
      BY <1>6, <2>1
    <3>2. fetched(i, R, mem) = byte_mask(o, size, TRUE)
      BY <1>6, <3>1, Zenon
    <3> QED
      BY <1>7, <2>1, <3>2, Zenon
  <2>2. CASE i.mode # "MEMSX"
    <3>1. sx = FALSE
      BY <1>6, <2>2
    <3>2. fetched(i, R, mem) = byte_mask(o, size, FALSE)
      BY <1>6, <3>1, Zenon
    <3> QED
      BY <1>7, <2>2, <3>2, Zenon
  <2> QED
    BY <2>1, <2>2
<1> QED
  BY <1>2, <1>3, <1>4, <1>5, <1>8, SameNames
     DEF Sequential!LoadReg, Sequential!Put, Sequential!Continue, R

(* A store.                                                                *)
LEMMA StoreStepAgrees ==
  ASSUME NEW i, runs(i), Execute(i), i.class = "ST" \/ (i.class = "STX" /\ i.mode = "MEM")
  PROVE  Sequential!StoreMem(i)
<1>1. /\ Control(i).write_en /\ ~Control(i).write_r0 /\ ~Control(i).jump
      /\ ~Control(i).reg_write /\ ~is_atomic(i)
      /\ ~sig_branch(i) /\ ~is_call(i) /\ i.class \in MemClass
      /\ i.class # "LD"
  BY Signals DEF is_jump, sig_branch, is_call, is_cmpxchg, is_atomic, sig_reg_write, AluClass,
         JumpClass, MemClass
<1>2. architectural_pc' = NextPC(architectural_pc)
  BY <1>1, ExecuteFacts DEF successor, branches
<1>3. reg_file_written' = R
  BY <1>1, ExecuteFacts DEF regs_after
<1>4. PICK a \in Nat, size \in Size : /\ a = address(i, R) /\ a = Sequential!MemAddr(i)
                                      /\ size = i.size /\ mem[a \div 8] \in Data
  BY <1>1, AccessFacts, RunningFacts
<1>5. PICK v \in Data : v = (IF i.class = "ST" THEN SignExtend(i.imm) ELSE R[i.src])
  BY RunningFacts
<1>6. mem' = [mem EXCEPT ![a \div 8] = stored(mem[a \div 8], v, size, a)]
  <2>1. i.class = "ST" => constant(i, architectural_pc) = SignExtend(i.imm)
    BY DEF constant
  <2>2. mem' = [mem EXCEPT ![address(i, R) \div 8] =
                  stored(@, IF i.class = "ST" THEN constant(i, architectural_pc) ELSE R[i.src],
                         i.size, address(i, R))]
    BY <1>1, ExecuteFacts DEF mem_after
  <2> QED
    BY <1>4, <1>5, <2>1, <2>2
<1>7. mem' = Sequential!StoredAt(a, bytes(size), v)
  <2>1. PICK old : old = mem[a \div 8]
    OBVIOUS
  <2>2. stored(old, v, size, a) = word_with(old, v, size, a)
    BY StoreAgrees
  <2> QED
    BY <1>6, <2>1, <2>2, StoredAtIs
<1> QED
  BY <1>2, <1>3, <1>4, <1>5, <1>7, SameNames
     DEF Sequential!StoreMem, Sequential!Continue, Sequential!ImmOf, R

(* An atomic operation.                                                    *)
LEMMA AtomicStepAgrees ==
  ASSUME NEW i, runs(i), has_meaning(i), Execute(i), is_atomic(i)
  PROVE  Sequential!Atomic(i)
<1>0. /\ i.class = "STX" /\ i.mode = "ATOMIC" /\ i.size \in {"SIZE32", "SIZE64"}
      /\ i.aop \in SimpleAtomics \union {"XCHG", "CMPXCHG"}
      /\ i.aop = "CMPXCHG" => i.fetch
  BY RunningFacts DEF is_atomic, valid_instruction, valid_store, atomic_mem_size_ok, is_atomic_op,
         is_atomic_fetch, is_atomic_cmpxchg, SimpleAtomics, AluClass, JumpClass
<1>1. /\ Control(i).write_en /\ (Control(i).write_r0 <=> (i.aop = "CMPXCHG")) /\ ~Control(i).jump
      /\ (Control(i).reg_write <=> (i.fetch /\ i.aop # "CMPXCHG")) /\ ~Control(i).sign_ext
      /\ ~sig_branch(i) /\ ~is_call(i) /\ i.class \in MemClass
      /\ i.class # "LD"
  <2>1. i.fetch \in BOOLEAN
    BY DEF runs, Instruction
  <2> QED
    BY <1>0, <2>1, Signals DEF is_jump, sig_branch, is_call, is_cmpxchg, is_atomic, sig_reg_write,
         AluClass, JumpClass, MemClass
<1>2. architectural_pc' = NextPC(architectural_pc)
  BY <1>1, ExecuteFacts DEF successor, branches
<1>3. reg_file_written'
      = IF i.fetch
        THEN [R EXCEPT ![IF i.aop = "CMPXCHG" THEN 0 ELSE i.src] = fetched(i, R, mem)]
        ELSE R
  BY <1>0, <1>1, ExecuteFacts DEF regs_after, target, result
<1>4. PICK a \in Nat, size \in Size : /\ a = address(i, R) /\ a = Sequential!MemAddr(i)
                                      /\ size = i.size /\ mem[a \div 8] \in Data
  BY <1>1, AccessFacts, RunningFacts
<1>5. PICK old \in Data, v \in Data, token \in Data :
         old = mem[a \div 8] /\ v = R[i.src] /\ token = R[0]
  BY <1>4, RunningFacts
<1>6. mem' = [mem EXCEPT ![a \div 8] = modified(i.aop, old, v, token, size, a)]
  BY <1>1, <1>4, <1>5, ExecuteFacts DEF mem_after
<1>7. modified(i.aop, old, v, token, size, a)
      = word_with(old, Sequential!NewValue(i.aop, output(old, size, a), v % ByteMod^bytes(size),
                                           token % ByteMod^bytes(size)), size, a)
  <2>1. compares(i.aop, old, token, size, a)
    BY <1>4, <1>5 DEF has_meaning
  <2> QED
    BY <1>0, <1>4, <2>1, AtomicAgrees, SMTT(30)
<1>8. PICK e : e = output(old, size, a) /\ e = Sequential!Loaded(a, bytes(size))
  BY <1>4, <1>5, LoadedAgrees
<1>9. fetched(i, R, mem) = e
  <2>1. PICK sx : sx \in BOOLEAN /\ ~sx /\ fetched(i, R, mem) = byte_mask(e, size, sx)
    BY <1>1, <1>4, <1>5, <1>8, Signals DEF fetched
  <2>2. byte_mask(output(mem[a \div 8], size, a), size, FALSE) = Sequential!Loaded(a, bytes(size))
    BY <1>4, FetchedAgrees, Zenon
  <2>3. sx = FALSE
    BY <2>1
  <2> QED
    BY <1>5, <1>8, <2>1, <2>2, <2>3, Zenon
<1>10. mem' = Sequential!StoredAt(a, bytes(size),
                Sequential!NewValue(i.aop, e, v % ByteMod^bytes(size), token % ByteMod^bytes(size)))
  <2>1. PICK new :
          new = Sequential!NewValue(i.aop, e, v % ByteMod^bytes(size), token % ByteMod^bytes(size))
    OBVIOUS
  <2>2. modified(i.aop, old, v, token, size, a) = word_with(old, new, size, a)
    BY <1>7, <1>8, <2>1
  <2>3. Sequential!StoredAt(a, bytes(size), new)
          = [mem EXCEPT ![a \div 8] = word_with(mem[a \div 8], new, size, a)]
    BY StoredAtIs
  <2> QED
    BY <1>5, <1>6, <2>1, <2>2, <2>3
<1> QED
  BY <1>0, <1>2, <1>3, <1>4, <1>5, <1>8, <1>9, <1>10, SameNames
     DEF Sequential!Atomic, Sequential!Continue, R

(* A jump.                                                                 *)
LEMMA JumpStepAgrees ==
  ASSUME NEW i, runs(i), Execute(i), i.class \in JumpClass, i.code # "JCALL"
  PROVE  Sequential!Jump(i)
<1>0. i.code \in BranchOps \union {"JA"} /\ i.code # "JEXIT"
  BY RunningFacts DEF valid_instruction, valid_jump, JumpClass, AluClass, MemClass, BranchOps
<1>1. /\ ~Control(i).write_en /\ ~Control(i).write_r0
      /\ (Control(i).jump <=> (i.code = "JA"))
      /\ (Control(i).jump32 <=> (i.class = "JMP32" /\ i.code = "JA"))
      /\ ~Control(i).reg_write
      /\ (sig_branch(i) <=> (i.code # "JA")) /\ i.class # "LD"
  BY <1>0, Signals DEF is_jump, sig_branch, is_call, is_cmpxchg, is_atomic, sig_reg_write, AluClass,
         JumpClass, MemClass, BranchOps
<1>2. mem' = mem /\ reg_file_written' = R
  BY <1>1, ExecuteFacts DEF mem_after, regs_after
<1>3. PICK w : w = is_64(i) /\ w = (i.class = "JMP")
  BY DEF is_64
<1>4. width(w) = IF i.class = "JMP" THEN Sequential!WordBits ELSE Sequential!WordBits \div 2
  BY <1>3, SameNames DEF width
<1>5. i.code \in BranchOps =>
        (branches(i, architectural_pc, R)
         <=> Sequential!Holds(i.code, width(w), Sequential!Cut(w, reg_file_written[i.dst]),
                              Sequential!Cut(w, Sequential!OperandB(i))))
  <2> SUFFICES ASSUME i.code \in BranchOps
               PROVE  branches(i, architectural_pc, R)
                      <=> Sequential!Holds(i.code, width(w),
                                           Sequential!Cut(w, reg_file_written[i.dst]),
                                           Sequential!Cut(w, Sequential!OperandB(i)))
    OBVIOUS
  <2>1. PICK a, b : /\ a = first(i, R) /\ b = second(i, architectural_pc, R) /\ w \in BOOLEAN
                    /\ a \in 0 .. values(w) - 1 /\ b \in 0 .. values(w) - 1
                    /\ a = Sequential!Cut(w, reg_file_written[i.dst])
                    /\ b = Sequential!Cut(w, Sequential!OperandB(i))
                    /\ Control(i).alu64 = w
    <3>1. i.class \in AluClass \/ (i.class \in JumpClass /\ i.code \in BranchOps)
      OBVIOUS
    <3>2. /\ is_64(i) \in BOOLEAN /\ Control(i).alu64 = is_64(i)
          /\ \A x : Sequential!Cut(is_64(i), x) = cut(is_64(i), x)
          /\ first(i, R) = cut(is_64(i), reg_file_written[i.dst])
      BY <3>1, OperandsAgree
    <3>3. \A pc : /\ second(i, pc, R) = cut(is_64(i), Sequential!OperandB(i))
                  /\ first(i, R) \in 0 .. values(is_64(i)) - 1
                  /\ second(i, pc, R) \in 0 .. values(is_64(i)) - 1
      BY <3>1, OperandsAgree
    <3> QED
      BY <1>3, <3>2, <3>3
  <2>2. Sequential!Holds(i.code, width(w), a, b) <=> taken(i.code, w, a, b)
    BY <2>1, BranchAgrees
  <2>3. i.code # "JA"
    BY DEF BranchOps
  <2> QED
    BY <1>1, <2>1, <2>2, <2>3 DEF branches
<1>6. i.code = "JA" => ~branches(i, architectural_pc, R)
  BY <1>1 DEF branches
<1>7. architectural_pc'
      = IF branches(i, architectural_pc, R) \/ i.code = "JA"
        THEN JumpTo(NextPC(architectural_pc),
                    IF i.class = "JMP32" /\ i.code = "JA" THEN i.imm ELSE i.offset)
        ELSE NextPC(architectural_pc)
  BY <1>1, ExecuteFacts DEF successor
<1> QED
  BY <1>0, <1>2, <1>3, <1>4, <1>5, <1>6, <1>7, SameNames
     DEF Sequential!Jump, Sequential!JumpClass, JumpClass, R

(* A call.                                                                 *)
LEMMA CallStepAgrees ==
  ASSUME NEW i, runs(i), Execute(i), is_call(i)
  PROVE  Sequential!Call(i)
<1>1. /\ ~Control(i).write_en /\ Control(i).write_r0 /\ ~Control(i).jump
      /\ ~sig_branch(i) /\ i.class # "LD"
  BY Signals DEF is_jump, sig_branch, is_call, is_cmpxchg, is_atomic, sig_reg_write, AluClass,
         JumpClass, MemClass
<1>2. architectural_pc' = NextPC(architectural_pc)
  BY <1>1, ExecuteFacts DEF successor, branches
<1>3. mem' = mem
  BY <1>1, ExecuteFacts DEF mem_after
<1>4. reg_file_written' = [R EXCEPT ![0] = MapLookup(R[1], R[2])]
  BY <1>1, ExecuteFacts DEF regs_after, target, result
<1> QED
  BY <1>2, <1>3, <1>4, SameNames
       DEF Sequential!Call, Sequential!Put, Sequential!Continue, is_call, R
-----------------------------------------------------------------------------
(***************************************************************************)
(* Programs.                                                               *)
(***************************************************************************)
(* The instruction at the program counter means the same to both.          *)
Meaningful ==
  ~Sequential!Faults(imem[architectural_pc]) => has_meaning(imem[architectural_pc])

(* The instruction does what the machine does at its program counter.      *)
LEMMA ExecuteAgrees ==
  ASSUME TypeOK, architectural_pc \in PC, Meaningful, Execute(imem[architectural_pc])
  PROVE  Sequential!Step(imem[architectural_pc])
<1>1. PICK i : i = imem[architectural_pc]
  OBVIOUS
<1>2. runs(i) /\ has_meaning(i) /\ Execute(i)
  <2>1. i \in Instruction
    BY <1>1 DEF TypeOK
  <2> QED
    BY <1>1, <2>1 DEF runs, Meaningful, Execute
<1>3. /\ valid_instruction(i)
      /\ i.class \in {"LD"} \union MemClass \union AluClass \union JumpClass
  BY <1>2, RunningFacts
<1>4. \/ Sequential!LoadImm64(i) \/ Sequential!LoadReg(i) \/ Sequential!StoreMem(i)
      \/ Sequential!Atomic(i) \/ Sequential!Arithmetic(i) \/ Sequential!Jump(i) \/ Sequential!Call(i)
  <2>1. CASE i.class = "LD"
    BY <1>2, <2>1, ConstantStep
  <2>2. CASE i.class \in AluClass
    BY <1>2, <2>2, ArithmeticStep
  <2>3. CASE i.class = "LDX"
    BY <1>2, <2>3, LoadStepAgrees
  <2>4. CASE i.class = "ST" \/ (i.class = "STX" /\ i.mode = "MEM")
    BY <1>2, <2>4, StoreStepAgrees
  <2>5. CASE is_atomic(i)
    BY <1>2, <2>5, AtomicStepAgrees
  <2>6. CASE i.class = "STX"
    <3>1. i.mode = "MEM" \/ is_atomic(i)
      BY <1>3, <2>6 DEF valid_instruction, valid_store, is_atomic, AluClass, JumpClass
    <3> QED
      BY <2>4, <2>5, <2>6, <3>1
  <2>7. CASE i.class \in JumpClass /\ i.code # "JCALL"
    BY <1>2, <2>7, JumpStepAgrees
  <2>8. CASE i.class \in JumpClass /\ i.code = "JCALL"
    <3>1. is_call(i)
      BY <1>3, <2>8 DEF valid_instruction, valid_jump, is_call, AluClass, JumpClass, BranchOps
    <3> QED
      BY <1>2, <3>1, CallStepAgrees
  <2> QED
    BY <1>3, <2>1, <2>2, <2>3, <2>4, <2>6, <2>7, <2>8 DEF MemClass
<1>5. imem' = imem /\ ~Sequential!Exits(i) /\ ~Sequential!Faults(i)
  BY <1>2 DEF Execute
<1> QED
  BY <1>1, <1>4, <1>5 DEF Sequential!Step

(* The program counter of one instruction after the other.                 *)
LEMMA PCStep ==
  ASSUME TypeOK, architectural_pc \in PC, [InOrderNext]_(Sequential!vars)
  PROVE  architectural_pc' \in PC
<1>1. CASE Execute(imem[architectural_pc])
  <2>1. PICK i \in Instruction : i = imem[architectural_pc] /\ Execute(i)
    BY <1>1 DEF TypeOK
  <2>2. i.imm \in Int /\ i.offset \in Int
    <3>1. i.imm \in Half32 /\ i.offset \in Int
      BY DEF Instruction
    <3> QED
      BY <3>1, WordsArePowers DEF Half32
  <2>3. NextPC(architectural_pc) \in PC /\ NextPC(NextPC(architectural_pc)) \in PC
    BY PCs
  <2>4. architectural_pc' = successor(i, architectural_pc, R)
    BY <2>1, ExecuteFacts
  <2> QED
    BY <2>2, <2>3, <2>4, PCs DEF successor
<1>2. CASE Sequential!Restart
  BY <1>2, PCs DEF Sequential!Restart
<1>3. CASE Sequential!HostWrite
  BY <1>3 DEF Sequential!HostWrite
<1>4. CASE UNCHANGED Sequential!vars
  BY <1>4 DEF Sequential!vars
<1> QED
  BY <1>1, <1>2, <1>3, <1>4 DEF InOrderNext

(* The pipeline (BPF_Core.vhd) executes programs as a machine that has no  *)
(* pipeline and no units, for every program, memory, host, latency of the  *)
(* divider and width of a byte: program counter, registers and memory      *)
(* change as the numbers say that the instructions stand for.              *)
THEOREM PipelineIsSequential ==
  ASSUME HostSleeps # "any"
  PROVE  Spec /\ []Agreed /\ []Meaningful => SequentialSpec
<1>1. Spec /\ []Agreed => InOrderSpec
  BY InOrderImplemented
<1>2. Spec => []TypeOK
  BY TypeCorrectCore
<1>3. Sequential!Init => architectural_pc \in PC
  BY PCs DEF Sequential!Init
<1>4. TypeOK /\ architectural_pc \in PC /\ [InOrderNext]_(Sequential!vars)
        => (architectural_pc \in PC)'
  BY PCStep
<1>5. TypeOK /\ architectural_pc \in PC /\ Meaningful /\ [InOrderNext]_(Sequential!vars)
      => [Sequential!Next]_(Sequential!vars)
  BY ExecuteAgrees DEF InOrderNext, Sequential!Next
<1> QED
  BY <1>1, <1>2, <1>3, <1>4, <1>5, PTL DEF InOrderSpec, SequentialSpec, Sequential!Spec
=============================================================================
