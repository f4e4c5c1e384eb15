--------------------------- MODULE Arithmetic_proofs ---------------------------
(***************************************************************************)
(* What the units compute, for every width: sums over sets of places, the  *)
(* bits and bytes of a value, and the operations of the ALU, of the byte   *)
(* mask and of the data memory interface, which give values of a register. *)
(***************************************************************************)
EXTENDS Alu, ByteLanes, FiniteSetTheorems, WellFoundedInduction, TLAPS

(***************************************************************************)
(* Induction, with a set for what is to be proved.                         *)
(***************************************************************************)
(* A set with 0 and with the successor of each of its numbers holds every  *)
(* number.                                                                 *)
LEMMA CountingUp ==
  ASSUME NEW T, 0 \in T, \A n \in Nat : n \in T => n + 1 \in T
  PROVE  Nat \subseteq T
<1> DEFINE less == OpToRel(<, Nat)
           rest == Nat \ T
<1>1. ASSUME rest # {} PROVE FALSE
  <2>1. IsWellFoundedOn(less, Nat)
    BY NatLessThanWellFounded
  <2>2. \A a, b \in Nat : <<a, b>> \in less <=> a < b
    BY DEF OpToRel
  <2>3. rest \subseteq Nat
    OBVIOUS
  <2> HIDE DEF less, rest
  <2>4. PICK x \in rest : \A y \in rest : ~ (<<y, x>> \in less)
    BY <1>1, <2>1, <2>3, WFMin
  <2>5. x \in Nat /\ \A y \in rest : ~(y < x)
    BY <2>2, <2>3, <2>4
  <2>6. x # 0
    BY <2>4 DEF rest
  <2>7. x - 1 \in Nat /\ x - 1 < x
    BY <2>5, <2>6
  <2>8. x - 1 \in T
    BY <2>5, <2>7 DEF rest
  <2>9. (x - 1) + 1 \in T
    BY <2>7, <2>8
  <2> QED
    BY <2>4, <2>5, <2>9 DEF rest
<1> QED
  BY <1>1

(* A set with the empty set, and with every set that is one of its sets    *)
(* and one element more, holds every subset of a finite set.               *)
LEMMA FillingUp ==
  ASSUME NEW S, IsFiniteSet(S), NEW T, {} \in T,
         \A s \in SUBSET S : (\E x \in s : s \ {x} \in T) => s \in T
  PROVE  SUBSET S \subseteq T
<1> DEFINE U == {n \in Nat : \A s \in SUBSET S : Cardinality(s) = n => s \in T}
<1>1. 0 \in U
  BY FS_EmptySet, FS_Subset
<1>2. ASSUME NEW n \in Nat, n \in U PROVE n + 1 \in U
  <2> SUFFICES ASSUME NEW s \in SUBSET S, Cardinality(s) = n + 1 PROVE s \in T
    OBVIOUS
  <2>1. IsFiniteSet(s)
    BY FS_Subset
  <2>2. PICK x : x \in s
    BY <1>2, <2>1, FS_EmptySet
  <2>3. Cardinality(s \ {x}) = Cardinality(s) - 1
    BY <2>1, <2>2, FS_RemoveElement
  <2>4. Cardinality(s \ {x}) = n /\ s \ {x} \in SUBSET S
    BY <1>2, <2>3
  <2> QED
    BY <1>2, <2>2, <2>4
<1>3. Nat \subseteq U
  <2> HIDE DEF U
  <2> QED
    BY <1>1, <1>2, CountingUp
<1>4. SUFFICES ASSUME NEW s \in SUBSET S PROVE s \in T
  OBVIOUS
<1>5. Cardinality(s) \in Nat
  BY FS_Subset, FS_CardinalityType
<1> QED
  BY <1>3, <1>5

(***************************************************************************)
(* Sums over finite sets.                                                  *)
(***************************************************************************)
(* The element that is taken first, and the functions that add up subsets. *)
some(s) == CHOOSE x \in s : TRUE
sums(g, S, F) ==
  g = [s \in SUBSET S |-> IF s = {} THEN 0 ELSE F[some(s)] + g[s \ {some(s)}]]

(* There is a function that adds the elements of each subset, one by one.  *)
LEMMA SumsExist ==
  ASSUME NEW S, IsFiniteSet(S), NEW F
  PROVE  \E g : sums(g, S, F)
<1> DEFINE D(n) == {s \in SUBSET S : Cardinality(s) <= n}
           Eq(g, n) == g = [s \in D(n) |-> IF s = {} THEN 0 ELSE F[some(s)] + g[s \ {some(s)}]]
           U == {n \in Nat : \E g : Eq(g, n)}
<1>0. \A s \in SUBSET S : Cardinality(s) \in Nat /\ IsFiniteSet(s)
  BY FS_Subset, FS_CardinalityType
<1>a. ASSUME NEW s \in SUBSET S, s # {} PROVE some(s) \in s /\ Cardinality(s \ {some(s)}) = Cardinality(s) - 1
  <2>1. some(s) \in s
    BY <1>a DEF some
  <2> QED
    BY <1>0, <2>1, FS_RemoveElement
<1>1. 0 \in U
  <2>1. D(0) = {{}}
    BY <1>0, FS_EmptySet
  <2> DEFINE g == [s \in D(0) |-> 0]
  <2>2. Eq(g, 0)
    BY <2>1
  <2> QED
    BY <2>2
<1>2. ASSUME NEW n \in Nat, n \in U PROVE n + 1 \in U
  <2>1. PICK g : Eq(g, n)
    BY <1>2
  <2> DEFINE body(h, s) == IF s = {} THEN 0 ELSE F[some(s)] + h[s \ {some(s)}]
             h == [s \in D(n + 1) |-> body(g, s)]
  <2>2. ASSUME NEW s \in D(n + 1), s # {} PROVE s \ {some(s)} \in D(n) /\ s \ {some(s)} \in D(n + 1)
    BY <1>0, <1>a, <2>2
  <2>3. \A t \in D(n) : t \in D(n + 1) /\ h[t] = g[t]
    <3> TAKE t \in D(n)
    <3>1. t \in D(n + 1)
      BY <1>0
    <3>2. g[t] = body(g, t)
      BY <2>1
    <3> QED
      BY <3>1, <3>2
  <2>4. \A s \in D(n + 1) : h[s] = body(h, s)
    <3> TAKE s \in D(n + 1)
    <3>1. h[s] = body(g, s)
      OBVIOUS
    <3>2. s # {} => h[s \ {some(s)}] = g[s \ {some(s)}]
      BY <2>2, <2>3
    <3> HIDE DEF h, D
    <3> QED
      BY <3>1, <3>2
  <2>5. h = [s \in D(n + 1) |-> body(h, s)]
    <3> h = [s \in D(n + 1) |-> h[s]]
      OBVIOUS
    <3> HIDE DEF h, D, body
    <3> QED
      BY <2>4
  <2> HIDE DEF h, D
  <2>6. Eq(h, n + 1)
    BY <2>5
  <2> HIDE DEF Eq
  <2> QED
    BY <2>6
<1>3. Nat \subseteq U
  <2> HIDE DEF U
  <2> QED
    BY <1>1, <1>2, CountingUp
<1>4. Cardinality(S) \in Nat /\ D(Cardinality(S)) = SUBSET S
  BY FS_Subset, FS_CardinalityType
<1>5. PICK g : Eq(g, Cardinality(S))
  BY <1>3, <1>4
<1> QED
  BY <1>4, <1>5 DEF sums

(* MapThenSumSet, as number and of_bytes use it, is such a sum.            *)
sum(S, F) == MapThenSumSet(LAMBDA k : F[k], S)

(* The sum over a set is the value of such a function.                     *)
LEMMA SumIsFold ==
  ASSUME NEW S, IsFiniteSet(S), NEW F
  PROVE  \E g : sums(g, S, F) /\ sum(S, F) = g[S]
<1> DEFINE is(h) ==
      h = [s \in SUBSET S |->
             IF s = {} THEN 0 ELSE F[CHOOSE x \in s : TRUE] + h[s \ {CHOOSE x \in s : TRUE}]]
<1>0. PICK f : sums(f, S, F)
  BY SumsExist
<1>1. is(f)
  BY <1>0, Zenon DEF sums, some
<1>2. \E h : is(h) /\ sum(S, F) = h[S]
  BY <1>1 DEF sum, MapThenSumSet, MapThenFoldSet
<1>3. PICK h : is(h) /\ sum(S, F) = h[S]
  BY <1>2
<1>4. sums(h, S, F)
  BY <1>3, Zenon DEF sums, some
<1> QED
  BY <1>3, <1>4

(* Two such functions agree where what they add agrees.                    *)
LEMMA SumsAgree ==
  ASSUME NEW S, IsFiniteSet(S), NEW F, NEW G, NEW f, NEW g, NEW R \in SUBSET S,
         sums(f, S, F), sums(g, R, G), \A k \in R : F[k] = G[k]
  PROVE  \A s \in SUBSET R : f[s] = g[s]
<1> DEFINE U == {s \in SUBSET R : f[s] = g[s]}
           W == {n \in Nat : \A s \in SUBSET R : Cardinality(s) = n => s \in U}
<1>0. \A s \in SUBSET R : Cardinality(s) \in Nat /\ IsFiniteSet(s)
  BY FS_Subset, FS_CardinalityType
<1>1. 0 \in W
  <2> SUFFICES ASSUME NEW s \in SUBSET R, Cardinality(s) = 0 PROVE f[s] = g[s]
    OBVIOUS
  <2>1. s = {}
    BY <1>0, FS_EmptySet
  <2> QED
    BY <2>1 DEF sums
<1>2. ASSUME NEW n \in Nat, n \in W PROVE n + 1 \in W
  <2> SUFFICES ASSUME NEW s \in SUBSET R, Cardinality(s) = n + 1 PROVE f[s] = g[s]
    OBVIOUS
  <2>1. s # {}
    BY <1>0, FS_EmptySet
  <2>2. some(s) \in s
    BY <2>1 DEF some
  <2>3. Cardinality(s \ {some(s)}) = Cardinality(s) - 1
    BY <1>0, <2>2, FS_RemoveElement
  <2>4. s \ {some(s)} \in SUBSET R /\ s \ {some(s)} \in SUBSET S /\ s \in SUBSET S
    OBVIOUS
  <2>5. f[s \ {some(s)}] = g[s \ {some(s)}]
    BY <1>2, <2>3, <2>4
  <2>6. f[s] = F[some(s)] + f[s \ {some(s)}]
    BY <2>1, <2>4 DEF sums
  <2>7. g[s] = G[some(s)] + g[s \ {some(s)}]
    BY <2>1, <2>4 DEF sums
  <2> QED
    BY <2>2, <2>5, <2>6, <2>7
<1>3. Nat \subseteq W
  <2> HIDE DEF W
  <2> QED
    BY <1>1, <1>2, CountingUp
<1> QED
  BY <1>0, <1>3

(* The sum over no element is zero.                                        *)
LEMMA SumOfNone ==
  ASSUME NEW F
  PROVE  sum({}, F) = 0
<1>1. IsFiniteSet({})
  BY FS_EmptySet
<1>2. PICK g : sums(g, {}, F) /\ sum({}, F) = g[{}]
  BY <1>1, SumIsFold
<1> QED
  BY <1>2 DEF sums

(* The sum only depends on what is added.                                  *)
LEMMA SumSame ==
  ASSUME NEW S, IsFiniteSet(S), NEW F, NEW G, \A k \in S : F[k] = G[k]
  PROVE  sum(S, F) = sum(S, G)
<1>1. PICK f : sums(f, S, F) /\ sum(S, F) = f[S]
  BY SumIsFold
<1>2. PICK g : sums(g, S, G) /\ sum(S, G) = g[S]
  BY SumIsFold
<1>3. S \in SUBSET S
  OBVIOUS
<1>4. \A s \in SUBSET S : f[s] = g[s]
  BY <1>1, <1>2, <1>3, SumsAgree
<1> QED
  BY <1>1, <1>2, <1>3, <1>4

(* Any element may be the first to be added.                               *)
LEMMA AnyFirst ==
  ASSUME NEW S, IsFiniteSet(S), NEW F, NEW g, sums(g, S, F), \A k \in S : F[k] \in Int
  PROVE  \A s \in SUBSET S : g[s] \in Int /\ \A x \in s : g[s] = F[x] + g[s \ {x}]
<1> DEFINE good(s) == g[s] \in Int /\ \A x \in s : g[s] = F[x] + g[s \ {x}]
           W == {n \in Nat : \A s \in SUBSET S : Cardinality(s) <= n => good(s)}
<1>0. \A s \in SUBSET S : Cardinality(s) \in Nat /\ IsFiniteSet(s)
  BY FS_Subset, FS_CardinalityType
<1>1. 0 \in W
  <2> SUFFICES ASSUME NEW s \in SUBSET S, Cardinality(s) <= 0 PROVE good(s)
    OBVIOUS
  <2>1. s = {}
    BY <1>0, FS_EmptySet
  <2> QED
    BY <2>1 DEF sums
<1>2. ASSUME NEW n \in Nat, n \in W PROVE n + 1 \in W
  <2> SUFFICES ASSUME NEW s \in SUBSET S, Cardinality(s) <= n + 1 PROVE good(s)
    OBVIOUS
  <2>1. CASE s = {}
    BY <2>1 DEF sums
  <2> SUFFICES ASSUME s # {} PROVE good(s)
    BY <2>1
  <2> DEFINE y == some(s)
  <2>2. y \in s
    BY DEF some
  <2>3. ASSUME NEW x \in s PROVE good(s \ {x})
    <3>1. Cardinality(s \ {x}) = Cardinality(s) - 1
      BY <1>0, <2>3, FS_RemoveElement
    <3>2. s \ {x} \in SUBSET S /\ Cardinality(s \ {x}) <= n
      BY <1>0, <3>1
    <3> HIDE DEF good
    <3> QED
      BY <1>2, <3>2
  <2>4. g[s] = F[y] + g[s \ {y}]
    BY DEF sums
  <2> HIDE DEF y
  <2>5. F[y] \in Int /\ g[s \ {y}] \in Int /\ g[s] \in Int
    BY <2>2, <2>3, <2>4
  <2>6. ASSUME NEW x \in s, x # y PROVE g[s] = F[x] + g[s \ {x}]
    <3>1. (s \ {y}) \ {x} = (s \ {x}) \ {y}
      OBVIOUS
    <3>2. g[s \ {y}] = F[x] + g[(s \ {y}) \ {x}]
      BY <2>2, <2>3, <2>6
    <3>3. g[s \ {x}] = F[y] + g[(s \ {x}) \ {y}]
      BY <2>2, <2>3, <2>6
    <3>4. good((s \ {y}) \ {x})
      <4>1. /\ Cardinality(s \ {y}) = Cardinality(s) - 1
            /\ Cardinality((s \ {y}) \ {x}) = Cardinality(s \ {y}) - 1
            /\ Cardinality(s) \in Int /\ IsFiniteSet(s \ {y})
        <5>1. Cardinality(s \ {y}) = Cardinality(s) - 1 /\ IsFiniteSet(s \ {y})
          BY <1>0, <2>2, FS_RemoveElement
        <5>2. Cardinality((s \ {y}) \ {x}) = Cardinality(s \ {y}) - 1
          BY <2>6, <5>1, FS_RemoveElement
        <5> QED
          BY <1>0, <5>1, <5>2
      <4>2. (s \ {y}) \ {x} \in SUBSET S /\ Cardinality((s \ {y}) \ {x}) <= n
        BY <4>1
      <4> HIDE DEF good
      <4> QED
        BY <1>2, <4>2
    <3> DEFINE z == g[(s \ {y}) \ {x}]
    <3>5. F[x] \in Int /\ F[y] \in Int /\ z \in Int
      BY <2>2, <3>4
    <3>6. g[s] = F[y] + (F[x] + z) /\ g[s \ {x}] = F[y] + z
      BY <2>4, <3>1, <3>2, <3>3
    <3> HIDE DEF z
    <3> QED
      BY <3>5, <3>6
  <2> QED
    BY <2>4, <2>5, <2>6
<1>3. Nat \subseteq W
  <2> HIDE DEF W
  <2> QED
    BY <1>1, <1>2, CountingUp
<1> QED
  BY <1>0, <1>3

(* A sum is the sum of any element and of the rest.                        *)
LEMMA SumPoint ==
  ASSUME NEW S, IsFiniteSet(S), NEW F, \A k \in S : F[k] \in Int
  PROVE  /\ sum(S, F) \in Int
         /\ \A x \in S : sum(S, F) = F[x] + sum(S \ {x}, F)
<1>1. PICK g : sums(g, S, F) /\ sum(S, F) = g[S]
  BY SumIsFold
<1>2. S \in SUBSET S
  OBVIOUS
<1>0. sums(g, S, F)
  BY <1>1
<1>a. \A s \in SUBSET S : g[s] \in Int /\ \A x \in s : g[s] = F[x] + g[s \ {x}]
  BY <1>0, AnyFirst
<1>3. g[S] \in Int /\ \A x \in S : g[S] = F[x] + g[S \ {x}]
  BY <1>2, <1>a
<1>4. ASSUME NEW x \in S PROVE g[S \ {x}] = sum(S \ {x}, F)
  <2>1. IsFiniteSet(S \ {x}) /\ S \ {x} \in SUBSET S
    BY FS_Subset
  <2>2. PICK h : sums(h, S \ {x}, F) /\ sum(S \ {x}, F) = h[S \ {x}]
    BY <2>1, SumIsFold
  <2>3. \A s \in SUBSET (S \ {x}) : g[s] = h[s]
    BY <1>1, <2>1, <2>2, SumsAgree
  <2> QED
    BY <2>2, <2>3
<1> QED
  BY <1>1, <1>3, <1>4

(* The sum over two sets is the sum of the two sums.                       *)
LEMMA SumOfUnion ==
  ASSUME NEW S, IsFiniteSet(S), NEW T, IsFiniteSet(T), S \intersect T = {},
         NEW F, \A k \in S \union T : F[k] \in Int
  PROVE  sum(S \union T, F) = sum(S, F) + sum(T, F)
<1> DEFINE G == {t \in SUBSET T : sum(S \union t, F) = sum(S, F) + sum(t, F)}
<1>1. {} \in G
  <2>1. sum(S, F) \in Int
    BY SumPoint
  <2>2. sum({}, F) = 0 /\ S \union {} = S
    BY SumOfNone
  <2> QED
    BY <2>1, <2>2
<1>2. ASSUME NEW t \in SUBSET T, NEW x \in t, t \ {x} \in G PROVE t \in G
  <2>1. IsFiniteSet(t) /\ IsFiniteSet(S \union t)
    BY FS_Subset, FS_Union
  <2>2. sum(S, F) \in Int /\ sum(t \ {x}, F) \in Int /\ F[x] \in Int
    BY <2>1, SumPoint, FS_Subset
  <2>3. sum(t, F) = F[x] + sum(t \ {x}, F)
    BY <2>1, SumPoint
  <2>4. (S \union t) \ {x} = S \union (t \ {x})
    BY <1>2
  <2>5. sum(S \union t, F) = F[x] + sum((S \union t) \ {x}, F)
    <3>1. x \in S \union t /\ \A k \in S \union t : F[k] \in Int
      OBVIOUS
    <3> QED
      BY <2>1, <3>1, SumPoint
  <2>6. sum(S \union (t \ {x}), F) = sum(S, F) + sum(t \ {x}, F)
    BY <1>2
  <2>7. sum(S \union t, F) = F[x] + (sum(S, F) + sum(t \ {x}, F))
    BY <2>4, <2>5, <2>6, Zenon
  <2>8. sum(S \union t, F) = sum(S, F) + sum(t, F)
    BY <2>2, <2>3, <2>7
  <2> QED
    BY <2>8
<1>3. SUBSET T \subseteq G
  <2> HIDE DEF G
  <2> QED
    BY <1>1, <1>2, FillingUp
<1> QED
  BY <1>3

(* Elements that weigh nothing may be left out.                            *)
LEMMA SumOfZeros ==
  ASSUME NEW S, IsFiniteSet(S), NEW F, \A k \in S : F[k] = 0
  PROVE  sum(S, F) = 0
<1> DEFINE G == {t \in SUBSET S : sum(t, F) = 0}
<1>1. {} \in G
  BY SumOfNone
<1>2. ASSUME NEW t \in SUBSET S, NEW x \in t, t \ {x} \in G PROVE t \in G
  <2>1. IsFiniteSet(t) /\ F[x] = 0 /\ \A k \in t : F[k] \in Int
    BY FS_Subset
  <2>2. sum(t, F) = F[x] + sum(t \ {x}, F)
    BY <2>1, SumPoint
  <2> QED
    BY <1>2, <2>1, <2>2
<1>3. SUBSET S \subseteq G
  <2> HIDE DEF G
  <2> QED
    BY <1>1, <1>2, FillingUp
<1> QED
  BY <1>3

(***************************************************************************)
(* Quotients and remainders.                                               *)
(***************************************************************************)
(* Quotient and remainder, with the provers' own facts and that a natural  *)
(* number has a natural quotient.                                          *)
LEMMA Quotient ==
  ASSUME NEW c \in Nat \ {0}, NEW a \in Int
  PROVE  /\ a \div c \in Int /\ a % c \in 0 .. c - 1 /\ a = (a \div c) * c + (a % c)
         /\ a \in Nat => a \div c \in Nat
<1>1. a \div c \in Int /\ a % c \in 0 .. c - 1 /\ a = (a \div c) * c + (a % c)
  OBVIOUS
<1>2. ASSUME a \in Nat, a \div c < 0 PROVE FALSE
  <2>1. PICK q \in Int : q = a \div c
    BY <1>1
  <2>2. q <= -1
    BY <1>2, <2>1
  <2>3. q * c <= -c
    BY <2>2
  <2> QED
    BY <1>1, <1>2, <2>1, <2>3
<1> QED
  BY <1>1, <1>2

(* There is one quotient and one remainder.                                *)
LEMMA QuotientUnique ==
  ASSUME NEW c \in Nat \ {0}, NEW q \in Int, NEW r \in 0 .. c - 1
  PROVE  (q * c + r) \div c = q /\ (q * c + r) % c = r
<1> DEFINE a == q * c + r
<1>1. PICK p \in Int, s \in 0 .. c - 1 : p = a \div c /\ s = a % c /\ a = p * c + s
  BY Quotient
<1>2. (p - q) * c = r - s
  BY <1>1
<1>3. p - q = 0
  <2>1. ASSUME p - q >= 1 PROVE FALSE
    <3>1. (p - q) * c >= c
      BY <2>1
    <3> QED
      BY <1>2, <3>1
  <2>2. ASSUME p - q <= -1 PROVE FALSE
    <3>1. (p - q) * c <= -c
      BY <2>2
    <3> QED
      BY <1>2, <3>1
  <2> QED
    BY <2>1, <2>2
<1>4. p = q /\ r = s
  BY <1>2, <1>3
<1> QED
  BY <1>1, <1>4

(* A multiple of the divisor goes to the quotient.                         *)
LEMMA ShiftedQuotient ==
  ASSUME NEW c \in Nat \ {0}, NEW a \in Int, NEW n \in Int
  PROVE  (a + n * c) \div c = a \div c + n /\ (a + n * c) % c = a % c
<1>1. PICK q \in Int, r \in 0 .. c - 1 : q = a \div c /\ r = a % c /\ a = q * c + r
  BY Quotient
<1>2. a + n * c = (q + n) * c + r
  BY <1>1
<1>3. ((q + n) * c + r) \div c = q + n /\ ((q + n) * c + r) % c = r
  BY QuotientUnique
<1> QED
  BY <1>1, <1>2, <1>3

(* A number below the divisor is its own remainder.                        *)
LEMMA SmallQuotient ==
  ASSUME NEW c \in Nat \ {0}, NEW a \in 0 .. c - 1
  PROVE  a \div c = 0 /\ a % c = a
<1>1. (0 * c + a) \div c = 0 /\ (0 * c + a) % c = a
  BY QuotientUnique
<1>2. 0 * c + a = a
  OBVIOUS
<1> QED
  BY <1>1, <1>2

(* The remainder by a product: the digit above, and the rest.              *)
LEMMA SplitRemainder ==
  ASSUME NEW b \in Nat \ {0}, NEW c \in Nat \ {0}, NEW a \in Int
  PROVE  a % (b * c) = ((a \div b) % c) * b + (a % b)
<1>0. b * c \in Nat \ {0}
  OBVIOUS
<1>1. PICK q \in Int, r \in 0 .. b - 1 : q = a \div b /\ r = a % b /\ a = q * b + r
  BY Quotient
<1>2. PICK p \in Int, s \in 0 .. c - 1 : p = q \div c /\ s = q % c /\ q = p * c + s
  BY Quotient
<1>3. a = p * (b * c) + (s * b + r)
  <2>1. q * b = p * c * b + s * b
    BY <1>2
  <2> QED
    BY <1>1, <2>1
<1>4. s * b + r \in 0 .. (b * c) - 1
  <2>1. s * b >= 0
    OBVIOUS
  <2>2. (s + 1) * b <= c * b
    OBVIOUS
  <2>3. s * b + b <= b * c
    BY <2>2
  <2> QED
    BY <2>1, <2>3
<1>5. a \div (b * c) = p /\ a % (b * c) = s * b + r
  BY <1>0, <1>3, <1>4, QuotientUnique
<1> QED
  BY <1>0, <1>1, <1>2, <1>5

(***************************************************************************)
(* Numbers with n digits in base B, whose places weigh w.                  *)
(***************************************************************************)
(* Places weigh 1, B, B * B and so on, up to the n-th.                     *)
weights(w, B, n) ==
  /\ B \in Nat /\ B > 1 /\ n \in Nat /\ w[0] = 1
  /\ \A k \in 0 .. n : w[k] \in Nat \ {0}
  /\ \A k \in 0 .. n - 1 : w[k + 1] = w[k] * B

(* A digit of v.                                                           *)
digit(v, w, B, k) == (v \div w[k]) % B

(* A place is a multiple of each lower one.                                *)
LEMMA HigherPlace ==
  ASSUME NEW w, NEW B, NEW n, weights(w, B, n), NEW m \in 0 .. n, NEW k \in 0 .. m - 1
  PROVE  \E c \in Nat \ {0} : w[m] = (c * B) * w[k]
<1> DEFINE U == {j \in Nat : k + 1 + j <= n => \E c \in Nat \ {0} : w[k + 1 + j] = (c * B) * w[k]}
<1>0. k \in Nat /\ n \in Nat /\ B \in Nat \ {0} /\ m \in Nat
  BY DEF weights
<1>1. 0 \in U
  <2> SUFFICES ASSUME k + 1 <= n PROVE \E c \in Nat \ {0} : w[k + 1] = (c * B) * w[k]
    BY <1>0
  <2>1. w[k + 1] = (1 * B) * w[k]
    BY <1>0 DEF weights
  <2> QED
    BY <2>1
<1>2. ASSUME NEW j \in Nat, j \in U PROVE j + 1 \in U
  <2> SUFFICES ASSUME k + 1 + (j + 1) <= n
               PROVE  \E c \in Nat \ {0} : w[k + 1 + (j + 1)] = (c * B) * w[k]
    OBVIOUS
  <2>1. PICK c \in Nat \ {0} : w[k + 1 + j] = (c * B) * w[k]
    BY <1>0, <1>2
  <2>2. w[(k + 1 + j) + 1] = w[k + 1 + j] * B
    BY <1>0 DEF weights
  <2>3. w[k] \in Nat /\ (c * B) \in Nat \ {0} /\ k + 1 + (j + 1) = (k + 1 + j) + 1
    BY <1>0 DEF weights
  <2>4. w[k + 1 + (j + 1)] = ((c * B) * B) * w[k]
    BY <1>0, <2>1, <2>2, <2>3
  <2> QED
    BY <2>3, <2>4
<1>3. Nat \subseteq U
  <2> HIDE DEF U
  <2> QED
    BY <1>1, <1>2, CountingUp
<1>4. PICK j \in Nat : j = m - (k + 1)
  BY <1>0
<1>5. j \in U
  <2> HIDE DEF U
  <2> QED
    BY <1>3, <1>4
<1>6. k + 1 + j = m /\ m <= n
  BY <1>0, <1>4
<1>7. \E c \in Nat \ {0} : w[k + 1 + j] = (c * B) * w[k]
  BY <1>0, <1>5, <1>6
<1> QED
  BY <1>6, <1>7

(* A digit in front of a number.                                           *)
LEMMA DigitInFront ==
  ASSUME NEW w, NEW B, NEW n, weights(w, B, n), NEW m \in 0 .. n - 1,
         NEW v \in 0 .. w[m] - 1, NEW d \in 0 .. B - 1
  PROVE  /\ d * w[m] + v \in 0 .. w[m + 1] - 1
         /\ digit(d * w[m] + v, w, B, m) = d
         /\ \A k \in 0 .. m - 1 : digit(d * w[m] + v, w, B, k) = digit(v, w, B, k)
<1>0. /\ m \in Nat /\ n \in Nat /\ B \in Nat \ {0} /\ w[m] \in Nat \ {0} /\ w[m + 1] = w[m] * B
      /\ d \in Nat /\ d < B /\ v \in Nat /\ v < w[m]
  BY DEF weights
<1>1. d * w[m] + v \in 0 .. w[m + 1] - 1
  <2>1. (d + 1) * w[m] <= B * w[m]
    BY <1>0
  <2>2. d * w[m] + w[m] <= w[m] * B /\ d * w[m] >= 0
    BY <1>0, <2>1
  <2> QED
    BY <1>0, <2>2
<1>2. digit(d * w[m] + v, w, B, m) = d
  <2>0. d \in Int /\ v \in 0 .. w[m] - 1
    BY <1>0
  <2>1. (d * w[m] + v) \div w[m] = d
    BY <1>0, <2>0, QuotientUnique
  <2>2. d % B = d
    BY <1>0, SmallQuotient
  <2> QED
    BY <2>1, <2>2 DEF digit
<1>3. ASSUME NEW k \in 0 .. m - 1
      PROVE  digit(d * w[m] + v, w, B, k) = digit(v, w, B, k)
  <2>0. m \in 0 .. n /\ k \in 0 .. n
    BY <1>0
  <2>1. PICK c \in Nat \ {0} : w[m] = (c * B) * w[k]
    BY <2>0, HigherPlace
  <2>2. w[k] \in Nat \ {0} /\ v \in Int /\ d * (c * B) \in Int
    BY <1>0, <2>0 DEF weights
  <2>3. d * w[m] + v = v + (d * (c * B)) * w[k]
    <3>1. d * ((c * B) * w[k]) = (d * (c * B)) * w[k]
      BY <1>0, <2>2
    <3>2. (d * (c * B)) * w[k] \in Int
      BY <2>2
    <3> QED
      BY <1>0, <2>1, <3>1, <3>2
  <2>4. (d * w[m] + v) \div w[k] = v \div w[k] + d * (c * B)
    BY <2>2, <2>3, ShiftedQuotient
  <2>5. d * (c * B) = (d * c) * B /\ d * c \in Int /\ v \div w[k] \in Int
    <3>1. v \div w[k] \in Int
      BY <2>2, Quotient
    <3> QED
      BY <1>0, <3>1
  <2>6. (v \div w[k] + (d * c) * B) % B = (v \div w[k]) % B
    BY <1>0, <2>5, ShiftedQuotient
  <2> QED
    BY <2>4, <2>5, <2>6 DEF digit
<1> QED
  BY <1>1, <1>2, <1>3

(* The sum of the places of given digits has these digits.                 *)
LEMMA SumHasDigits ==
  ASSUME NEW w, NEW B, NEW n, weights(w, B, n), NEW d, \A k \in 0 .. n - 1 : d[k] \in 0 .. B - 1,
         NEW F, \A k \in 0 .. n - 1 : F[k] = d[k] * w[k]
  PROVE  /\ sum(0 .. n - 1, F) \in 0 .. w[n] - 1
         /\ \A k \in 0 .. n - 1 : digit(sum(0 .. n - 1, F), w, B, k) = d[k]
<1> DEFINE good(m) == /\ sum(0 .. m - 1, F) \in 0 .. w[m] - 1
                      /\ \A k \in 0 .. m - 1 : digit(sum(0 .. m - 1, F), w, B, k) = d[k]
           U == {m \in Nat : m <= n => good(m)}
<1>0. n \in Nat /\ B \in Nat \ {0} /\ \A k \in 0 .. n - 1 : F[k] \in Int
  BY DEF weights
<1>1. 0 \in U
  <2>1. 0 .. 0 - 1 = {} /\ w[0] = 1
    BY DEF weights
  <2>2. sum({}, F) = 0
    BY SumOfNone
  <2> QED
    BY <2>1, <2>2
<1>2. ASSUME NEW m \in Nat, m \in U PROVE m + 1 \in U
  <2> SUFFICES ASSUME m + 1 <= n PROVE good(m + 1)
    OBVIOUS
  <2>1. m \in 0 .. n - 1 /\ good(m)
    BY <1>0, <1>2
  <2> DEFINE v == sum(0 .. m - 1, F)
  <2>2. sum(0 .. (m + 1) - 1, F) = d[m] * w[m] + v
    <3>1. IsFiniteSet(0 .. (m + 1) - 1)
      BY FS_Interval
    <3>2. \A k \in 0 .. (m + 1) - 1 : F[k] \in Int
      BY <1>0, <2>1
    <3>3. m \in 0 .. (m + 1) - 1 /\ (0 .. (m + 1) - 1) \ {m} = 0 .. m - 1
      OBVIOUS
    <3>4. sum(0 .. (m + 1) - 1, F) = F[m] + sum((0 .. (m + 1) - 1) \ {m}, F)
      BY <3>1, <3>2, <3>3, SumPoint
    <3> QED
      BY <2>1, <3>3, <3>4
  <2>3. v \in 0 .. w[m] - 1 /\ d[m] \in 0 .. B - 1
    BY <2>1
  <2>4. \A k \in 0 .. m - 1 : digit(v, w, B, k) = d[k]
    BY <2>1
  <2> HIDE DEF v
  <2>5. /\ d[m] * w[m] + v \in 0 .. w[m + 1] - 1
        /\ digit(d[m] * w[m] + v, w, B, m) = d[m]
        /\ \A k \in 0 .. m - 1 : digit(d[m] * w[m] + v, w, B, k) = digit(v, w, B, k)
    BY <2>1, <2>3, DigitInFront
  <2>6. \A k \in 0 .. (m + 1) - 1 : k = m \/ k \in 0 .. m - 1
    OBVIOUS
  <2> QED
    BY <2>2, <2>4, <2>5, <2>6
<1>3. Nat \subseteq U
  <2> HIDE DEF U
  <2> QED
    BY <1>1, <1>2, CountingUp
<1> QED
  BY <1>0, <1>3

(* A number is the sum of the places of its digits.                        *)
LEMMA SumOfDigits ==
  ASSUME NEW w, NEW B, NEW n, weights(w, B, n), NEW v \in Nat,
         NEW F, \A k \in 0 .. n - 1 : F[k] = digit(v, w, B, k) * w[k]
  PROVE  sum(0 .. n - 1, F) = v % w[n]
<1> DEFINE U == {m \in Nat : m <= n => sum(0 .. m - 1, F) = v % w[m]}
<1>0. /\ n \in Nat /\ B \in Nat \ {0}
      /\ \A k \in 0 .. n : w[k] \in Nat \ {0} /\ v \div w[k] \in Int
      /\ \A k \in 0 .. n - 1 : w[k + 1] = w[k] * B /\ digit(v, w, B, k) \in Int
  <2>1. ASSUME NEW k \in 0 .. n PROVE w[k] \in Nat \ {0} /\ v \div w[k] \in Int
    <3>1. w[k] \in Nat \ {0} /\ v \in Int
      BY DEF weights
    <3> QED
      BY <3>1, Quotient
  <2>2. \A k \in 0 .. n - 1 : digit(v, w, B, k) \in Int
    BY <2>1, Quotient DEF weights, digit
  <2> QED
    BY <2>1, <2>2 DEF weights
<1>a. \A k \in 0 .. n - 1 : F[k] \in Int
  BY <1>0
<1>1. 0 \in U
  <2>1. 0 .. 0 - 1 = {} /\ w[0] = 1
    BY DEF weights
  <2>2. sum({}, F) = 0 /\ v % 1 = 0
    BY SumOfNone
  <2> QED
    BY <2>1, <2>2
<1>2. ASSUME NEW m \in Nat, m \in U PROVE m + 1 \in U
  <2> SUFFICES ASSUME m + 1 <= n PROVE sum(0 .. (m + 1) - 1, F) = v % w[m + 1]
    OBVIOUS
  <2>1. m \in 0 .. n - 1 /\ sum(0 .. m - 1, F) = v % w[m]
    BY <1>0, <1>2
  <2>2. sum(0 .. (m + 1) - 1, F) = digit(v, w, B, m) * w[m] + sum(0 .. m - 1, F)
    <3>1. IsFiniteSet(0 .. (m + 1) - 1)
      BY FS_Interval
    <3>2. \A k \in 0 .. (m + 1) - 1 : F[k] \in Int
      <4>1. \A k \in 0 .. (m + 1) - 1 : k \in 0 .. n - 1
        BY <1>0, <2>1
      <4> QED
        BY <1>a, <4>1
    <3>3. m \in 0 .. (m + 1) - 1 /\ (0 .. (m + 1) - 1) \ {m} = 0 .. m - 1
      OBVIOUS
    <3>4. sum(0 .. (m + 1) - 1, F) = F[m] + sum((0 .. (m + 1) - 1) \ {m}, F)
      BY <3>1, <3>2, <3>3, SumPoint
    <3> QED
      BY <2>1, <3>3, <3>4
  <2>3. v % (w[m] * B) = ((v \div w[m]) % B) * w[m] + (v % w[m])
    <3>1. w[m] \in Nat \ {0} /\ v \in Int
      BY <1>0, <2>1
    <3> QED
      BY <1>0, <3>1, SplitRemainder
  <2> QED
    BY <1>0, <2>1, <2>2, <2>3 DEF digit
<1>3. Nat \subseteq U
  <2> HIDE DEF U
  <2> QED
    BY <1>1, <1>2, CountingUp
<1> QED
  BY <1>0, <1>3

(***************************************************************************)
(* Powers of two.                                                          *)
(***************************************************************************)
(* A register has a whole number of bits.                                  *)
LEMMA ExactWidths ==
  /\ WordBits \in Nat \ {0} /\ WordBits = 8 * ByteBits /\ ByteBits \in Nat \ {0}
  /\ 4 * ByteBits \in Nat \ {0}
BY ByteOK DEF WordBits

(* Powers of two up to a word are positive, and multiply.                  *)
LEMMA Powers ==
  /\ \A k \in 0 .. WordBits : 2^k \in Nat \ {0}
  /\ \A j, k \in 0 .. WordBits : j + k <= WordBits => 2^(j + k) = 2^j * 2^k
<1> DEFINE U == {k \in Nat : k <= WordBits => 2^k \in Nat \ {0}}
<1>0. WordBits \in Nat /\ \A k \in 0 .. WordBits - 1 : 2^(k + 1) = 2 * 2^k
  BY ExactWidths, PowersOK
<1>1. 0 \in U
  OBVIOUS
<1>2. ASSUME NEW n \in Nat, n \in U PROVE n + 1 \in U
  <2> SUFFICES ASSUME n + 1 <= WordBits PROVE 2^(n + 1) \in Nat \ {0}
    OBVIOUS
  <2>1. n \in 0 .. WordBits - 1 /\ 2^n \in Nat \ {0}
    BY <1>0, <1>2
  <2>2. 2^(n + 1) = 2 * 2^n
    BY <1>0, <2>1
  <2> QED
    BY <2>1, <2>2
<1>3. \A k \in 0 .. WordBits : 2^k \in Nat \ {0}
  <2>1. Nat \subseteq U
    <3> HIDE DEF U
    <3> QED
      BY <1>1, <1>2, CountingUp
  <2> QED
    BY <1>0, <2>1
<1>4. ASSUME NEW j \in 0 .. WordBits
      PROVE  \A k \in 0 .. WordBits : j + k <= WordBits => 2^(j + k) = 2^j * 2^k
  <2> DEFINE T == {k \in Nat : j + k <= WordBits => 2^(j + k) = 2^j * 2^k}
  <2>0. j \in Nat /\ 2^j \in Nat
    BY <1>0, <1>3
  <2>1. 0 \in T
    <3>1. j + 0 = j
      BY <2>0
    <3> QED
      BY <2>0, <3>1
  <2>2. ASSUME NEW n \in Nat, n \in T PROVE n + 1 \in T
    <3> SUFFICES ASSUME j + (n + 1) <= WordBits PROVE 2^(j + (n + 1)) = 2^j * 2^(n + 1)
      OBVIOUS
    <3>1. n \in 0 .. WordBits - 1 /\ j + n \in 0 .. WordBits - 1 /\ j + (n + 1) = (j + n) + 1
      BY <1>0, <2>0
    <3>2. 2^(n + 1) = 2 * 2^n /\ 2^((j + n) + 1) = 2 * 2^(j + n)
      BY <1>0, <3>1
    <3>3. 2^(j + n) = 2^j * 2^n
      BY <1>0, <2>0, <2>2
    <3>4. 2^n \in Nat
      BY <1>0, <1>3, <3>1
    <3>5. 2^(j + (n + 1)) = 2 * (2^j * 2^n)
      BY <3>1, <3>2, <3>3
    <3>6. \A x, y \in Nat : 2 * (x * y) = x * (2 * y)
      OBVIOUS
    <3> QED
      BY <2>0, <3>2, <3>4, <3>5, <3>6
  <2>3. Nat \subseteq T
    <3> HIDE DEF T
    <3> QED
      BY <2>1, <2>2, CountingUp
  <2> QED
    BY <1>0, <2>3
<1> QED
  BY <1>3, <1>4

(* A byte, a half and a word are powers of two.                            *)
LEMMA WordsArePowers ==
  /\ HalfMod = 2^(4 * ByteBits) /\ WordMod = 2^WordBits /\ HalfMod \in Nat \ {0} /\ WordMod \in Nat \ {0}
  /\ ByteMod = 2^ByteBits /\ ByteMod \in Nat /\ ByteMod > 1
  /\ \A k \in 0 .. 8 : k * ByteBits \in 0 .. WordBits /\ ByteMod^k = 2^(k * ByteBits)
<1>0. /\ WordBits = 8 * ByteBits /\ ByteBits \in Nat \ {0} /\ HalfMod = 2^(4 * ByteBits)
      /\ ByteMod = 2^ByteBits
  BY ByteOK DEF WordBits, ByteMod
<1>1. 4 * ByteBits \in 0 .. WordBits /\ 4 * ByteBits + 4 * ByteBits = WordBits
      /\ ByteBits \in 0 .. WordBits
  BY <1>0
<1>2. WordMod = 2^WordBits
  BY <1>0, <1>1, Powers DEF WordMod
<1>3. ByteMod \in Nat /\ ByteMod > 1
  <2>1. ByteBits - 1 \in 0 .. WordBits - 1 /\ ByteBits - 1 \in 0 .. WordBits /\ (ByteBits - 1) + 1 = ByteBits
    BY <1>0
  <2>2. 2^((ByteBits - 1) + 1) = 2 * 2^(ByteBits - 1)
    BY <2>1, PowersOK
  <2>3. 2^(ByteBits - 1) \in Nat \ {0}
    BY <2>1, Powers
  <2> QED
    BY <1>0, <2>1, <2>2, <2>3
<1>4. \A k \in 0 .. 8 : k * ByteBits \in 0 .. WordBits /\ ByteMod^k = 2^(k * ByteBits)
  <2> DEFINE U == {k \in Nat : k <= 8 => ByteMod^k = 2^(k * ByteBits)}
  <2>1. 0 \in U
    <3>1. 0 * ByteBits = 0 /\ 2^0 = 1
      BY <1>0
    <3> QED
      BY <3>1, PowersOK
  <2>2. ASSUME NEW n \in Nat, n \in U PROVE n + 1 \in U
    <3> SUFFICES ASSUME n + 1 <= 8 PROVE ByteMod^(n + 1) = 2^((n + 1) * ByteBits)
      OBVIOUS
    <3>1. n \in 0 .. 7 /\ ByteMod^n = 2^(n * ByteBits)
      BY <2>2
    <3>2. ByteMod^(n + 1) = ByteMod * ByteMod^n
      BY <3>1, PowersOK
    <3>3. (n + 1) * ByteBits = ByteBits + n * ByteBits
      BY <1>0
    <3>4. n * ByteBits \in 0 .. WordBits /\ ByteBits + n * ByteBits <= WordBits
      BY <1>0, <3>1
    <3>5. 2^(ByteBits + n * ByteBits) = 2^ByteBits * 2^(n * ByteBits)
      BY <1>1, <3>4, Powers
    <3> QED
      BY <1>0, <3>1, <3>2, <3>3, <3>5
  <2>3. Nat \subseteq U
    <3> HIDE DEF U
    <3> QED
      BY <2>1, <2>2, CountingUp
  <2>4. \A k \in 0 .. 8 : k * ByteBits \in 0 .. WordBits
    BY <1>0
  <2> QED
    BY <2>3, <2>4
<1> QED
  BY <1>0, <1>1, <1>2, <1>3, <1>4, Powers, ExactWidths

(***************************************************************************)
(* A value is the sum of its bits and of its bytes.                        *)
(***************************************************************************)
(* The places of the bits, and of the bytes, of a word.                    *)
places == [k \in 0 .. WordBits |-> 2^k]

(* The number with given bits is the sum of their places.                  *)
LEMMA NumberIsSum ==
  ASSUME NEW K \in SUBSET (0 .. WordBits - 1)
  PROVE  number(K) = sum(K, places)
<1> DEFINE is(h) ==
      h = [s \in SUBSET K |->
             IF s = {} THEN 0 ELSE 2^(CHOOSE x \in s : TRUE) + h[s \ {CHOOSE x \in s : TRUE}]]
<1>0. IsFiniteSet(K) /\ WordBits \in Nat
  <2>1. IsFiniteSet(0 .. WordBits - 1) /\ WordBits \in Nat
    BY ExactWidths, FS_Interval
  <2> QED
    BY <2>1, FS_Subset
<1>1. \A s \in SUBSET K : s # {} => 2^(CHOOSE x \in s : TRUE) = places[some(s)]
  <2> SUFFICES ASSUME NEW s \in SUBSET K, s # {} PROVE 2^some(s) = places[some(s)]
    BY DEF some
  <2>0. some(s) \in s
    BY DEF some
  <2>1. some(s) \in 0 .. WordBits - 1
    BY <2>0
  <2>2. \A k \in 0 .. WordBits - 1 : k \in 0 .. WordBits
    BY <1>0
  <2>3. some(s) \in 0 .. WordBits
    BY <2>1, <2>2
  <2> QED
    BY <2>3 DEF places
<1>2. \A h : is(h) <=> sums(h, K, places)
  BY <1>1, Zenon DEF sums, some
<1>3. PICK f : sums(f, K, places)
  BY <1>0, SumsExist
<1>4. is(f)
  BY <1>2, <1>3
<1>5. \E h : is(h) /\ number(K) = h[K]
  BY <1>4 DEF number, MapThenSumSet, MapThenFoldSet
<1>6. PICK h : sums(h, K, places) /\ number(K) = h[K]
  BY <1>2, <1>5
<1>7. PICK g : sums(g, K, places) /\ sum(K, places) = g[K]
  BY <1>0, SumIsFold
<1>8. h[K] = g[K]
  BY <1>0, <1>6, <1>7, SumsAgree
<1> QED
  BY <1>6, <1>7, <1>8

(* So is the number with given bytes.                                      *)
LEMMA BytesAreSum ==
  ASSUME NEW S, IsFiniteSet(S), NEW b, DOMAIN b = S, NEW F, \A k \in S : F[k] = b[k] * ByteMod^k
  PROVE  of_bytes(b) = sum(S, F)
<1> DEFINE is(h) ==
      h = [s \in SUBSET S |->
             IF s = {} THEN 0
             ELSE b[CHOOSE x \in s : TRUE] * ByteMod^(CHOOSE x \in s : TRUE)
                  + h[s \ {CHOOSE x \in s : TRUE}]]
<1>1. \A s \in SUBSET S : s # {} =>
         b[CHOOSE x \in s : TRUE] * ByteMod^(CHOOSE x \in s : TRUE) = F[some(s)]
  <2> SUFFICES ASSUME NEW s \in SUBSET S, s # {} PROVE b[some(s)] * ByteMod^some(s) = F[some(s)]
    BY DEF some
  <2>1. some(s) \in s
    BY DEF some
  <2> QED
    BY <2>1
<1>2. \A h : is(h) <=> sums(h, S, F)
  BY <1>1, ZenonT(40) DEF sums, some
<1>3. PICK f : sums(f, S, F)
  BY SumsExist
<1>4. is(f)
  BY <1>2, <1>3, ZenonT(40)
<1>5. \E h : is(h) /\ of_bytes(b) = h[S]
  <2>1. of_bytes(b) = MapThenSumSet(LAMBDA k : b[k] * ByteMod^k, S)
    BY DEF of_bytes
  <2>2. \E h : is(h) /\ MapThenSumSet(LAMBDA k : b[k] * ByteMod^k, S) = h[S]
    BY <1>4, ZenonT(40) DEF MapThenSumSet, MapThenFoldSet
  <2> QED
    BY <2>1, <2>2
<1>6. PICK h : sums(h, S, F) /\ of_bytes(b) = h[S]
  BY <1>2, <1>5
<1>7. PICK g : sums(g, S, F) /\ sum(S, F) = g[S]
  BY SumIsFold
<1>8. h[S] = g[S]
  BY <1>6, <1>7, SumsAgree
<1> QED
  BY <1>6, <1>7, <1>8

byte_places == [k \in 0 .. 8 |-> ByteMod^k]

(* The places of bits and of bytes, up to a word.                          *)
LEMMA Weights ==
  /\ weights(places, 2, WordBits) /\ places[WordBits] = WordMod
  /\ weights(byte_places, ByteMod, 8) /\ byte_places[8] = WordMod
<1>1. /\ WordBits \in Nat \ {0} /\ \A k \in 0 .. WordBits : places[k] = 2^k
      /\ \A k \in 0 .. WordBits - 1 : k \in 0 .. WordBits /\ k + 1 \in 0 .. WordBits
  BY ExactWidths DEF places
<1>2. weights(places, 2, WordBits)
  <2>1. places[0] = 1
    <3>1. 0 \in 0 .. WordBits
      BY <1>1
    <3>2. places[0] = 2^0
      BY <1>1, <3>1
    <3>3. 2^0 = 1
      OBVIOUS
    <3> QED
      BY <3>2, <3>3
  <2>2. \A k \in 0 .. WordBits : places[k] \in Nat \ {0}
    BY <1>1, Powers
  <2>3. \A k \in 0 .. WordBits - 1 : places[k + 1] = places[k] * 2
    <3> TAKE k \in 0 .. WordBits - 1
    <3>1. places[k + 1] = 2 * 2^k /\ places[k] = 2^k /\ 2^k \in Nat
      BY <1>1, Powers, PowersOK
    <3> QED
      BY <3>1
  <2> QED
    BY <1>1, <2>1, <2>2, <2>3 DEF weights
<1>3. places[WordBits] = WordMod
  BY <1>1, WordsArePowers
<1>4. \A k \in 0 .. 8 : byte_places[k] = ByteMod^k
  BY DEF byte_places
<1>5. \A k \in 0 .. 8 : ByteMod^k \in Nat \ {0}
  BY WordsArePowers, Powers
<1>6. \A k \in 0 .. 8 - 1 : byte_places[k + 1] = byte_places[k] * ByteMod
  <2> TAKE k \in 0 .. 8 - 1
  <2>1. k \in 0 .. 7 /\ k \in 0 .. 8 /\ k + 1 \in 0 .. 8
    OBVIOUS
  <2>2. byte_places[k + 1] = ByteMod * ByteMod^k /\ byte_places[k] = ByteMod^k /\ ByteMod^k \in Nat
    BY <1>4, <1>5, <2>1, PowersOK
  <2> QED
    BY <2>2, WordsArePowers
<1>7. weights(byte_places, ByteMod, 8)
  <2>1. byte_places[0] = 1
    BY <1>4, PowersOK
  <2> QED
    <3>1. ByteMod \in Nat /\ ByteMod > 1
      BY WordsArePowers
    <3>2. \A k \in 0 .. 8 : byte_places[k] \in Nat \ {0}
      BY <1>4, <1>5
    <3> QED
      BY <1>6, <2>1, <3>1, <3>2 DEF weights
<1>8. byte_places[8] = WordMod
  <2>1. ByteMod^8 = 2^(8 * ByteBits)
    BY WordsArePowers
  <2> QED
    BY <1>4, <2>1, WordsArePowers, ExactWidths
<1> QED
  BY <1>2, <1>3, <1>7, <1>8

(* A bit is a digit to the base 2.                                         *)
LEMMA BitsAreDigits ==
  ASSUME NEW v, NEW k \in 0 .. WordBits - 1
  PROVE  bit(v, k) = digit(v, places, 2, k)
BY ExactWidths DEF bit, digit, places

(* A byte is a digit to the base ByteMod.                                  *)
LEMMA BytesAreDigits ==
  ASSUME NEW v, NEW k \in 0 .. 7
  PROVE  byte(v, k) = digit(v, byte_places, ByteMod, k)
BY DEF byte, digit, byte_places

(* The bits of a number, and the number of a set of bits.                  *)
LEMMA NumberHasBits ==
  ASSUME NEW K \in SUBSET (0 .. WordBits - 1)
  PROVE  number(K) \in Data /\ ones(number(K)) = K
<1> DEFINE d == [k \in 0 .. WordBits - 1 |-> IF k \in K THEN 1 ELSE 0]
           F == [k \in 0 .. WordBits - 1 |-> d[k] * places[k]]
<1>0. /\ WordBits \in Nat /\ IsFiniteSet(0 .. WordBits - 1) /\ IsFiniteSet(K)
      /\ IsFiniteSet((0 .. WordBits - 1) \ K)
  <2>1. WordBits \in Nat /\ IsFiniteSet(0 .. WordBits - 1)
    BY ExactWidths, FS_Interval
  <2> QED
    BY <2>1, FS_Subset
<1>1. \A k \in 0 .. WordBits - 1 : d[k] \in 0 .. 2 - 1 /\ F[k] = d[k] * places[k]
  OBVIOUS
<1>2. \A k \in 0 .. WordBits - 1 : F[k] \in Int /\ (k \in K => F[k] = places[k])
                                   /\ (k \notin K => F[k] = 0)
  <2>1. \A k \in 0 .. WordBits - 1 : places[k] \in Nat
    <3>1. \A k \in 0 .. WordBits : places[k] \in Nat \ {0}
      BY Weights, Zenon DEF weights
    <3> QED
      BY <1>0, <3>1
  <2> QED
    BY <2>1
<1> HIDE DEF F, d
<1>3. /\ sum(0 .. WordBits - 1, F) \in 0 .. WordMod - 1
      /\ \A k \in 0 .. WordBits - 1 : digit(sum(0 .. WordBits - 1, F), places, 2, k) = d[k]
  BY <1>1, Weights, SumHasDigits
<1>4. sum(0 .. WordBits - 1, F) = number(K)
  <2> DEFINE rest == (0 .. WordBits - 1) \ K
  <2>1. 0 .. WordBits - 1 = K \union rest /\ K \intersect rest = {} /\ IsFiniteSet(rest)
    BY <1>0
  <2>a. /\ \A k \in K \union rest : F[k] \in Int
        /\ \A k \in rest : F[k] = 0
    BY <1>2
  <2> HIDE DEF rest
  <2>2. sum(K \union rest, F) = sum(K, F) + sum(rest, F)
    BY <1>0, <2>1, <2>a, SumOfUnion
  <2>3. sum(rest, F) = 0
    BY <2>1, <2>a, SumOfZeros
  <2>4. sum(K, F) = sum(K, places)
    BY <1>0, <1>2, SumSame
  <2>5. sum(K, F) \in Int
    BY <1>0, <1>2, SumPoint
  <2>6. sum(K \union rest, F) = sum(K, F)
    BY <2>2, <2>3, <2>5
  <2> QED
    BY <2>1, <2>4, <2>6, NumberIsSum, Zenon
<1>5. \A k \in 0 .. WordBits - 1 : bit(number(K), k) = IF k \in K THEN 1 ELSE 0
  <2>1. \A k \in 0 .. WordBits - 1 : d[k] = IF k \in K THEN 1 ELSE 0
    BY DEF d
  <2> QED
    BY <1>3, <1>4, <2>1, BitsAreDigits
<1>6. number(K) \in Data
  BY <1>3, <1>4 DEF Data
<1>7. ones(number(K)) = K
  <2>1. \A k \in 0 .. WordBits - 1 : bit(number(K), k) = 1 <=> k \in K
    BY <1>5
  <2>2. \A k \in K : k \in 0 .. WordBits - 1
    OBVIOUS
  <2> QED
    BY <2>1, <2>2, Zenon DEF ones
<1> QED
  BY <1>6, <1>7

(* A value is the number of its bits.                                      *)
LEMMA BitsMakeNumber ==
  ASSUME NEW v \in Data
  PROVE  ones(v) \in SUBSET (0 .. WordBits - 1) /\ number(ones(v)) = v
<1> DEFINE K == ones(v)
           F == [k \in 0 .. WordBits - 1 |-> digit(v, places, 2, k) * places[k]]
           rest == (0 .. WordBits - 1) \ K
<1>0. /\ WordBits \in Nat /\ IsFiniteSet(0 .. WordBits - 1) /\ K \in SUBSET (0 .. WordBits - 1)
  BY ExactWidths, FS_Interval DEF ones
<1>a. IsFiniteSet(K) /\ IsFiniteSet(rest)
  BY <1>0, FS_Subset
<1>1. v \in Nat /\ v % WordMod = v
  BY WordsArePowers, SmallQuotient DEF Data
<1>2. sum(0 .. WordBits - 1, F) = v
  <2>1. \A k \in 0 .. WordBits - 1 : F[k] = digit(v, places, 2, k) * places[k]
    OBVIOUS
  <2> HIDE DEF F
  <2>2. sum(0 .. WordBits - 1, F) = v % places[WordBits]
    BY <1>1, <2>1, Weights, SumOfDigits
  <2> QED
    BY <1>1, <2>2, Weights
<1>3. \A k \in 0 .. WordBits - 1 : places[k] \in Nat
  <2>1. \A k \in 0 .. WordBits : places[k] \in Nat \ {0}
    BY Weights, Zenon DEF weights
  <2> QED
    BY <1>0, <2>1
<1>4. \A k \in 0 .. WordBits - 1 :
         F[k] \in Int /\ (k \in K => F[k] = places[k]) /\ (k \notin K => F[k] = 0)
  <2> SUFFICES ASSUME NEW k \in 0 .. WordBits - 1
               PROVE  F[k] \in Int /\ (k \in K => F[k] = places[k]) /\ (k \notin K => F[k] = 0)
    OBVIOUS
  <2>1. bit(v, k) = digit(v, places, 2, k) /\ F[k] = digit(v, places, 2, k) * places[k]
    BY BitsAreDigits
  <2>2. k \in K <=> bit(v, k) = 1
    BY DEF ones
  <2>3. bit(v, k) \in {0, 1}
    <3>1. 2^k \in Nat \ {0} /\ v \in Int
      BY <1>0, <1>1, Powers
    <3>2. v \div 2^k \in Int
      BY <3>1, Quotient
    <3> QED
      BY <3>2 DEF bit
  <2> QED
    BY <1>3, <2>1, <2>2, <2>3
<1>5. sum(0 .. WordBits - 1, F) = sum(K, places)
  <2>1. 0 .. WordBits - 1 = K \union rest /\ K \intersect rest = {}
    BY <1>0
  <2>a. /\ \A k \in K \union rest : F[k] \in Int
        /\ \A k \in rest : F[k] = 0
        /\ \A k \in K : F[k] = places[k] /\ F[k] \in Int
    BY <1>0, <1>4
  <2> HIDE DEF rest, F, K
  <2>2. sum(K \union rest, F) = sum(K, F) + sum(rest, F)
    BY <1>a, <2>1, <2>a, SumOfUnion
  <2>3. sum(rest, F) = 0
    BY <1>a, <2>a, SumOfZeros
  <2>4. sum(K, F) = sum(K, places)
    BY <1>a, <2>a, SumSame
  <2>5. sum(K, F) \in Int
    BY <1>a, <2>a, SumPoint
  <2>6. sum(K \union rest, F) = sum(K, F)
    BY <2>2, <2>3, <2>5
  <2> QED
    BY <2>1, <2>4, <2>6, Zenon
<1> QED
  BY <1>0, <1>2, <1>5, NumberIsSum

(* A value is known by its bits.                                           *)
LEMMA SameBits ==
  ASSUME NEW v \in Data, NEW w \in Data,
         \A k \in 0 .. WordBits - 1 : bit(v, k) = 1 <=> bit(w, k) = 1
  PROVE  v = w
<1>1. ones(v) = ones(w)
  BY DEF ones
<1> QED
  BY <1>1, BitsMakeNumber

(* A byte is below ByteMod.                                                *)
LEMMA ByteType ==
  ASSUME NEW v \in Int, NEW k \in 0 .. 8
  PROVE  byte(v, k) \in 0 .. ByteMod - 1
<1>1. ByteMod^k \in Nat \ {0} /\ ByteMod \in Nat \ {0}
  BY WordsArePowers, Powers
<1>2. v \div ByteMod^k \in Int
  BY <1>1, Quotient
<1> QED
  BY <1>1, <1>2, Quotient DEF byte

(* The number with given bytes has these bytes.                            *)
LEMMA BytesOfBytes ==
  ASSUME NEW n \in 0 .. 8, NEW f, DOMAIN f = 0 .. n - 1, \A k \in 0 .. n - 1 : f[k] \in 0 .. ByteMod - 1
  PROVE  of_bytes(f) \in 0 .. ByteMod^n - 1 /\ \A k \in 0 .. n - 1 : byte(of_bytes(f), k) = f[k]
<1>1. weights(byte_places, ByteMod, n) /\ byte_places[n] = ByteMod^n
  <2>0. n \in Nat
    OBVIOUS
  <2>1. \A k \in 0 .. n : k \in 0 .. 8
    OBVIOUS
  <2>2. \A k \in 0 .. n - 1 : k \in 0 .. 8 - 1
    OBVIOUS
  <2>3. byte_places[n] = ByteMod^n
    BY DEF byte_places
  <2> QED
    BY <2>0, <2>1, <2>2, <2>3, Weights, Zenon DEF weights
<1>2. \A k \in 0 .. n - 1 : k \in 0 .. 7 /\ k \in 0 .. 8
  OBVIOUS
<1>3. PICK d : \A k \in 0 .. n - 1 : d[k] = f[k]
  OBVIOUS
<1> DEFINE F == [k \in 0 .. n - 1 |-> d[k] * byte_places[k]]
<1>4. \A k \in 0 .. n - 1 : F[k] = d[k] * byte_places[k] /\ F[k] = f[k] * ByteMod^k
  BY <1>2, <1>3 DEF byte_places
<1>5. \A k \in 0 .. n - 1 : d[k] \in 0 .. ByteMod - 1
  BY <1>3
<1> HIDE DEF F
<1>6. IsFiniteSet(0 .. n - 1)
  BY FS_Interval
<1>7. of_bytes(f) = sum(0 .. n - 1, F)
  BY <1>4, <1>6, BytesAreSum
<1>8. /\ sum(0 .. n - 1, F) \in 0 .. byte_places[n] - 1
      /\ \A k \in 0 .. n - 1 : digit(sum(0 .. n - 1, F), byte_places, ByteMod, k) = d[k]
  BY <1>1, <1>4, <1>5, SumHasDigits
<1> QED
  BY <1>1, <1>2, <1>3, <1>7, <1>8, BytesAreDigits

(***************************************************************************)
(* What the units compute are values of a register.                        *)
(***************************************************************************)
(* A size is one, two, four or eight bytes, and fits a word.               *)
LEMMA ByteCount ==
  ASSUME NEW size \in Size
  PROVE  /\ bytes(size) \in {1, 2, 4, 8}
         /\ bytes(size) * ByteBits \in 1 .. WordBits
         /\ ByteMod^bytes(size) = 2^(bytes(size) * ByteBits)
         /\ 2^(bytes(size) * ByteBits) \in 1 .. WordMod
<1>1. bytes(size) \in {1, 2, 4, 8}
  BY DEF bytes, Size
<1>2. bytes(size) * ByteBits \in 1 .. WordBits
  BY <1>1, ExactWidths
<1>3. \A k \in 0 .. WordBits : 2^k \in 1 .. WordMod
  <2> TAKE k \in 0 .. WordBits
  <2>1. k \in 0 .. WordBits /\ WordBits - k \in 0 .. WordBits /\ k + (WordBits - k) = WordBits
    BY ExactWidths
  <2>2. 2^WordBits = 2^k * 2^(WordBits - k)
    BY <2>1, Powers, ExactWidths
  <2>3. 2^k \in Nat \ {0} /\ 2^(WordBits - k) \in Nat \ {0}
    BY <2>1, Powers
  <2>4. \A x, y \in Nat \ {0} : x * y >= x
    OBVIOUS
  <2>5. 2^k <= 2^WordBits
    BY <2>2, <2>3, <2>4
  <2> QED
    BY <2>3, <2>5, WordsArePowers
<1>4. bytes(size) \in 0 .. 8 /\ bytes(size) * ByteBits \in 0 .. WordBits
  BY <1>1, <1>2, ExactWidths
<1> QED
  BY <1>1, <1>2, <1>3, <1>4, WordsArePowers

(* A word and its two halves.                                              *)
LEMMA Halves ==
  /\ \A v \in Data : v \in Nat /\ Low(v) \in Half32 /\ High(v) \in Half32 /\ v = Join(High(v), Low(v))
  /\ \A h, l \in Half32 : Join(h, l) \in Data /\ High(Join(h, l)) = h /\ Low(Join(h, l)) = l
  /\ Half32 \subseteq Data /\ HalfMod >= 2 /\ HalfMod <= WordMod /\ 0 \in Data
<1>0. HalfMod \in Nat \ {0} /\ WordMod \in Nat \ {0} /\ HalfMod >= 2
  BY WordsArePowers, HalfOK
<1>1. ASSUME NEW h \in Half32, NEW l \in Half32
      PROVE  Join(h, l) \in Data /\ High(Join(h, l)) = h /\ Low(Join(h, l)) = l
  <2>1. h \in Nat /\ l \in Nat /\ h <= HalfMod - 1 /\ l <= HalfMod - 1 /\ l \in 0 .. HalfMod - 1
    BY DEF Half32
  <2>2. h * HalfMod >= 0 /\ h * HalfMod <= (HalfMod - 1) * HalfMod
    BY <1>0, <2>1
  <2>3. (HalfMod - 1) * HalfMod = WordMod - HalfMod
    BY <1>0 DEF WordMod
  <2>4. h * HalfMod + l \in 0 .. WordMod - 1
    BY <1>0, <2>1, <2>2, <2>3
  <2>5. (h * HalfMod + l) \div HalfMod = h /\ (h * HalfMod + l) % HalfMod = l
    BY <1>0, <2>1, QuotientUnique
  <2> QED
    BY <2>4, <2>5 DEF Data, Join, High, Low
<1>2. ASSUME NEW v \in Data
      PROVE  v \in Nat /\ Low(v) \in Half32 /\ High(v) \in Half32 /\ v = Join(High(v), Low(v))
  <2>1. v \in Nat /\ v < WordMod
    BY <1>0 DEF Data
  <2>2. PICK q \in Nat, r \in 0 .. HalfMod - 1 : q = v \div HalfMod /\ r = v % HalfMod /\ v = q * HalfMod + r
    <3>1. v \in Int
      BY <2>1
    <3>2. /\ v \div HalfMod \in Nat /\ v % HalfMod \in 0 .. HalfMod - 1
          /\ v = (v \div HalfMod) * HalfMod + (v % HalfMod)
      BY <1>0, <2>1, <3>1, Quotient
    <3> QED
      BY <3>2
  <2>3. q <= HalfMod - 1
    <3> SUFFICES ASSUME q >= HalfMod PROVE FALSE
      BY <1>0, <2>2
    <3>1. q * HalfMod >= HalfMod * HalfMod
      BY <1>0, <2>2
    <3> QED
      BY <1>0, <2>1, <2>2, <3>1 DEF WordMod
  <2> QED
    BY <1>0, <2>1, <2>2, <2>3 DEF Half32, Join, High, Low
<1>3. HalfMod <= WordMod
  BY <1>0 DEF WordMod
<1> QED
  BY <1>0, <1>1, <1>2, <1>3 DEF Half32, Data

(* A half, extended by its sign, is a word.                                *)
LEMMA SignExtendType == \A h \in Half32 : SignExtend(h) \in Data
<1>1. HalfMod - 1 \in Half32
  BY WordsArePowers DEF Half32
<1> QED
  BY <1>1, Halves DEF SignExtend

(* The byte mask gives a word.                                             *)
LEMMA ByteMaskType ==
  ASSUME NEW v \in Int, NEW size \in Size, NEW sign_ext
  PROVE  byte_mask(v, size, sign_ext) \in Data
<1>1. PICK p \in 1 .. WordMod : p = 2^(bytes(size) * ByteBits)
  BY ByteCount
<1>2. p \in Nat \ {0} /\ v % p \in 0 .. p - 1 /\ WordMod \in Nat
  <2>1. p \in Nat \ {0} /\ WordMod \in Nat
    BY WordsArePowers
  <2> QED
    BY <2>1, Quotient
<1>3. byte_mask(v, size, sign_ext) \in {(v % p), (v % p) + (WordMod - p)}
  BY <1>1, <1>2 DEF byte_mask
<1> QED
  BY <1>2, <1>3 DEF Data

(* What a load reads is a word.                                            *)
LEMMA OutputType ==
  ASSUME NEW d \in Data, NEW size \in Size, NEW a \in Data
  PROVE  output(d, size, a) \in Data
<1>1. PICK p \in 1 .. WordMod : p = ByteMod^bytes(size)
  BY ByteCount
<1>2. bytes(size) \in Nat \ {0} /\ bytes(size) \in {1, 2, 4, 8} /\ a \in Int /\ d \in Int
  BY ByteCount, Halves, SMTT(30)
<1>3. sel_8b(a) \in 0 .. 7
  BY <1>2 DEF sel_8b
<1>4. (sel_8b(a) \div bytes(size)) * bytes(size) \in 0 .. 7
  <2>1. PICK s \in 0 .. 7 : s = sel_8b(a)
    BY <1>3
  <2>2. PICK n \in {1, 2, 4, 8} : n = bytes(size)
    BY <1>2
  <2>3. n = 1 => (s \div n) * n \in 0 .. 7
    BY <2>1
  <2>4. n = 2 => (s \div n) * n \in 0 .. 7
    BY <2>1
  <2>5. n = 4 => (s \div n) * n \in 0 .. 7
    BY <2>1
  <2>6. n = 8 => (s \div n) * n \in 0 .. 7
    BY <2>1
  <2> QED
    BY <2>1, <2>2, <2>3, <2>4, <2>5, <2>6
<1>5. \A k \in 0 .. 7 : ByteMod^k \in Nat \ {0}
  BY WordsArePowers, Powers
<1>6. PICK q \in Nat \ {0} : q = ByteMod^((sel_8b(a) \div bytes(size)) * bytes(size))
  BY <1>4, <1>5
<1>7. d \div q \in Int
  BY <1>2, Quotient
<1>8. p \in Nat \ {0} /\ WordMod \in Nat
  BY WordsArePowers
<1>9. (d \div q) % p \in 0 .. p - 1
  BY <1>7, <1>8, Quotient
<1> QED
  BY <1>1, <1>6, <1>8, <1>9 DEF output, Data

(* Writing bytes of a word replaces these and keeps the others.            *)
LEMMA WrittenBytesType ==
  ASSUME NEW old \in Int, NEW din \in Int, NEW lanes
  PROVE  /\ written_bytes(old, din, lanes) \in Data
         /\ \A k \in 0 .. 7 : byte(written_bytes(old, din, lanes), k)
                              = IF k \in lanes THEN byte(din, k) ELSE byte(old, k)
<1> DEFINE f == [k \in 0 .. 7 |-> IF k \in lanes THEN byte(din, k) ELSE byte(old, k)]
<1>1. \A k \in 0 .. 8 - 1 : f[k] \in 0 .. ByteMod - 1
  <2> TAKE k \in 0 .. 8 - 1
  <2>1. k \in 0 .. 8 /\ k \in 0 .. 7
    OBVIOUS
  <2>2. byte(din, k) \in 0 .. ByteMod - 1 /\ byte(old, k) \in 0 .. ByteMod - 1
    BY <2>1, ByteType
  <2> QED
    BY <2>1, <2>2
<1>2. DOMAIN f = 0 .. 8 - 1 /\ 8 \in 0 .. 8
  OBVIOUS
<1>3. written_bytes(old, din, lanes) = of_bytes(f)
  BY DEF written_bytes
<1>4. \A k \in 0 .. 7 : k \in 0 .. 8 - 1 /\ f[k] = IF k \in lanes THEN byte(din, k) ELSE byte(old, k)
  OBVIOUS
<1> HIDE DEF f
<1>5. of_bytes(f) \in 0 .. ByteMod^8 - 1 /\ \A k \in 0 .. 8 - 1 : byte(of_bytes(f), k) = f[k]
  BY <1>1, <1>2, BytesOfBytes
<1>6. ByteMod^8 = WordMod
  BY WordsArePowers, ExactWidths
<1> QED
  BY <1>3, <1>4, <1>5, <1>6 DEF Data

(* The bitwise operations give words.                                      *)
LEMMA BitwiseType ==
  ASSUME NEW a, NEW b
  PROVE  /\ number(ones(a) \union ones(b)) \in Data
         /\ number(ones(a) \intersect ones(b)) \in Data
         /\ number(SymDiff(ones(a), ones(b))) \in Data
<1>1. /\ ones(a) \union ones(b) \in SUBSET (0 .. WordBits - 1)
      /\ ones(a) \intersect ones(b) \in SUBSET (0 .. WordBits - 1)
      /\ SymDiff(ones(a), ones(b)) \in SUBSET (0 .. WordBits - 1)
  BY DEF ones, SymDiff
<1> QED
  BY <1>1, NumberHasBits

(* A remainder by a word is a word, one by a half a half.                  *)
LEMMA RemainderType ==
  /\ \A v \in Int : v % WordMod \in Data
  /\ \A v \in Int : v % HalfMod \in Half32
BY WordsArePowers, Quotient DEF Data, Half32

(* A quotient of a word is a word.                                         *)
LEMMA QuotientType ==
  ASSUME NEW v \in Data, NEW p \in Nat \ {0}
  PROVE  v \div p \in Data
<1>0. v \in Nat /\ v \in Int /\ WordMod \in Nat \ {0} /\ v < WordMod
  BY WordsArePowers DEF Data
<1>1. v \div p \in Nat /\ v = (v \div p) * p + (v % p) /\ v % p \in 0 .. p - 1
  BY <1>0, Quotient
<1>2. PICK q \in Nat : q = v \div p
  BY <1>1
<1>3. q * p >= q
  OBVIOUS
<1>4. q <= v
  <2>1. v % p \in Nat
    BY <1>1
  <2>2. q * p \in Nat
    OBVIOUS
  <2> QED
    BY <1>0, <1>1, <1>2, <1>3, <2>1, <2>2
<1> QED
  BY <1>0, <1>2, <1>4 DEF Data

(* A shift is by less than the width of a word.                            *)
LEMMA ShiftType ==
  ASSUME NEW b \in Int
  PROVE  shift(b) \in 0 .. WordBits - 1 /\ 2^shift(b) \in Nat \ {0}
<1>1. shift(b) \in 0 .. WordBits - 1
  BY ExactWidths, Quotient DEF shift
<1>2. shift(b) \in 0 .. WordBits
  BY <1>1, ExactWidths
<1> QED
  BY <1>1, <1>2, Powers

(* An arithmetic shift stays in its width.                                 *)
LEMMA ArithmeticShiftType ==
  ASSUME NEW v \in Int, NEW b \in Int, NEW m \in {HalfMod, WordMod}
  PROVE  arithmetic_shift(v, shift(b), m) \in 0 .. m - 1
<1>1. m \in Nat \ {0} /\ 2^shift(b) \in Nat \ {0}
  BY WordsArePowers, ShiftType
<1>2. PICK w : w = IF v >= m \div 2 THEN v - m ELSE v
  OBVIOUS
<1>a. w \in Int
  <2>1. v - m \in Int
    BY <1>1
  <2> QED
    BY <1>2, <2>1, Zenon
<1>3. w \div 2^shift(b) \in Int
  BY <1>1, <1>a, Quotient
<1>4. (w \div 2^shift(b)) % m \in 0 .. m - 1
  BY <1>1, <1>3, Quotient
<1> QED
  BY <1>2, <1>4, Zenon DEF arithmetic_shift

(* Bytes in the opposite order are a word.                                 *)
LEMMA ByteSwapType ==
  ASSUME NEW a \in Int, NEW n \in {2, 4, 8}
  PROVE  byte_swap(a, n) \in Data
<1> DEFINE f == [k \in 0 .. n - 1 |-> byte(a, n - 1 - k)]
<1>1. \A k \in 0 .. n - 1 : f[k] \in 0 .. ByteMod - 1
  <2> TAKE k \in 0 .. n - 1
  <2>1. n - 1 - k \in 0 .. 8
    OBVIOUS
  <2>2. byte(a, n - 1 - k) \in 0 .. ByteMod - 1
    BY <2>1, ByteType
  <2> QED
    BY <2>2
<1>2. DOMAIN f = 0 .. n - 1 /\ n \in 0 .. 8
  OBVIOUS
<1>3. byte_swap(a, n) = of_bytes(f)
  BY DEF byte_swap
<1> HIDE DEF f
<1>4. of_bytes(f) \in 0 .. ByteMod^n - 1
  BY <1>1, <1>2, BytesOfBytes
<1>5. ByteMod^n \in 1 .. WordMod
  <2>1. n = 2 => ByteMod^n \in 1 .. WordMod
    BY ByteCount DEF bytes, Size
  <2>2. n = 4 => ByteMod^n \in 1 .. WordMod
    BY ByteCount DEF bytes, Size
  <2>3. n = 8 => ByteMod^n \in 1 .. WordMod
    BY ByteCount DEF bytes, Size
  <2> QED
    BY <2>1, <2>2, <2>3
<1> QED
  BY <1>3, <1>4, <1>5, WordsArePowers DEF Data

(* So is what a byte swap of the ALU gives.                                *)
LEMMA EndType ==
  ASSUME NEW a \in Data, NEW b
  PROVE  end_bus(a, b) \in Data
<1>1. a \in Int
  BY Halves
<1>2. byte_swap(a, 2) \in Data /\ byte_swap(a, 4) \in Data /\ byte_swap(a, 8) \in Data
  BY <1>1, ByteSwapType
<1> QED
  BY <1>2 DEF end_bus

(* What the ALU computes is a value of a register.                         *)
LEMMA AluType ==
  ASSUME NEW op, NEW is64 \in BOOLEAN, NEW size \in Size, NEW a \in Data, NEW b \in Data
  PROVE  alu_bus(op, is64, size, a, b) \in Data
<1>0. a \in Int /\ b \in Int /\ Low(a) \in Int
  BY Halves DEF Half32
<1>1. /\ (a + b) % WordMod \in Data /\ (a - b) % WordMod \in Data /\ (a * b) % WordMod \in Data
      /\ (a * 2^shift(b)) % WordMod \in Data
  <2>1. a + b \in Int /\ a - b \in Int /\ a * b \in Int /\ a * 2^shift(b) \in Int
    BY <1>0, ShiftType
  <2> QED
    BY <2>1, RemainderType
<1>2. /\ number(ones(a) \union ones(b)) \in Data
      /\ number(ones(a) \intersect ones(b)) \in Data
      /\ number(SymDiff(ones(a), ones(b))) \in Data
  BY BitwiseType
<1>3. a \div 2^shift(b) \in Data
  BY <1>0, ShiftType, QuotientType
<1>4. WordMod - 1 - a \in Data /\ 0 \in Data
  BY WordsArePowers DEF Data
<1>5. arsh_bus(is64, a, b) \in Data
  <2>1. arithmetic_shift(a, shift(b), WordMod) \in 0 .. WordMod - 1
    BY <1>0, ArithmeticShiftType
  <2>2. arithmetic_shift(Low(a), shift(b), HalfMod) \in 0 .. HalfMod - 1
    BY <1>0, ArithmeticShiftType
  <2>3. 0 .. HalfMod - 1 \subseteq 0 .. WordMod - 1
    BY Halves, WordsArePowers
  <2> QED
    BY <2>1, <2>2, <2>3 DEF arsh_bus, Data
<1>6. byte_mask(b, size, TRUE) \in Data /\ end_bus(a, b) \in Data
  BY <1>0, ByteMaskType, EndType
<1> QED
  BY <1>1, <1>2, <1>3, <1>4, <1>5, <1>6 DEF alu_bus

(* A store leaves a word in the memory.                                    *)
LEMMA StoredType ==
  ASSUME NEW old \in Data, NEW input \in Data, NEW size \in Size, NEW a
  PROVE  stored(old, input, size, a) \in Data
<1>1. old \in Int /\ input \in Int
  BY Halves
<1>2. xchg_output(input, size) \in Int
  <2> DEFINE f == [k \in 0 .. 7 |-> byte(input, k % bytes(size))]
  <2>1. \A k \in 0 .. 8 - 1 : f[k] \in 0 .. ByteMod - 1
    <3> TAKE k \in 0 .. 8 - 1
    <3>1. k % bytes(size) \in 0 .. 8 /\ k \in 0 .. 7
      <4>1. bytes(size) \in Nat \ {0} /\ bytes(size) <= 8 /\ k \in Int
        BY ByteCount
      <4>2. k % bytes(size) \in 0 .. bytes(size) - 1
        BY <4>1, Quotient
      <4> QED
        BY <4>1, <4>2
    <3>2. byte(input, k % bytes(size)) \in 0 .. ByteMod - 1
      BY <1>1, <3>1, ByteType
    <3> QED
      BY <3>1, <3>2
  <2>2. DOMAIN f = 0 .. 8 - 1 /\ 8 \in 0 .. 8
    OBVIOUS
  <2>3. xchg_output(input, size) = of_bytes(f)
    BY DEF xchg_output
  <2> HIDE DEF f
  <2>4. of_bytes(f) \in 0 .. ByteMod^8 - 1
    BY <2>1, <2>2, BytesOfBytes
  <2> QED
    BY <2>3, <2>4
<1> QED
  BY <1>1, <1>2, WrittenBytesType DEF stored

(* So does an atomic operation.                                            *)
LEMMA ModifiedType ==
  ASSUME NEW op, NEW old \in Data, NEW input \in Data, NEW token, NEW size, NEW a
  PROVE  modified(op, old, input, token, size, a) \in Data
<1>1. old \in Int /\ input \in Int /\ Low(input) * HalfMod \in Int
  BY Halves, WordsArePowers DEF Half32
<1>2. PICK b \in Int : b = operand_B(input, size, a)
  BY <1>1 DEF operand_B
<1>3. alu_output(op, old, b) \in Int
  <2>1. (old + b) % WordMod \in Data
    BY <1>1, RemainderType
  <2>2. Data \subseteq Int
    BY DEF Data
  <2> QED
    BY <2>1, <2>2, BitwiseType DEF alu_output
<1> QED
  BY <1>1, <1>2, <1>3, WrittenBytesType DEF modified
===============================================================================
