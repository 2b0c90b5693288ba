---------------------------- MODULE ValueProofs -----------------------------
(***************************************************************************)
(* Theorems about single values and rows, for a word and a byte of any     *)
(* size.                                                                   *)
(*                                                                         *)
(* The checked arithmetic of value_utils.hpp is exact.  Negation, addition *)
(* and subtraction are linear.  For the product, comparing a factor with a *)
(* truncated quotient is shown equivalent to comparing the product with    *)
(* the bound (QuotientBound), once for each combination of signs.          *)
(*                                                                         *)
(* The tuple codec is a bijection between the rows that a schema accepts   *)
(* and the records that it accepts: bytes and numbers (WrittenIsRead,      *)
(* ReadIsWritten), then one field (FieldIsRead, FieldRead), then the       *)
(* fields of a row, one after the other (RowsReadBack,                     *)
(* RecordsAreCanonical).                                                   *)
(***************************************************************************)
EXTENDS TupleCodec, TLAPS, NaturalsInduction, WellFoundedInduction

-----------------------------------------------------------------------------
(* Checked arithmetic.                                                     *)

(* The integers of the word and its bounds, in the form the provers use.   *)
LEMMA WordIsInt ==
  ASSUME NEW n \in Word
  PROVE  /\ n \in Int /\ kMin \in Int /\ kMax \in Int
         /\ kMin <= n /\ n <= kMax /\ kMax >= 1 /\ kMin = -kMax - 1
BY kMaxAssumption DEF Word, kMin

(* Unary minus: only the smallest integer has no negation in the word.     *)
LEMMA NegateExact ==
  ASSUME NEW left \in Word
  PROVE  CheckedIntegerNegate(left) = Fitting(-left)
<1>1. left = kMin <=> -left \notin Word
  BY WordIsInt DEF Word
<1>2. QED
  BY <1>1 DEF CheckedIntegerNegate, Fitting

(* Addition: the two comparisons hold exactly when the sum does not fit.   *)
LEMMA AddExact ==
  ASSUME NEW left \in Word, NEW right \in Word
  PROVE  CheckedIntegerAdd(left, right) = Fitting(left + right)
<1>1. (\/ right > 0 /\ left > kMax - right
       \/ right < 0 /\ left < kMin - right) <=> left + right \notin Word
  BY WordIsInt DEF Word
<1>2. QED
  BY <1>1 DEF CheckedIntegerAdd, Fitting

(* Subtraction: the comparisons hold exactly when it does not fit.         *)
LEMMA SubtractExact ==
  ASSUME NEW left \in Word, NEW right \in Word
  PROVE  CheckedIntegerSubtract(left, right) = Fitting(left - right)
<1>1. (\/ right > 0 /\ left < kMin + right
       \/ right < 0 /\ left > kMax + right) <=> left - right \notin Word
  BY WordIsInt DEF Word
<1>2. QED
  BY <1>1 DEF CheckedIntegerSubtract, Fitting

(* A product grows with each of its factors.                               *)
LEMMA ProductMonotone ==
  ASSUME NEW a \in Int, NEW b \in Int, NEW c \in Nat, a <= b
  PROVE  a * c <= b * c
OBVIOUS

(* What integer division of natural numbers returns.                       *)
LEMMA Division ==
  ASSUME NEW a \in Nat, NEW b \in Nat \ {0}
  PROVE  /\ a \div b \in Nat
         /\ (a \div b) * b <= a
         /\ a < (a \div b + 1) * b
OBVIOUS

(* A factor exceeds the quotient exactly when the product exceeds the      *)
(* bound: what the overflow tests of CheckedIntegerMultiply rest on.       *)
LEMMA QuotientBound ==
  ASSUME NEW x \in Nat, NEW m \in Nat, NEW c \in Nat \ {0}
  PROVE  x > m \div c <=> x * c > m
<1> DEFINE q == m \div c
<1>1. q \in Nat /\ q * c <= m /\ m < (q + 1) * c
  BY Division
<1> HIDE DEF q
<1>2. x * c \in Int /\ q * c \in Int /\ (q + 1) * c \in Int
  BY <1>1
<1>3. ASSUME x > q PROVE x * c > m
  <2>1. (q + 1) * c <= x * c
    BY <1>1, <1>3, ProductMonotone
  <2>2. QED
    BY <1>1, <1>2, <2>1
<1>4. ASSUME ~(x > q) PROVE ~(x * c > m)
  <2>1. x * c <= q * c
    BY <1>1, <1>4, ProductMonotone
  <2>2. QED
    BY <1>1, <1>2, <2>1
<1>5. x > q <=> x * c > m
  BY <1>3, <1>4
<1>6. QED
  BY <1>5 DEF q

(* The overflow tests of CheckedIntegerMultiply hold exactly when the      *)
(* product of two nonzero integers is not an integer of the word.          *)
LEMMA MultiplyOverflowsExact ==
  ASSUME NEW left \in Word \ {0}, NEW right \in Word \ {0}
  PROVE  MultiplyOverflows(left, right) <=> left * right \notin Word
<1> DEFINE m == -kMin
<1>1. /\ left \in Int /\ right \in Int /\ kMax \in Nat /\ kMax >= 1
      /\ kMin \in Int /\ kMin = -kMax - 1 /\ m \in Nat /\ kMin < 0
      /\ left # 0 /\ right # 0
  BY WordIsInt
<1>2. left * right \in Int
  BY <1>1
<1>3. CASE left > 0 /\ right > 0
  <2>1. Quotient(kMax, right) = kMax \div right
    BY <1>1, <1>3 DEF Quotient, Magnitude
  <2>2. left > kMax \div right <=> left * right > kMax
    BY <1>1, <1>3, QuotientBound
  <2>3. left * right >= 0
    BY <1>1, <1>3
  <2>4. MultiplyOverflows(left, right) <=> left > kMax \div right
    BY <1>1, <1>3, <2>1 DEF MultiplyOverflows
  <2>5. QED
    BY <1>1, <1>2, <2>2, <2>3, <2>4 DEF Word
<1>4. CASE left > 0 /\ right < 0
  <2>1. Quotient(kMin, left) = -(m \div left)
    BY <1>1, <1>4 DEF Quotient, Magnitude
  <2>2. -right > m \div left <=> (-right) * left > m
    BY <1>1, <1>4, QuotientBound
  <2>3. (-right) * left = -(left * right) /\ left * right <= 0
    BY <1>1, <1>4
  <2>4. m \div left \in Nat
    BY <1>1, <1>4, Division
  <2> HIDE DEF m
  <2>5. MultiplyOverflows(left, right) <=> -right > m \div left
    BY <1>1, <1>4, <2>1, <2>4 DEF MultiplyOverflows
  <2>6. m = -kMin
    BY DEF m
  <2>7. QED
    BY <1>1, <1>2, <2>2, <2>3, <2>5, <2>6 DEF Word
<1>5. CASE left < 0 /\ right > 0
  <2>1. Quotient(kMin, right) = -(m \div right)
    BY <1>1, <1>5 DEF Quotient, Magnitude
  <2>2. -left > m \div right <=> (-left) * right > m
    BY <1>1, <1>5, QuotientBound
  <2>3. (-left) * right = -(left * right) /\ left * right <= 0
    BY <1>1, <1>5
  <2>4. m \div right \in Nat
    BY <1>1, <1>5, Division
  <2> HIDE DEF m
  <2>5. MultiplyOverflows(left, right) <=> -left > m \div right
    BY <1>1, <1>5, <2>1, <2>4 DEF MultiplyOverflows
  <2>6. m = -kMin
    BY DEF m
  <2>7. QED
    BY <1>1, <1>2, <2>2, <2>3, <2>5, <2>6 DEF Word
<1>6. CASE left < 0 /\ right < 0
  <2>1. Quotient(kMax, right) = -(kMax \div (-right))
    BY <1>1, <1>6 DEF Quotient, Magnitude
  <2>2. -left > kMax \div (-right) <=> (-left) * (-right) > kMax
    BY <1>1, <1>6, QuotientBound
  <2>3. (-left) * (-right) = left * right /\ left * right >= 0
    BY <1>1, <1>6
  <2>4. kMax \div (-right) \in Nat
    BY <1>1, <1>6, Division
  <2>5. MultiplyOverflows(left, right) <=> -left > kMax \div (-right)
    BY <1>1, <1>6, <2>1, <2>4 DEF MultiplyOverflows
  <2>6. QED
    BY <1>1, <1>2, <2>2, <2>3, <2>5 DEF Word
<1>7. QED
  BY <1>1, <1>3, <1>4, <1>5, <1>6

(* Multiplication.                                                         *)
LEMMA MultiplyExact ==
  ASSUME NEW left \in Word, NEW right \in Word
  PROVE  CheckedIntegerMultiply(left, right) = Fitting(left * right)
<1>1. left \in Int /\ right \in Int
  BY WordIsInt
<1>2. CASE left = 0 \/ right = 0
  <2>1. left * right = 0 /\ 0 \in Word
    BY <1>1, <1>2, WordIsInt DEF Word
  <2>2. QED
    BY <1>2, <2>1 DEF CheckedIntegerMultiply, Fitting
<1>3. CASE left = -1 /\ right # 0
  <2>1. left * right = -right
    BY <1>1, <1>3
  <2>2. CheckedIntegerMultiply(left, right) = CheckedIntegerNegate(right)
    BY <1>1, <1>3 DEF CheckedIntegerMultiply
  <2>3. QED
    BY <2>1, <2>2, NegateExact
<1>4. CASE right = -1 /\ left # 0 /\ left # -1
  <2>1. left * right = -left
    BY <1>1, <1>4
  <2>2. CheckedIntegerMultiply(left, right) = CheckedIntegerNegate(left)
    BY <1>1, <1>4 DEF CheckedIntegerMultiply
  <2>3. QED
    BY <2>1, <2>2, NegateExact
<1>5. CASE left # 0 /\ right # 0 /\ left # -1 /\ right # -1
  <2>1. MultiplyOverflows(left, right) <=> left * right \notin Word
    BY <1>5, MultiplyOverflowsExact
  <2>2. QED
    BY <1>5, <2>1 DEF CheckedIntegerMultiply, Fitting
<1>6. QED
  BY <1>2, <1>3, <1>4, <1>5

(* Dividing does not make a magnitude larger, and by at least two makes it *)
(* no more than half as large.                                             *)
LEMMA QuotientSmaller ==
  ASSUME NEW a \in Nat, NEW b \in Nat \ {0}
  PROVE  a \div b <= a /\ (b >= 2 => 2 * (a \div b) <= a)
<1> DEFINE q == a \div b
<1>1. q \in Nat /\ q * b <= a
  BY Division
<1> HIDE DEF q
<1>2. 1 * q <= b * q /\ (b >= 2 => 2 * q <= b * q)
  BY <1>1, ProductMonotone
<1>3. q * b = b * q /\ 1 * q = q
  BY <1>1
<1>4. q <= a /\ (b >= 2 => 2 * q <= a)
  BY <1>1, <1>2, <1>3
<1>5. QED
  BY <1>4 DEF q

(* Division by anything but zero: only the smallest integer divided by -1  *)
(* does not fit.                                                           *)
LEMMA DivideExact ==
  ASSUME NEW left \in Word, NEW right \in Word, right # 0
  PROVE  CheckedIntegerDivide(left, right) = Fitting(Quotient(left, right))
<1> DEFINE a == Magnitude(left)
           b == Magnitude(right)
           q == a \div b
<1>1. /\ left \in Int /\ right \in Int /\ kMax \in Nat /\ kMax >= 1
      /\ kMin \in Int /\ kMin = -kMax - 1
      /\ kMin <= left /\ left <= kMax
  BY WordIsInt
<1>2. a \in Nat /\ b \in Nat \ {0} /\ a <= kMax + 1
  BY <1>1 DEF Magnitude
<1>3. q \in Nat /\ q <= a /\ (b >= 2 => 2 * q <= a)
  BY <1>2, Division, QuotientSmaller
<1>4. CASE left = kMin /\ right = -1
  <2>1. Quotient(left, right) = kMax + 1
    BY <1>1, <1>4 DEF Quotient, Magnitude
  <2>2. Quotient(left, right) \notin Word
    BY <1>1, <2>1 DEF Word
  <2>3. QED
    BY <1>4, <2>2 DEF CheckedIntegerDivide, Fitting
<1>5. CASE ~(left = kMin /\ right = -1)
  <2>1. Quotient(left, right) = IF (left < 0) = (right < 0) THEN q ELSE -q
    BY DEF Quotient
  <2>2. (left < 0) = (right < 0) => q <= kMax
    <3>1. CASE a <= kMax
      BY <1>1, <1>2, <1>3, <3>1
    <3>2. CASE a > kMax
      <4>1. left = kMin
        BY <1>1, <3>2 DEF Magnitude
      <4>2. ASSUME right < 0 PROVE b >= 2
        BY <1>1, <1>5, <4>1, <4>2 DEF Magnitude
      <4>3. left < 0
        BY <1>1, <4>1
      <4> HIDE DEF q, b
      <4>4. ASSUME (left < 0) = (right < 0) PROVE q <= kMax
        BY <1>1, <1>2, <1>3, <4>2, <4>3, <4>4
      <4>5. QED
        BY <4>4
    <3>3. QED
      BY <1>1, <1>2, <3>1, <3>2
  <2> HIDE DEF q
  <2>3. Quotient(left, right) \in Word
    BY <1>1, <1>2, <1>3, <2>1, <2>2 DEF Word
  <2>4. QED
    BY <1>5, <2>3 DEF CheckedIntegerDivide, Fitting
<1>6. QED
  BY <1>4, <1>5

(* The functions of value_utils.hpp that the evaluator and the optimizer   *)
(* share are exact: for a word of any size, and so for std::int64_t, each  *)
(* returns the mathematical result or, when that does not fit, an error.   *)
THEOREM ArithmeticIsExact == ArithmeticExact
BY NegateExact, AddExact, SubtractExact, MultiplyExact, DivideExact
   DEF ArithmeticExact

-----------------------------------------------------------------------------
(* Recursion up to a number.                                               *)

(* A nonempty set of natural numbers has a least one.                      *)
LEMMA LeastNumber ==
  ASSUME NEW T, T \subseteq Nat, T # {}
  PROVE  \E x \in T : \A y \in T : x <= y
<1>1. PICK x \in T : \A y \in T : ~(<<y, x>> \in OpToRel(<, Nat))
  BY NatLessThanWellFounded, WFMin
<1>2. \A y \in T : ~(y < x)
  BY <1>1 DEF OpToRel
<1>3. \A y \in T : x <= y
  BY <1>2
<1>. QED
  BY <1>3

(* Induction up to n: a set of numbers that holds 0 and, with a number     *)
(* below n, the next one, holds all numbers up to n.                       *)
LEMMA UpTo ==
  ASSUME NEW n \in Nat, NEW P, 0 \in P,
         \A i \in 1 .. n : i - 1 \in P => i \in P
  PROVE  \A i \in 0 .. n : i \in P
<1>. DEFINE B == {i \in 0 .. n : i \notin P}
<1>1. SUFFICES ASSUME B # {} PROVE FALSE
  OBVIOUS
<1>2. B \subseteq Nat
  OBVIOUS
<1>. HIDE DEF B
<1>3. PICK m \in B : \A j \in B : m <= j
  BY <1>1, <1>2, LeastNumber
<1>. USE DEF B
<1>4. m \in 1 .. n /\ m - 1 \in 0 .. n /\ m - 1 \notin B
  BY <1>3
<1>. QED
  BY <1>3, <1>4

(* A recursion up to n, of which step[i][x] is what follows x at place i,  *)
(* has a solution.                                                         *)
Solves(f, S, start, n, step) ==
  /\ f \in [0 .. n -> S]
  /\ f[0] = start
  /\ \A i \in 1 .. n : f[i] = step[i][f[i - 1]]

LEMMA Recursion ==
  ASSUME NEW S, NEW start \in S, NEW n \in Nat, NEW step \in [1 .. n -> [S -> S]]
  PROVE  \E f : Solves(f, S, start, n, step)
<1>. DEFINE Solved(f, k) == Solves(f, S, start, k, step)
            P == {k \in Nat : \E f : Solved(f, k)}
<1>. USE DEF Solves
<1>1. 0 \in P
  <2>1. Solved([i \in 0 .. 0 |-> start], 0)
    OBVIOUS
  <2>. QED
    BY <2>1
<1>2. ASSUME NEW k \in 1 .. n, k - 1 \in P PROVE k \in P
  <2>1. PICK f : Solved(f, k - 1)
    BY <1>2
  <2>2. DEFINE g == [i \in 0 .. k |-> IF i = k THEN step[k][f[k - 1]] ELSE f[i]]
  <2>3. k - 1 \in 0 .. k - 1 /\ f[k - 1] \in S
    BY <2>1
  <2>4. Solved(g, k)
    <3>1. g \in [0 .. k -> S]
      BY <2>1, <2>3
    <3>2. g[0] = start
      BY <2>1
    <3>3. ASSUME NEW i \in 1 .. k PROVE g[i] = step[i][g[i - 1]]
      <4>1. CASE i = k
        <5>1. k \in 0 .. k /\ k - 1 \in 0 .. k /\ k - 1 # k
          OBVIOUS
        <5>2. g[k] = step[k][f[k - 1]] /\ g[k - 1] = f[k - 1]
          BY <5>1
        <5>. HIDE DEF g
        <5>. QED
          BY <4>1, <5>2
      <4>2. CASE i # k
        <5>1. i \in 1 .. k - 1 /\ i - 1 \in 0 .. k /\ i \in 0 .. k /\ i - 1 # k
          BY <4>2
        <5>2. g[i] = f[i] /\ g[i - 1] = f[i - 1]
          BY <4>2, <5>1
        <5>. QED
          BY <2>1, <5>1, <5>2
      <4>. QED
        BY <4>1, <4>2
    <3>. QED
      BY <3>1, <3>2, <3>3
  <2>5. \E h : Solved(h, k)
    BY <2>4
  <2>6. k \in Nat
    OBVIOUS
  <2>. HIDE DEF Solved
  <2>. QED
    BY <2>5, <2>6
<1>. HIDE DEF P
<1>. HIDE DEF Solved
<1>3. \A i \in 0 .. n : i \in P
  BY <1>1, <1>2, UpTo
<1>4. n \in P
  BY <1>3
<1>. USE DEF Solved
<1>. QED
  BY <1>4 DEF P

-----------------------------------------------------------------------------
(* Numbers in bytes.                                                       *)

(* The sizes, in the form the provers use.                                 *)
LEMMA BaseTyped ==
  /\ Base \in Nat /\ Base >= 4
  /\ kLengthBytes \in Nat \ {0} /\ kIntegerBytes \in Nat
BY CodecAssumption

(* The weights: 1 for the lowest byte, Base times as much for each next.   *)
LEMMA Weights ==
  ASSUME NEW width \in Nat
  PROVE  /\ Weight(width) \in [0 .. width -> Nat \ {0}]
         /\ Weight(width)[0] = 1
         /\ \A i \in 1 .. width : Weight(width)[i] = Base * Weight(width)[i - 1]
         /\ Capacity(width) = Weight(width)[width]
<1>. DEFINE S == Nat \ {0}
            step == [i \in 1 .. width |-> [x \in S |-> Base * x]]
            start == 1
            Rule(f) == [i \in 0 .. width |-> IF i = 0 THEN 1 ELSE Base * f[i - 1]]
<1>1. step \in [1 .. width -> [S -> S]]
  <2>1. \A x \in S : Base * x \in S
    BY BaseTyped
  <2>. HIDE DEF S
  <2>. QED
    BY <2>1
<1>2. PICK f \in [0 .. width -> S] :
         /\ f[0] = start
         /\ \A i \in 1 .. width : f[i] = step[i][f[i - 1]]
  <2>1. start \in S
    OBVIOUS
  <2>. HIDE DEF S, step, start
  <2>2. \E f : Solves(f, S, start, width, step)
    BY <1>1, <2>1, Recursion
  <2>. QED
    BY <2>2 DEF Solves
<1>3. \A i \in 1 .. width : f[i] = Base * f[i - 1]
  <2>1. ASSUME NEW i \in 1 .. width PROVE f[i] = Base * f[i - 1]
    <3>1. f[i - 1] \in S
      BY <1>2
    <3>. HIDE DEF S
    <3>. QED
      BY <3>1, <1>2
  <2>. QED
    BY <2>1
<1>4. f = Rule(f)
  BY <1>2, <1>3
<1>5. Weight(width) = CHOOSE g : g = Rule(g)
  BY DEF Weight
<1>. HIDE DEF Rule
<1>6. Weight(width) = Rule(Weight(width))
  BY <1>4, <1>5
<1>. USE DEF Rule
<1>7. /\ Weight(width)[0] = 1
      /\ \A i \in 1 .. width : Weight(width)[i] = Base * Weight(width)[i - 1]
  BY <1>6
<1>8. \A i \in 0 .. width : Weight(width)[i] \in S
  <2>. DEFINE P == {i \in 0 .. width : Weight(width)[i] \in S}
  <2>1. 0 \in P
    BY <1>7
  <2>2. ASSUME NEW i \in 1 .. width, i - 1 \in P PROVE i \in P
    <3>1. Base * Weight(width)[i - 1] \in S
      BY <2>2, BaseTyped
    <3>. QED
      BY <3>1, <1>7
  <2>. HIDE DEF P
  <2>3. \A i \in 0 .. width : i \in P
    BY <2>1, <2>2, UpTo
  <2>. QED
    BY <2>3 DEF P
<1>. QED
  BY <1>6, <1>7, <1>8 DEF Capacity

(* What a width has room for is a number.                                  *)
LEMMA CapacityTyped ==
  ASSUME NEW width \in Nat
  PROVE  Capacity(width) \in Nat
<1>. DEFINE weight == Weight(width)
<1>1. weight \in [0 .. width -> Nat \ {0}] /\ Capacity(width) = weight[width]
  BY Weights
<1>. HIDE DEF weight
<1>. QED
  BY <1>1

(* What division by a positive number returns.                             *)
LEMMA DivisionBy ==
  ASSUME NEW a \in Int, NEW b \in Nat \ {0}
  PROVE  /\ a \div b \in Int /\ a % b \in 0 .. b - 1
         /\ a = (a \div b) * b + (a % b)
OBVIOUS

(* Quotient and remainder are the only numbers with that property.         *)
LEMMA DivisionUnique ==
  ASSUME NEW b \in Nat \ {0}, NEW q \in Int, NEW r \in 0 .. b - 1,
         NEW p \in Int, NEW s \in 0 .. b - 1, q * b + r = p * b + s
  PROVE  q = p /\ r = s
<1>1. CASE q < p
  <2>1. (q + 1) * b <= p * b
    <3>1. q + 1 <= p
      BY <1>1
    <3>. QED
      BY <3>1
  <2>2. (q + 1) * b = q * b + b
    OBVIOUS
  <2>. QED
    BY <2>1, <2>2
<1>2. CASE p < q
  <2>1. (p + 1) * b <= q * b
    <3>1. p + 1 <= q
      BY <1>2
    <3>. QED
      BY <3>1
  <2>2. (p + 1) * b = p * b + b
    OBVIOUS
  <2>. QED
    BY <2>1, <2>2
<1>3. CASE p = q
  BY <1>3
<1>. QED
  BY <1>1, <1>2, <1>3

(* The remainders of a division by Base are bytes.                         *)
LEMMA RemainderIsByte ==
  ASSUME NEW n \in Nat, NEW w \in Nat \ {0}
  PROVE  (n \div w) % Base \in Byte /\ (n \div w) % Base \in Nat
<1>. DEFINE a == n \div w
<1>1. a \in Int
  BY DivisionBy
<1>. HIDE DEF a
<1>2. a % Base \in 0 .. Base - 1
  BY <1>1, BaseTyped, DivisionBy
<1>3. a % Base \in Byte /\ a % Base \in Nat
  BY <1>2, BaseTyped DEF Byte
<1>. QED
  BY <1>3 DEF a

(* Dividing once more by Base: the quotient by weight * Base.              *)
LEMMA DivideFurther ==
  ASSUME NEW n \in Nat, NEW w \in Nat \ {0}, NEW r \in 0 .. w - 1,
         n = (n \div w) * w + r
  PROVE  LET digit == (n \div w) % Base
         IN /\ digit \in Byte
            /\ digit * w + r \in 0 .. Base * w - 1
            /\ n = (n \div (Base * w)) * (Base * w) + (digit * w + r)
<1>. DEFINE a == n \div w
            digit == a % Base
            b == a \div Base
            W == Base * w
            c == n \div W
            d == n % W
            e == digit * w + r
<1>1. a \in Int /\ b \in Int /\ digit \in 0 .. Base - 1 /\ a = b * Base + digit
  BY DivisionBy, BaseTyped
<1>2. W \in Nat \ {0}
  BY BaseTyped
<1>. HIDE DEF a, digit, b
<1>3. c \in Int /\ d \in 0 .. W - 1 /\ n = c * W + d
  <2>. HIDE DEF W
  <2>. QED
    BY DivisionBy, <1>2
<1>. HIDE DEF c, d
<1>4. e \in 0 .. W - 1
  <2>1. digit * w <= (Base - 1) * w /\ digit * w >= 0
    BY <1>1, BaseTyped
  <2>2. (Base - 1) * w = W - w
    BY BaseTyped
  <2>3. digit * w \in Int
    BY <1>1
  <2>. QED
    BY <1>2, <2>1, <2>2, <2>3
<1>5. n = b * W + e
  <2>1. n = a * w + r
    BY DEF a
  <2>2. a * w = b * Base * w + digit * w
    BY <1>1, BaseTyped
  <2>3. b * Base * w = b * W
    BY <1>1, BaseTyped
  <2>. QED
    BY <1>1, <1>2, <2>1, <2>2, <2>3
<1>. HIDE DEF W, e
<1>6. n = c * W + e
  <2>1. b * W + e = c * W + d
    BY <1>3, <1>5
  <2>2. b = c /\ e = d
    BY <1>1, <1>2, <1>3, <1>4, <2>1, DivisionUnique
  <2>. QED
    BY <1>5, <2>2
<1>. QED
  BY <1>1, <1>4, <1>6 DEF Byte, W, e, c, digit, a

(* The number that the first bytes stand for, place by place.              *)
Sums(bytes) ==
  LET weight == Weight(Len(bytes))
      sum[i \in 0 .. Len(bytes)] ==
        IF i = 0 THEN 0 ELSE sum[i - 1] + bytes[i] * weight[i - 1]
  IN sum

(* The recursion of ReadLittleEndian.                                      *)
LEMMA SumsExact ==
  ASSUME NEW bytes \in Seq(Byte)
  PROVE  /\ Sums(bytes) \in [0 .. Len(bytes) -> Nat]
         /\ Sums(bytes)[0] = 0
         /\ \A i \in 1 .. Len(bytes) :
              Sums(bytes)[i] =
                Sums(bytes)[i - 1] + bytes[i] * Weight(Len(bytes))[i - 1]
         /\ ReadLittleEndian(bytes) = Sums(bytes)[Len(bytes)]
<1>. DEFINE n == Len(bytes)
            weight == Weight(n)
            S == Nat
            start == 0
            step == [i \in 1 .. n |-> [x \in S |-> x + bytes[i] * weight[i - 1]]]
            Rule(f) == [i \in 0 .. n |->
                          IF i = 0 THEN 0 ELSE f[i - 1] + bytes[i] * weight[i - 1]]
<1>1. n \in Nat
  OBVIOUS
<1>2. \A i \in 1 .. n : bytes[i] * weight[i - 1] \in Nat
  <2>1. ASSUME NEW i \in 1 .. n PROVE bytes[i] * weight[i - 1] \in Nat
    <3>1. bytes[i] \in Nat
      BY BaseTyped DEF Byte
    <3>2. weight[i - 1] \in Nat
      BY Weights
    <3>. QED
      BY <3>1, <3>2
  <2>. QED
    BY <2>1
<1>. HIDE DEF n, weight
<1>3. step \in [1 .. n -> [S -> S]]
  BY <1>2
<1>4. PICK f \in [0 .. n -> S] :
         /\ f[0] = start
         /\ \A i \in 1 .. n : f[i] = step[i][f[i - 1]]
  <2>1. start \in S
    OBVIOUS
  <2>. HIDE DEF S, step, start
  <2>2. \E f : Solves(f, S, start, n, step)
    BY <1>1, <1>3, <2>1, Recursion
  <2>. QED
    BY <2>2 DEF Solves
<1>5. f = Rule(f)
  <2>1. ASSUME NEW i \in 1 .. n PROVE f[i] = f[i - 1] + bytes[i] * weight[i - 1]
    <3>1. f[i - 1] \in S
      BY <1>1, <1>4
    <3>. HIDE DEF S
    <3>. QED
      BY <3>1, <1>4
  <2>2. \A i \in 0 .. n : f[i] = IF i = 0 THEN 0
                                ELSE f[i - 1] + bytes[i] * weight[i - 1]
    BY <1>1, <1>4, <2>1
  <2>. QED
    BY <1>4, <2>2
<1>6. Sums(bytes) = CHOOSE g : g = Rule(g)
  BY DEF Sums, n, weight
<1>. HIDE DEF Rule
<1>7. Sums(bytes) = Rule(Sums(bytes))
  BY <1>5, <1>6
<1>. USE DEF Rule
<1>8. /\ Sums(bytes)[0] = 0
      /\ \A i \in 1 .. n : Sums(bytes)[i] = Sums(bytes)[i - 1] + bytes[i] * weight[i - 1]
  BY <1>1, <1>7
<1>9. \A i \in 0 .. n : Sums(bytes)[i] \in Nat
  <2>. DEFINE P == {i \in 0 .. n : Sums(bytes)[i] \in Nat}
  <2>1. 0 \in P
    BY <1>1, <1>8
  <2>2. ASSUME NEW i \in 1 .. n, i - 1 \in P PROVE i \in P
    BY <1>1, <1>2, <1>8, <2>2
  <2>. HIDE DEF P
  <2>3. \A i \in 0 .. n : i \in P
    BY <1>1, <2>1, <2>2, UpTo
  <2>. QED
    BY <2>3 DEF P
<1>10. ReadLittleEndian(bytes) = Sums(bytes)[n]
  BY DEF ReadLittleEndian, Sums, n
<1>. QED
  BY <1>7, <1>8, <1>9, <1>10 DEF n, weight

(* What is written is read back.                                           *)
LEMMA WrittenIsRead ==
  ASSUME NEW width \in Nat, NEW n \in Nat, n < Capacity(width)
  PROVE  /\ AppendLittleEndian(n, width) \in Seq(Byte)
         /\ Len(AppendLittleEndian(n, width)) = width
         /\ ReadLittleEndian(AppendLittleEndian(n, width)) = n
<1>. DEFINE bytes == AppendLittleEndian(n, width)
            weight == Weight(width)
            sum == Sums(bytes)
<1>1. /\ weight \in [0 .. width -> Nat \ {0}] /\ weight[0] = 1
      /\ \A i \in 1 .. width : weight[i] = Base * weight[i - 1]
      /\ Capacity(width) = weight[width]
  BY Weights
<1>. HIDE DEF weight
<1>2. bytes \in Seq(Byte) /\ Len(bytes) = width
  <2>1. bytes = [i \in 1 .. width |-> (n \div weight[i - 1]) % Base]
    BY DEF AppendLittleEndian, weight
  <2>2. ASSUME NEW i \in 1 .. width PROVE (n \div weight[i - 1]) % Base \in Byte
    <3>1. weight[i - 1] \in Nat \ {0}
      BY <1>1
    <3>. QED
      BY <3>1, RemainderIsByte
  <2>. HIDE DEF bytes
  <2>. QED
    BY <2>1, <2>2
<1>3. \A i \in 1 .. width : bytes[i] = (n \div weight[i - 1]) % Base
  BY DEF AppendLittleEndian, weight
<1>. HIDE DEF bytes
<1>4. /\ sum \in [0 .. width -> Nat] /\ sum[0] = 0
      /\ \A i \in 1 .. width : sum[i] = sum[i - 1] + bytes[i] * weight[i - 1]
      /\ ReadLittleEndian(bytes) = sum[width]
  BY <1>2, SumsExact DEF weight
<1>. HIDE DEF sum
<1>. DEFINE P == {i \in 0 .. width :
                    /\ sum[i] \in 0 .. weight[i] - 1
                    /\ n = (n \div weight[i]) * weight[i] + sum[i]}
<1>5. 0 \in P
  BY <1>1, <1>4
<1>6. ASSUME NEW i \in 1 .. width, i - 1 \in P PROVE i \in P
  <2>. DEFINE w == weight[i - 1]
              r == sum[i - 1]
  <2>1. w \in Nat \ {0} /\ r \in 0 .. w - 1 /\ n = (n \div w) * w + r
    BY <1>1, <1>6
  <2>2. weight[i] = Base * w /\ sum[i] = r + ((n \div w) % Base) * w
    BY <1>1, <1>3, <1>4
  <2>3. (n \div w) % Base \in Nat
    <3>. HIDE DEF w, r
    <3>. QED
      BY <2>1, RemainderIsByte
  <2>. HIDE DEF w, r
  <2>4. /\ ((n \div w) % Base) * w + r \in 0 .. Base * w - 1
        /\ n = (n \div (Base * w)) * (Base * w) + (((n \div w) % Base) * w + r)
    BY <2>1, DivideFurther
  <2>5. sum[i] = ((n \div w) % Base) * w + r
    BY <2>1, <2>2, <2>3
  <2>. QED
    BY <2>2, <2>4, <2>5
<1>. HIDE DEF P
<1>7. \A i \in 0 .. width : i \in P
  BY <1>5, <1>6, UpTo
<1>8. width \in P
  BY <1>7
<1>9. /\ weight[width] \in Nat \ {0} /\ n < weight[width]
      /\ sum[width] \in 0 .. weight[width] - 1
      /\ n = (n \div weight[width]) * weight[width] + sum[width]
  BY <1>1, <1>8 DEF P
<1>10. n = sum[width]
  <2>. DEFINE W == weight[width]
              q == n \div W
  <2>1. q \in Int
    BY <1>9, DivisionBy
  <2>2. 0 * W + n = q * W + sum[width] /\ n \in 0 .. W - 1
    BY <1>9
  <2>3. W \in Nat \ {0} /\ sum[width] \in 0 .. W - 1
    BY <1>9
  <2>. DEFINE t == sum[width]
              z == 0
  <2>4. z \in Int /\ z * W + n = q * W + t
    BY <2>2
  <2>. HIDE DEF q, W, t, z
  <2>5. n = t
    BY <2>1, <2>2, <2>3, <2>4, DivisionUnique DEF t
  <2>. QED
    BY <2>5 DEF t
<1>. QED
  BY <1>2, <1>4, <1>10 DEF bytes

(* Bytes stand for a number that fits into them.                           *)
LEMMA SumsFit ==
  ASSUME NEW bytes \in Seq(Byte)
  PROVE  \A i \in 0 .. Len(bytes) :
            Sums(bytes)[i] \in 0 .. Weight(Len(bytes))[i] - 1
<1>. DEFINE n == Len(bytes)
            weight == Weight(n)
            sum == Sums(bytes)
            P == {i \in 0 .. n : sum[i] \in 0 .. weight[i] - 1}
<1>1. n \in Nat /\ \A i \in 1 .. n : bytes[i] \in 0 .. Base - 1
  <2>1. \A i \in 1 .. Len(bytes) : bytes[i] \in Byte
    OBVIOUS
  <2>. QED
    BY <2>1 DEF Byte
<1>2. /\ weight \in [0 .. n -> Nat \ {0}] /\ weight[0] = 1
      /\ \A i \in 1 .. n : weight[i] = Base * weight[i - 1]
  <2>. HIDE DEF n
  <2>. QED
    BY <1>1, Weights
<1>3. /\ sum \in [0 .. n -> Nat] /\ sum[0] = 0
      /\ \A i \in 1 .. n : sum[i] = sum[i - 1] + bytes[i] * weight[i - 1]
  BY SumsExact
<1>. HIDE DEF n, weight, sum
<1>4. 0 \in P
  BY <1>1, <1>2, <1>3
<1>5. ASSUME NEW i \in 1 .. n, i - 1 \in P PROVE i \in P
  <2>. DEFINE w == weight[i - 1]
              r == sum[i - 1]
              d == bytes[i]
  <2>1. w \in Nat \ {0} /\ r \in 0 .. w - 1 /\ d \in 0 .. Base - 1
    BY <1>1, <1>2, <1>5
  <2>2. weight[i] = Base * w /\ sum[i] = r + d * w
    BY <1>2, <1>3
  <2>. HIDE DEF w, r, d
  <2>3. d * w <= (Base - 1) * w /\ d * w >= 0 /\ d * w \in Int
    BY <2>1, BaseTyped
  <2>4. (Base - 1) * w = Base * w - w /\ Base * w \in Nat
    BY <2>1, BaseTyped
  <2>5. r + d * w \in 0 .. Base * w - 1
    BY <2>1, <2>3, <2>4
  <2>. QED
    BY <2>2, <2>5
<1>. HIDE DEF P
<1>6. \A i \in 0 .. n : i \in P
  BY <1>1, <1>4, <1>5, UpTo
<1>. QED
  BY <1>6 DEF P, n, weight, sum

(* Bytes that stand for the same number are the same bytes.                *)
LEMMA SumsDiffer ==
  ASSUME NEW x \in Seq(Byte), NEW y \in Seq(Byte), Len(x) = Len(y),
         ReadLittleEndian(x) = ReadLittleEndian(y)
  PROVE  x = y
<1>. DEFINE n == Len(x)
            weight == Weight(n)
            s == Sums(x)
            t == Sums(y)
            P == {i \in 0 .. n : s[i] = t[i] => \A j \in 1 .. i : x[j] = y[j]}
<1>1. n \in Nat /\ \A i \in 1 .. n : x[i] \in Nat /\ y[i] \in Nat
  BY BaseTyped DEF Byte
<1>2. weight \in [0 .. n -> Nat \ {0}]
  BY Weights
<1>3. /\ \A i \in 1 .. n : s[i] = s[i - 1] + x[i] * weight[i - 1]
      /\ s[n] = ReadLittleEndian(x)
      /\ \A i \in 0 .. n : s[i] \in 0 .. weight[i] - 1
  BY SumsExact, SumsFit
<1>4. /\ \A i \in 1 .. n : t[i] = t[i - 1] + y[i] * weight[i - 1]
      /\ t[n] = ReadLittleEndian(y)
      /\ \A i \in 0 .. n : t[i] \in 0 .. weight[i] - 1
  BY SumsExact, SumsFit
<1>5. x = [i \in 1 .. n |-> x[i]] /\ y = [i \in 1 .. n |-> y[i]]
  OBVIOUS
<1>. HIDE DEF n, weight, s, t
<1>6. 0 \in P
  BY <1>1
<1>7. ASSUME NEW i \in 1 .. n, i - 1 \in P PROVE i \in P
  <2>1. SUFFICES ASSUME s[i] = t[i] PROVE \A j \in 1 .. i : x[j] = y[j]
    BY <1>1
  <2>. DEFINE w == weight[i - 1]
              r == s[i - 1]
              u == t[i - 1]
              d == x[i]
              e == y[i]
  <2>2. /\ w \in Nat \ {0} /\ r \in 0 .. w - 1 /\ u \in 0 .. w - 1
        /\ d \in Int /\ e \in Int
    <3>1. i - 1 \in 0 .. n
      BY <1>1
    <3>2. w \in Nat \ {0}
      BY <1>2, <3>1
    <3>3. r \in 0 .. w - 1
      BY <1>3, <3>1
    <3>4. u \in 0 .. w - 1
      BY <1>4, <3>1
    <3>5. d \in Nat /\ e \in Nat
      BY <1>1
    <3>. HIDE DEF w, r, u, d, e
    <3>. QED
      BY <3>2, <3>3, <3>4, <3>5
  <2>3. r + d * w = u + e * w
    BY <1>3, <1>4, <2>1
  <2>4. d = e /\ r = u
    <3>. HIDE DEF w, r, u, d, e
    <3>1. d * w + r = e * w + u
      BY <2>2, <2>3
    <3>. QED
      BY <2>2, <3>1, DivisionUnique
  <2>5. \A j \in 1 .. i - 1 : x[j] = y[j]
    BY <1>7, <2>4
  <2>. QED
    BY <1>1, <2>4, <2>5
<1>. HIDE DEF P
<1>8. \A i \in 0 .. n : i \in P
  BY <1>1, <1>6, <1>7, UpTo
<1>9. n \in P
  BY <1>1, <1>8
<1>10. \A j \in 1 .. n : x[j] = y[j]
  BY <1>3, <1>4, <1>9 DEF P
<1>. QED
  BY <1>5, <1>10

(* What is read is written back.                                           *)
LEMMA ReadIsWritten ==
  ASSUME NEW bytes \in Seq(Byte)
  PROVE  /\ ReadLittleEndian(bytes) \in Nat
         /\ ReadLittleEndian(bytes) < Capacity(Len(bytes))
         /\ AppendLittleEndian(ReadLittleEndian(bytes), Len(bytes)) = bytes
<1>. DEFINE n == Len(bytes)
            number == ReadLittleEndian(bytes)
            written == AppendLittleEndian(number, n)
<1>1. n \in Nat
  OBVIOUS
<1>2. number = Sums(bytes)[n] /\ Sums(bytes)[n] \in 0 .. Weight(n)[n] - 1
  BY <1>1, SumsExact, SumsFit
<1>3. Weight(n)[n] = Capacity(n) /\ Capacity(n) \in Nat
  <2>. HIDE DEF n
  <2>. QED
    BY <1>1, Weights, CapacityTyped
<1>4. number \in Nat /\ number < Capacity(n)
  BY <1>2, <1>3
<1>. HIDE DEF n, number
<1>5. /\ written \in Seq(Byte) /\ Len(written) = n
      /\ ReadLittleEndian(written) = number
  BY <1>1, <1>4, WrittenIsRead
<1>. HIDE DEF written
<1>6. written = bytes
  BY <1>5, SumsDiffer DEF n, number
<1>. QED
  BY <1>4, <1>6 DEF written, n, number

(* The integers: an integer of the word and kIntegerBytes bytes stand for  *)
(* each other.                                                             *)
LEMMA IntegerIsRead ==
  ASSUME NEW n \in Word
  PROVE  /\ append_i64(n) \in Seq(Byte)
         /\ Len(append_i64(n)) = kIntegerBytes
         /\ read_i64(append_i64(n)) = n
<1>. DEFINE C == Capacity(kIntegerBytes)
            m == n % C
<1>1. C \in Nat \ {0} /\ C = 2 * (kMax + 1) /\ kMax \in Nat
  BY kMaxAssumption, CodecAssumption
<1>2. n \in Int /\ -kMax - 1 <= n /\ n <= kMax
  BY <1>1 DEF Word, kMin
<1>3. m = IF n < 0 THEN n + C ELSE n
  <2>. DEFINE q == n \div C
  <2>1. q \in Int /\ m \in 0 .. C - 1 /\ n = q * C + m
    <3>. HIDE DEF C
    <3>. QED
      BY <1>1, <1>2, DivisionBy
  <2>. HIDE DEF C, m, q
  <2>2. CASE n < 0
    <3>. DEFINE p == -1
                k == n + C
    <3>1. p \in Int /\ k \in 0 .. C - 1 /\ q * C + m = p * C + k
      BY <1>1, <1>2, <2>1, <2>2
    <3>. HIDE DEF p, k
    <3>2. m = k
      BY <1>1, <2>1, <3>1, DivisionUnique
    <3>. QED
      BY <2>2, <3>2 DEF k
  <2>3. CASE ~(n < 0)
    <3>. DEFINE p == 0
    <3>1. p \in Int /\ n \in 0 .. C - 1 /\ q * C + m = p * C + n
      BY <1>1, <1>2, <2>1, <2>3
    <3>. HIDE DEF p
    <3>2. m = n
      BY <1>1, <2>1, <3>1, DivisionUnique
    <3>. QED
      BY <2>3, <3>2
  <2>. QED
    BY <2>2, <2>3
<1>. HIDE DEF m
<1>4. m \in Nat /\ m < C
  BY <1>1, <1>2, <1>3
<1>5. append_i64(n) = AppendLittleEndian(m, kIntegerBytes)
  BY DEF append_i64, m
<1>6. /\ append_i64(n) \in Seq(Byte) /\ Len(append_i64(n)) = kIntegerBytes
      /\ ReadLittleEndian(append_i64(n)) = m
  BY <1>4, <1>5, BaseTyped, WrittenIsRead
<1>7. read_i64(append_i64(n)) = IF m > kMax THEN m - C ELSE m
  BY <1>6 DEF read_i64
<1>. HIDE DEF C
<1>. QED
  BY <1>1, <1>2, <1>3, <1>6, <1>7

(* And bytes of an integer are those that it is written as.                *)
LEMMA IntegerIsWritten ==
  ASSUME NEW bytes \in Seq(Byte), Len(bytes) = kIntegerBytes
  PROVE  read_i64(bytes) \in Word /\ append_i64(read_i64(bytes)) = bytes
<1>. DEFINE C == Capacity(kIntegerBytes)
            m == ReadLittleEndian(bytes)
            n == read_i64(bytes)
<1>1. C \in Nat \ {0} /\ C = 2 * (kMax + 1) /\ kMax \in Nat
  BY kMaxAssumption, CodecAssumption
<1>2. /\ m \in Nat /\ m < C
      /\ AppendLittleEndian(m, kIntegerBytes) = bytes
  BY ReadIsWritten
<1>3. n = IF m > kMax THEN m - C ELSE m
  BY DEF read_i64
<1>. HIDE DEF C, m, n
<1>4. n \in Int /\ n \in Word
  BY <1>1, <1>2, <1>3 DEF Word, kMin
<1>5. n % C = m
  <2>. DEFINE q == n \div C
              r == n % C
  <2>1. q \in Int /\ r \in 0 .. C - 1 /\ n = q * C + r
    BY <1>1, <1>4, DivisionBy
  <2>. DEFINE p == IF m > kMax THEN -1 ELSE 0
  <2>2. p \in Int /\ m \in 0 .. C - 1 /\ n = p * C + m
    BY <1>1, <1>2, <1>3
  <2>. HIDE DEF q, r, p
  <2>3. q * C + r = p * C + m
    BY <2>1, <2>2
  <2>4. r = m
    BY <1>1, <2>1, <2>2, <2>3, DivisionUnique
  <2>. QED
    BY <2>4 DEF r
<1>6. append_i64(n) = bytes
  BY <1>2, <1>5 DEF append_i64, C
<1>. QED
  BY <1>4, <1>6 DEF n

-----------------------------------------------------------------------------
(* One field.                                                              *)

(* The values a row may hold, and the columns a schema may name; of those  *)
(* the codec refuses the ones of type Null.                                *)
Storable(value) ==
  \/ value = NullValue
  \/ \E n \in Word : value = IntegerValue(n)
  \/ \E p \in BOOLEAN : value = BooleanValue(p)
  \/ \E n \in DOMAIN Texts : value = Value("Text", n)

Column(column) ==
  /\ column.type \in {"Null", "Integer", "Boolean", "Text"}
  /\ column.nullable \in BOOLEAN

(* The record has these bytes after the first `offset' ones.               *)
Holds(record, offset, bytes) ==
  /\ offset + Len(bytes) <= Len(record)
  /\ \A k \in 1 .. Len(bytes) : record[offset + k] = bytes[k]

(* The same, with the bytes cut out of the record.                         *)
LEMMA HoldsSub ==
  ASSUME NEW record \in Seq(Byte), NEW offset \in Nat, NEW bytes \in Seq(Byte)
  PROVE  Holds(record, offset, bytes) <=>
           /\ offset + Len(bytes) <= Len(record)
           /\ SubSeq(record, offset + 1, offset + Len(bytes)) = bytes
<1>1. CASE offset + Len(bytes) <= Len(record)
  <2>. DEFINE n == Len(bytes)
              sub == SubSeq(record, offset + 1, offset + n)
  <2>1. n \in Nat /\ bytes = [k \in 1 .. n |-> bytes[k]]
    OBVIOUS
  <2>2. sub = [k \in 1 .. n |-> record[offset + k]]
    <3>1. /\ sub \in Seq(Byte) /\ Len(sub) = n
          /\ \A k \in 1 .. n : sub[k] = record[offset + k]
      BY <1>1
    <3>. HIDE DEF sub, n
    <3>. QED
      BY <3>1
  <2>3. (\A k \in 1 .. n : record[offset + k] = bytes[k]) <=> sub = bytes
    <3>. HIDE DEF sub, n
    <3>. QED
      BY <2>1, <2>2
  <2>. QED
    BY <1>1, <2>3 DEF Holds
<1>. QED
  BY <1>1 DEF Holds

(* Bytes that follow each other are held one after the other.              *)
LEMMA HoldsConcat ==
  ASSUME NEW record \in Seq(Byte), NEW offset \in Nat,
         NEW a \in Seq(Byte), NEW b \in Seq(Byte)
  PROVE  Holds(record, offset, a \o b) <=>
           Holds(record, offset, a) /\ Holds(record, offset + Len(a), b)
<1>. DEFINE m == Len(a)
            n == Len(b)
<1>1. m \in Nat /\ n \in Nat /\ Len(record) \in Nat /\ Len(a \o b) = m + n
  OBVIOUS
<1>2. /\ \A k \in 1 .. m : (a \o b)[k] = a[k]
      /\ \A k \in 1 .. n : (a \o b)[m + k] = b[k]
  OBVIOUS
<1>3. ASSUME Holds(record, offset, a \o b)
      PROVE  Holds(record, offset, a) /\ Holds(record, offset + m, b)
  <2>1. \A k \in 1 .. m + n : record[offset + k] = (a \o b)[k]
    BY <1>1, <1>3 DEF Holds
  <2>2. \A k \in 1 .. m : record[offset + k] = a[k]
    BY <1>1, <1>2, <2>1
  <2>3. ASSUME NEW k \in 1 .. n PROVE record[offset + m + k] = b[k]
    <3>1. m + k \in 1 .. m + n /\ offset + m + k = offset + (m + k)
      BY <1>1
    <3>. QED
      BY <3>1, <1>2, <2>1
  <2>. QED
    BY <1>1, <1>3, <2>2, <2>3 DEF Holds
<1>4. ASSUME Holds(record, offset, a), Holds(record, offset + m, b)
      PROVE  Holds(record, offset, a \o b)
  <2>1. ASSUME NEW k \in 1 .. m + n PROVE record[offset + k] = (a \o b)[k]
    <3>1. CASE k \in 1 .. m
      BY <1>2, <1>4, <3>1 DEF Holds
    <3>2. CASE k \notin 1 .. m
      <4>. DEFINE j == k - m
      <4>1. j \in 1 .. n /\ offset + m + j = offset + k /\ m + j = k
        BY <1>1, <3>2
      <4>2. record[offset + m + j] = b[j]
        BY <1>4, <4>1 DEF Holds
      <4>3. (a \o b)[m + j] = b[j]
        BY <1>2, <4>1
      <4>. HIDE DEF j
      <4>. QED
        BY <4>1, <4>2, <4>3
    <3>. QED
      BY <3>1, <3>2
  <2>. QED
    BY <1>1, <1>4, <2>1 DEF Holds
<1>. QED
  BY <1>3, <1>4

(* One byte.                                                               *)
LEMMA HoldsByte ==
  ASSUME NEW record \in Seq(Byte), NEW offset \in Nat, NEW byte \in Byte
  PROVE  /\ <<byte>> \in Seq(Byte) /\ Len(<<byte>>) = 1
         /\ Holds(record, offset, <<byte>>) <=>
              offset < Len(record) /\ record[offset + 1] = byte
BY DEF Holds

(* What a field is after its tag.                                          *)
Content(value) ==
  CASE value.type = "Null"    -> << >>
    [] value.type = "Integer" -> append_i64(value.of)
    [] value.type = "Boolean" -> <<value.of>>
    [] value.type = "Text"    ->
         AppendLittleEndian(Len(Texts[value.of]), kLengthBytes) \o Texts[value.of]

(* The tags, each of them a byte.                                          *)
LEMMA FieldTags ==
  /\ FieldTag("Null") = 0 /\ FieldTag("Integer") = 1
  /\ FieldTag("Boolean") = 2 /\ FieldTag("Text") = 3
  /\ 0 \in Byte /\ 1 \in Byte /\ 2 \in Byte /\ 3 \in Byte
<1>1. 0 \in Byte /\ 1 \in Byte /\ 2 \in Byte /\ 3 \in Byte
  BY BaseTyped DEF Byte
<1>2. /\ FieldTag("Null") = 0 /\ FieldTag("Integer") = 1
      /\ FieldTag("Boolean") = 2 /\ FieldTag("Text") = 3
  BY DEF FieldTag
<1>. QED
  BY <1>1, <1>2

(* The values by their types.                                              *)
LEMMA ValueKinds ==
  /\ NullValue.type = "Null"
  /\ \A n : IntegerValue(n).type = "Integer" /\ IntegerValue(n).of = n
  /\ \A n : Value("Text", n).type = "Text" /\ Value("Text", n).of = n
  /\ BooleanValue(TRUE).type = "Boolean" /\ BooleanValue(TRUE).of = 1
  /\ BooleanValue(FALSE).type = "Boolean" /\ BooleanValue(FALSE).of = 0
BY DEF Value, NullValue, IntegerValue, BooleanValue

(* The bytes of a text: its length, then its characters.                   *)
LEMMA TextBytes ==
  ASSUME NEW n \in DOMAIN Texts, ~TooLarge(Value("Text", n))
  PROVE  LET length == AppendLittleEndian(Len(Texts[n]), kLengthBytes)
         IN /\ Texts[n] \in Seq(Byte) /\ Len(Texts[n]) \in Nat
            /\ length \in Seq(Byte) /\ Len(length) = kLengthBytes
            /\ ReadLittleEndian(length) = Len(Texts[n])
<1>1. Texts[n] \in Seq(Byte) /\ Len(Texts[n]) \in Nat
  BY CodecAssumption
<1>2. Capacity(kLengthBytes) \in Nat
  <2>1. kLengthBytes \in Nat
    BY BaseTyped
  <2>. QED
    BY <2>1, CapacityTyped
<1>3. Len(Texts[n]) < Capacity(kLengthBytes)
  BY <1>1, <1>2, ValueKinds DEF TooLarge
<1>. QED
  BY <1>1, <1>3, BaseTyped, WrittenIsRead

(* A field is its tag and its content, all of them bytes.                  *)
LEMMA FieldBytesTyped ==
  ASSUME NEW value, Storable(value), ~TooLarge(value)
  PROVE  /\ FieldBytes(value) = <<FieldTag(value.type)>> \o Content(value)
         /\ FieldTag(value.type) \in Byte
         /\ Content(value) \in Seq(Byte)
         /\ FieldBytes(value) \in Seq(Byte)
         /\ Len(FieldBytes(value)) = 1 + Len(Content(value))
<1>1. FieldBytes(value) = <<FieldTag(value.type)>> \o Content(value)
  BY DEF FieldBytes, Content
<1>2. FieldTag(value.type) \in Byte /\ Content(value) \in Seq(Byte)
  <2>1. CASE value = NullValue
    BY <2>1, ValueKinds, FieldTags DEF Content
  <2>2. ASSUME NEW n \in Word, value = IntegerValue(n)
        PROVE  FieldTag(value.type) \in Byte /\ Content(value) \in Seq(Byte)
    <3>1. Content(value) = append_i64(n) /\ value.type = "Integer"
      BY <2>2, ValueKinds DEF Content
    <3>. QED
      BY <3>1, FieldTags, IntegerIsRead
  <2>3. ASSUME NEW p \in BOOLEAN, value = BooleanValue(p)
        PROVE  FieldTag(value.type) \in Byte /\ Content(value) \in Seq(Byte)
    <3>1. value.type = "Boolean" /\ value.of \in {0, 1}
      BY <2>3, ValueKinds
    <3>2. Content(value) = <<value.of>>
      BY <3>1 DEF Content
    <3>3. value.of \in Byte
      BY <3>1, FieldTags
    <3>. QED
      BY <3>1, <3>2, <3>3, FieldTags
  <2>4. ASSUME NEW n \in DOMAIN Texts, value = Value("Text", n)
        PROVE  FieldTag(value.type) \in Byte /\ Content(value) \in Seq(Byte)
    <3>. DEFINE length == AppendLittleEndian(Len(Texts[n]), kLengthBytes)
    <3>1. Content(value) = length \o Texts[n] /\ value.type = "Text"
      BY <2>4, ValueKinds DEF Content
    <3>2. length \in Seq(Byte) /\ Texts[n] \in Seq(Byte)
      BY <2>4, TextBytes
    <3>. HIDE DEF length
    <3>. QED
      BY <3>1, <3>2, FieldTags
  <2>. QED
    BY <2>1, <2>2, <2>3, <2>4 DEF Storable
<1>. QED
  BY <1>1, <1>2

(* An integer that the record holds is read.                               *)
LEMMA ReadsInteger ==
  ASSUME NEW record \in Seq(Byte), NEW offset \in Nat, NEW n \in Word,
         Holds(record, offset, append_i64(n))
  PROVE  DecodeInteger(record, offset) =
           {Field(IntegerValue(n), offset + Len(append_i64(n)))}
<1>. DEFINE bytes == append_i64(n)
<1>1. bytes \in Seq(Byte) /\ Len(bytes) = kIntegerBytes /\ read_i64(bytes) = n
  BY IntegerIsRead
<1>. HIDE DEF bytes
<1>2. /\ offset + kIntegerBytes <= Len(record)
      /\ SubSeq(record, offset + 1, offset + kIntegerBytes) = bytes
  BY <1>1, HoldsSub DEF bytes
<1>3. ~(Len(record) < offset + kIntegerBytes)
  BY <1>2, BaseTyped
<1>. QED
  BY <1>1, <1>2, <1>3 DEF DecodeInteger, bytes

(* A boolean that the record holds is read.                                *)
LEMMA ReadsBoolean ==
  ASSUME NEW record \in Seq(Byte), NEW offset \in Nat, NEW p \in BOOLEAN,
         Holds(record, offset, <<BooleanValue(p).of>>)
  PROVE  DecodeBoolean(record, offset) = {Field(BooleanValue(p), offset + 1)}
<1>1. BooleanValue(p).of = (IF p THEN 1 ELSE 0)
  BY ValueKinds
<1>2. offset < Len(record) /\ record[offset + 1] = (IF p THEN 1 ELSE 0)
  BY <1>1, FieldTags, HoldsByte
<1>3. /\ ~(offset >= Len(record)) /\ ~(record[offset + 1] > 1)
      /\ (record[offset + 1] = 1) = p
  BY <1>2
<1>. QED
  BY <1>3 DEF DecodeBoolean

(* A text that the record holds, after its length, is read.                *)
LEMMA ReadsText ==
  ASSUME NEW record \in Seq(Byte), NEW offset \in Nat, NEW n \in DOMAIN Texts,
         ~TooLarge(Value("Text", n)), Holds(record, offset, Content(Value("Text", n)))
  PROVE  DecodeText(record, offset) =
           {Field(Value("Text", n), offset + Len(Content(Value("Text", n))))}
<1>. DEFINE length == AppendLittleEndian(Len(Texts[n]), kLengthBytes)
            characters == Texts[n]
            begin == offset + kLengthBytes
            end == begin + Len(characters)
<1>1. /\ characters \in Seq(Byte) /\ Len(characters) \in Nat
      /\ length \in Seq(Byte) /\ Len(length) = kLengthBytes
      /\ ReadLittleEndian(length) = Len(characters)
  BY TextBytes
<1>2. Content(Value("Text", n)) = length \o characters
  BY ValueKinds DEF Content
<1>. HIDE DEF length, characters
<1>3. Holds(record, offset, length) /\ Holds(record, begin, characters)
  <2>1. Holds(record, offset, length \o characters)
    BY <1>2
  <2>2. Holds(record, offset, length) /\ Holds(record, offset + Len(length), characters)
    BY <1>1, <2>1, HoldsConcat
  <2>. QED
    BY <1>1, <2>2
<1>4. begin \in Nat /\ Len(length \o characters) = kLengthBytes + Len(characters)
  <2>1. begin \in Nat
    BY BaseTyped
  <2>2. Len(length \o characters) = Len(length) + Len(characters)
    BY <1>1
  <2>. QED
    BY <1>1, <2>1, <2>2
<1>5. SubSeq(record, offset + 1, begin) = length /\ begin <= Len(record)
  BY <1>1, <1>3, HoldsSub
<1>. HIDE DEF begin
<1>6. SubSeq(record, begin + 1, end) = characters /\ end <= Len(record)
  BY <1>1, <1>3, <1>4, HoldsSub
<1>. DEFINE read == begin + ReadLittleEndian(SubSeq(record, offset + 1, begin))
<1>7. read = end
  BY <1>1, <1>5
<1>8. /\ ~(Len(record) < begin \/ Len(record) < end)
      /\ end = offset + Len(length \o characters)
  BY <1>1, <1>4, <1>5, <1>6, BaseTyped DEF begin
<1>9. TextOf(characters) = Value("Text", n)
  <2>1. \A m \in DOMAIN Texts : Texts[m] = characters <=> m = n
    BY CodecAssumption DEF characters
  <2>2. (CHOOSE m \in DOMAIN Texts : Texts[m] = characters) = n
    BY <2>1
  <2>. QED
    BY <2>2 DEF TextOf
<1>10. DecodeText(record, offset) =
         IF Len(record) < begin \/ Len(record) < read THEN {}
         ELSE {Field(TextOf(SubSeq(record, begin + 1, read)), read)}
  BY DEF DecodeText, begin
<1>. HIDE DEF read, end
<1>. QED
  BY <1>2, <1>6, <1>7, <1>8, <1>9, <1>10

(* A field that the column accepts and the record holds is read.           *)
LEMMA FieldIsRead ==
  ASSUME NEW record \in Seq(Byte), NEW offset \in Nat, NEW column, NEW value,
         Column(column), Storable(value), EncodeStatus(column, value) = "Ok",
         Holds(record, offset, FieldBytes(value))
  PROVE  /\ FieldBytes(value) \in Seq(Byte)
         /\ DecodeField(column, record, offset) =
              {Field(value, offset + Len(FieldBytes(value)))}
<1>. DEFINE tag == FieldTag(value.type)
            content == Content(value)
<1>1. ~TooLarge(value) /\ (value.type = "Null" => column.nullable)
                      /\ (value.type # "Null" => value.type = column.type)
                      /\ column.type # "Null"
  BY DEF EncodeStatus, IsNull, TooLarge
<1>2. /\ FieldBytes(value) = <<tag>> \o content /\ tag \in Byte
      /\ content \in Seq(Byte) /\ FieldBytes(value) \in Seq(Byte)
      /\ Len(FieldBytes(value)) = 1 + Len(content)
  BY <1>1, FieldBytesTyped
<1>. HIDE DEF tag, content
<1>3. /\ offset < Len(record) /\ record[offset + 1] = tag
      /\ Holds(record, offset + 1, content)
  <2>. DEFINE first == <<tag>>
  <2>1. /\ first \in Seq(Byte) /\ Len(first) = 1
        /\ Holds(record, offset, first) <=>
             offset < Len(record) /\ record[offset + 1] = tag
    BY <1>2, HoldsByte
  <2>2. Holds(record, offset, first \o content)
    BY <1>2
  <2>. HIDE DEF first
  <2>3. Holds(record, offset, first) /\ Holds(record, offset + Len(first), content)
    BY <1>2, <2>1, <2>2, HoldsConcat
  <2>. QED
    BY <2>1, <2>3
<1>4. ~(offset >= Len(record)) /\ offset + 1 \in Nat
  BY <1>3
<1>5. offset + 1 + Len(content) = offset + Len(FieldBytes(value)) /\ Len(content) \in Nat
  BY <1>2
<1>6. CASE value = NullValue
  <2>1. tag = FieldTag("Null") /\ content = << >> /\ column.nullable
    BY <1>1, <1>6, ValueKinds DEF tag, content, Content
  <2>2. DecodeField(column, record, offset) = {Field(NullValue, offset + 1)}
    BY <1>1, <1>3, <1>4, <2>1 DEF DecodeField
  <2>3. offset + 1 = offset + Len(FieldBytes(value))
    BY <1>5, <2>1
  <2>. QED
    BY <1>2, <1>6, <2>2, <2>3
<1>7. ASSUME NEW n \in Word, value = IntegerValue(n)
      PROVE  DecodeField(column, record, offset) =
               {Field(value, offset + Len(FieldBytes(value)))}
  <2>1. value.type = "Integer" /\ column.type = "Integer"
    BY <1>1, <1>7, ValueKinds
  <2>2. tag = 1 /\ content = append_i64(n)
    BY <1>7, <2>1, FieldTags, ValueKinds DEF tag, content, Content
  <2>3. DecodeField(column, record, offset) = DecodeInteger(record, offset + 1)
    BY <1>3, <1>4, <2>1, <2>2, FieldTags DEF DecodeField
  <2>4. DecodeInteger(record, offset + 1) = {Field(value, offset + 1 + Len(content))}
    BY <1>3, <1>4, <1>7, <2>2, ReadsInteger
  <2>. QED
    BY <1>5, <2>3, <2>4
<1>8. ASSUME NEW p \in BOOLEAN, value = BooleanValue(p)
      PROVE  DecodeField(column, record, offset) =
               {Field(value, offset + Len(FieldBytes(value)))}
  <2>1. value.type = "Boolean" /\ column.type = "Boolean"
    BY <1>1, <1>8, ValueKinds
  <2>2. tag = 2 /\ content = <<BooleanValue(p).of>>
    BY <1>8, <2>1, FieldTags DEF tag, content, Content
  <2>3. DecodeField(column, record, offset) = DecodeBoolean(record, offset + 1)
    BY <1>3, <1>4, <2>1, <2>2, FieldTags DEF DecodeField
  <2>4. DecodeBoolean(record, offset + 1) = {Field(value, offset + 1 + 1)}
    BY <1>3, <1>4, <1>8, <2>2, ReadsBoolean
  <2>5. Len(content) = 1
    BY <2>2
  <2>. QED
    BY <1>5, <2>3, <2>4, <2>5
<1>9. ASSUME NEW n \in DOMAIN Texts, value = Value("Text", n)
      PROVE  DecodeField(column, record, offset) =
               {Field(value, offset + Len(FieldBytes(value)))}
  <2>1. value.type = "Text" /\ column.type = "Text"
    BY <1>1, <1>9, ValueKinds
  <2>2. tag = 3 /\ content = Content(Value("Text", n))
    BY <1>9, <2>1, FieldTags DEF tag, content
  <2>3. DecodeField(column, record, offset) = DecodeText(record, offset + 1)
    BY <1>3, <1>4, <2>1, <2>2, FieldTags DEF DecodeField
  <2>4. DecodeText(record, offset + 1) = {Field(value, offset + 1 + Len(content))}
    BY <1>1, <1>3, <1>4, <1>9, <2>2, ReadsText
  <2>. QED
    BY <1>5, <2>3, <2>4
<1>. QED
  BY <1>2, <1>6, <1>7, <1>8, <1>9 DEF Storable

(* Every run of the record's bytes is one of Texts, as every run of bytes  *)
(* is a std::string.                                                       *)
Spelled(record) ==
  \A i \in 1 .. Len(record) + 1, j \in 0 .. Len(record) :
    \E n \in DOMAIN Texts : Texts[n] = SubSeq(record, i, j)

(* The record holds the integer that is read.                              *)
LEMMA IntegerRead ==
  ASSUME NEW record \in Seq(Byte), NEW offset \in Nat,
         NEW field \in DecodeInteger(record, offset)
  PROVE  \E n \in Word : /\ field = Field(IntegerValue(n), offset + kIntegerBytes)
                         /\ Holds(record, offset, append_i64(n))
                         /\ Len(append_i64(n)) = kIntegerBytes
<1>. DEFINE end == offset + kIntegerBytes
            bytes == SubSeq(record, offset + 1, end)
            n == read_i64(bytes)
<1>1. ~(Len(record) < end) /\ field = Field(IntegerValue(n), end)
  BY DEF DecodeInteger
<1>2. bytes \in Seq(Byte) /\ Len(bytes) = kIntegerBytes
  BY <1>1, BaseTyped
<1>. HIDE DEF bytes
<1>3. n \in Word /\ append_i64(n) = bytes
  BY <1>2, IntegerIsWritten
<1>4. Holds(record, offset, bytes)
  <2>1. /\ offset + Len(bytes) <= Len(record)
        /\ SubSeq(record, offset + 1, offset + Len(bytes)) = bytes
    BY <1>1, <1>2, BaseTyped DEF bytes
  <2>. QED
    BY <1>2, <2>1, HoldsSub
<1>. HIDE DEF n
<1>. QED
  BY <1>1, <1>2, <1>3, <1>4

(* The record holds the boolean that is read.                              *)
LEMMA BooleanRead ==
  ASSUME NEW record \in Seq(Byte), NEW offset \in Nat,
         NEW field \in DecodeBoolean(record, offset)
  PROVE  \E p \in BOOLEAN : /\ field = Field(BooleanValue(p), offset + 1)
                            /\ Holds(record, offset, <<BooleanValue(p).of>>)
<1>. DEFINE p == record[offset + 1] = 1
<1>1. /\ ~(offset >= Len(record)) /\ ~(record[offset + 1] > 1)
      /\ field = Field(BooleanValue(p), offset + 1)
  BY DEF DecodeBoolean
<1>2. offset < Len(record) /\ record[offset + 1] \in Byte
  BY <1>1
<1>3. record[offset + 1] = IF p THEN 1 ELSE 0
  BY <1>1, <1>2, BaseTyped DEF Byte
<1>4. BooleanValue(p).of = record[offset + 1]
  BY <1>3, ValueKinds
<1>5. Holds(record, offset, <<BooleanValue(p).of>>)
  BY <1>2, <1>4, HoldsByte
<1>. QED
  BY <1>1, <1>5

(* The record holds the length and the characters of the text that is      *)
(* read.                                                                   *)
LEMMA TextRead ==
  ASSUME NEW record \in Seq(Byte), NEW offset \in Nat, Spelled(record),
         NEW field \in DecodeText(record, offset)
  PROVE  \E n \in DOMAIN Texts :
            /\ ~TooLarge(Value("Text", n))
            /\ Holds(record, offset, Content(Value("Text", n)))
            /\ field = Field(Value("Text", n), offset + Len(Content(Value("Text", n))))
<1>. DEFINE begin == offset + kLengthBytes
            length == SubSeq(record, offset + 1, begin)
            size == ReadLittleEndian(length)
            end == begin + size
            characters == SubSeq(record, begin + 1, end)
            n == CHOOSE m \in DOMAIN Texts : Texts[m] = characters
<1>1. /\ ~(Len(record) < begin) /\ ~(Len(record) < end)
      /\ field = Field(Value("Text", n), end)
  BY DEF DecodeText, TextOf
<1>2. begin \in Nat /\ Len(record) \in Nat /\ begin <= Len(record)
  BY <1>1, BaseTyped
<1>3. length \in Seq(Byte) /\ Len(length) = kLengthBytes
  BY <1>2, BaseTyped
<1>4. /\ size \in Nat /\ size < Capacity(kLengthBytes)
      /\ AppendLittleEndian(size, kLengthBytes) = length
  <2>. HIDE DEF length
  <2>. QED
    BY <1>3, ReadIsWritten
<1>5. Holds(record, offset, length)
  BY <1>2, <1>3, HoldsSub
<1>. HIDE DEF length, size, begin
<1>6. end \in Nat /\ end <= Len(record)
  BY <1>1, <1>2, <1>4
<1>7. characters \in Seq(Byte) /\ Len(characters) = size
  BY <1>2, <1>4, <1>6
<1>8. Holds(record, begin, characters)
  BY <1>2, <1>6, <1>7, HoldsSub
<1>9. n \in DOMAIN Texts /\ Texts[n] = characters
  <2>1. begin + 1 \in 1 .. Len(record) + 1 /\ end \in 0 .. Len(record)
    BY <1>2, <1>6
  <2>2. \E m \in DOMAIN Texts : Texts[m] = characters
    <3>. HIDE DEF end
    <3>. QED
      BY <2>1 DEF Spelled
  <2>. HIDE DEF characters
  <2>. QED
    BY <2>2
<1>. HIDE DEF characters, n
<1>10. Content(Value("Text", n)) = length \o characters
  BY <1>4, <1>7, <1>9, ValueKinds DEF Content
<1>11. ~TooLarge(Value("Text", n))
  <2>1. Capacity(kLengthBytes) \in Nat
    BY BaseTyped, CapacityTyped
  <2>. QED
    BY <1>4, <1>7, <1>9, <2>1, ValueKinds DEF TooLarge
<1>12. Holds(record, offset, length \o characters)
  BY <1>3, <1>5, <1>7, <1>8, HoldsConcat DEF begin
<1>13. /\ Len(length \o characters) = kLengthBytes + size
       /\ end = offset + (kLengthBytes + size)
  BY <1>3, <1>4, <1>7, BaseTyped DEF begin
<1>. QED
  BY <1>1, <1>9, <1>10, <1>11, <1>12, <1>13

(* The record holds the field that is read, and the column accepts it.     *)
LEMMA FieldRead ==
  ASSUME NEW record \in Seq(Byte), NEW offset \in Nat, NEW column,
         Column(column), Spelled(record),
         NEW field \in DecodeField(column, record, offset)
  PROVE  /\ Storable(field.value) /\ EncodeStatus(column, field.value) = "Ok"
         /\ FieldBytes(field.value) \in Seq(Byte)
         /\ Holds(record, offset, FieldBytes(field.value))
         /\ field.offset = offset + Len(FieldBytes(field.value))
<1>. DEFINE Good(value) ==
              /\ Storable(value) /\ EncodeStatus(column, value) = "Ok"
              /\ ~TooLarge(value)
              /\ record[offset + 1] = FieldTag(value.type)
              /\ Holds(record, offset + 1, Content(value))
              /\ field = Field(value, offset + 1 + Len(Content(value)))
<1>1. /\ offset < Len(record) /\ offset + 1 \in Nat /\ Len(record) \in Nat
      /\ column.type # "Null"
  <2>1. ~(offset >= Len(record)) /\ column.type # "Null"
    BY DEF DecodeField
  <2>. QED
    BY <2>1
<1>2. \E value : Good(value)
  <2>1. CASE record[offset + 1] = 0
    <3>1. column.nullable /\ field = Field(NullValue, offset + 1)
      BY <1>1, <2>1, FieldTags DEF DecodeField
    <3>2. /\ Content(NullValue) = << >> /\ NullValue.type = "Null"
          /\ ~TooLarge(NullValue) /\ EncodeStatus(column, NullValue) = "Ok"
      BY <1>1, <3>1, ValueKinds DEF Content, TooLarge, EncodeStatus, IsNull
    <3>3. Holds(record, offset + 1, << >>) /\ offset + 1 + Len(<< >>) = offset + 1
      BY <1>1 DEF Holds
    <3>4. Storable(NullValue)
      BY DEF Storable
    <3>5. Good(NullValue)
      BY <2>1, <3>1, <3>2, <3>3, <3>4, FieldTags
    <3>. HIDE DEF Good
    <3>. QED
      BY <3>5
  <2>2. CASE column.type = "Integer" /\ record[offset + 1] # 0
    <3>1. record[offset + 1] = 1 /\ field \in DecodeInteger(record, offset + 1)
      BY <1>1, <2>2, FieldTags DEF DecodeField
    <3>2. PICK n \in Word : /\ field = Field(IntegerValue(n), offset + 1 + kIntegerBytes)
                            /\ Holds(record, offset + 1, append_i64(n))
                            /\ Len(append_i64(n)) = kIntegerBytes
      BY <1>1, <3>1, IntegerRead
    <3>. DEFINE value == IntegerValue(n)
    <3>3. value.type = "Integer" /\ value.of = n /\ Storable(value)
      BY ValueKinds DEF Storable
    <3>. HIDE DEF value
    <3>4. /\ Content(value) = append_i64(n)
          /\ ~TooLarge(value) /\ EncodeStatus(column, value) = "Ok"
      BY <2>2, <3>3 DEF Content, TooLarge, EncodeStatus, IsNull
    <3>5. Good(value)
      BY <3>1, <3>2, <3>3, <3>4, FieldTags DEF value
    <3>. HIDE DEF Good
    <3>. QED
      BY <3>5
  <2>3. CASE column.type = "Boolean" /\ record[offset + 1] # 0
    <3>1. record[offset + 1] = 2 /\ field \in DecodeBoolean(record, offset + 1)
      BY <1>1, <2>3, FieldTags DEF DecodeField
    <3>2. PICK p \in BOOLEAN : /\ field = Field(BooleanValue(p), offset + 1 + 1)
                               /\ Holds(record, offset + 1, <<BooleanValue(p).of>>)
      BY <1>1, <3>1, BooleanRead
    <3>. DEFINE value == BooleanValue(p)
    <3>3. value.type = "Boolean" /\ Storable(value)
      BY ValueKinds DEF Storable
    <3>. HIDE DEF value
    <3>4. /\ Content(value) = <<value.of>> /\ Len(<<value.of>>) = 1
          /\ ~TooLarge(value) /\ EncodeStatus(column, value) = "Ok"
      BY <2>3, <3>3 DEF Content, TooLarge, EncodeStatus, IsNull
    <3>5. Good(value)
      BY <3>1, <3>2, <3>3, <3>4, FieldTags DEF value
    <3>. HIDE DEF Good
    <3>. QED
      BY <3>5
  <2>4. CASE column.type = "Text" /\ record[offset + 1] # 0
    <3>1. record[offset + 1] = 3 /\ field \in DecodeText(record, offset + 1)
      BY <1>1, <2>4, FieldTags DEF DecodeField
    <3>2. PICK n \in DOMAIN Texts :
             /\ ~TooLarge(Value("Text", n))
             /\ Holds(record, offset + 1, Content(Value("Text", n)))
             /\ field = Field(Value("Text", n), offset + 1 + Len(Content(Value("Text", n))))
      BY <1>1, <3>1, TextRead
    <3>. DEFINE value == Value("Text", n)
    <3>3. value.type = "Text" /\ Storable(value)
      BY ValueKinds DEF Storable
    <3>. HIDE DEF value
    <3>4. EncodeStatus(column, value) = "Ok"
      BY <2>4, <3>2, <3>3 DEF EncodeStatus, IsNull, value
    <3>5. Good(value)
      BY <3>1, <3>2, <3>3, <3>4, FieldTags DEF value
    <3>. HIDE DEF Good
    <3>. QED
      BY <3>5
  <2>. QED
    BY <1>1, <2>1, <2>2, <2>3, <2>4 DEF Column
<1>3. PICK value : Good(value)
  BY <1>2
<1>. DEFINE tag == FieldTag(value.type)
            first == <<tag>>
            content == Content(value)
<1>4. /\ FieldBytes(value) = first \o content /\ tag \in Byte
      /\ content \in Seq(Byte) /\ FieldBytes(value) \in Seq(Byte)
      /\ Len(FieldBytes(value)) = 1 + Len(content)
  BY <1>3, FieldBytesTyped
<1>5. first \in Seq(Byte) /\ Len(first) = 1 /\ Holds(record, offset, first)
  <2>. HIDE DEF tag
  <2>. QED
    BY <1>1, <1>3, <1>4, HoldsByte DEF tag
<1>. HIDE DEF first, tag, content
<1>6. Holds(record, offset, first \o content)
  BY <1>3, <1>4, <1>5, HoldsConcat DEF content
<1>7. field.value = value /\ field.offset = offset + 1 + Len(content)
  BY <1>3 DEF Field, content
<1>8. field.offset = offset + Len(FieldBytes(value))
  BY <1>4, <1>7
<1>. QED
  BY <1>3, <1>4, <1>6, <1>7, <1>8

-----------------------------------------------------------------------------
(* Rows.                                                                   *)

StoredValues ==
  {NullValue} \cup {IntegerValue(n) : n \in Word}
    \cup {BooleanValue(p) : p \in BOOLEAN}
    \cup {Value("Text", n) : n \in DOMAIN Texts}

Columns == [type : {"Null", "Integer", "Boolean", "Text"}, nullable : BOOLEAN]

(* The sets and the predicates say the same.                               *)
LEMMA RowsTyped ==
  /\ \A value : value \in StoredValues <=> Storable(value)
  /\ \A column \in Columns : Column(column)
BY DEF StoredValues, Storable, Columns, Column

(* The concatenation of sequences, one after the other.                    *)
Concatenates(prefix, seqs) ==
  /\ prefix \in [0 .. Len(seqs) -> Seq(Byte)]
  /\ prefix[0] = << >>
  /\ \A i \in 1 .. Len(seqs) : prefix[i] = prefix[i - 1] \o seqs[i]

(* There are such prefixes.                                                *)
LEMMA ConcatenationExists ==
  ASSUME NEW seqs \in Seq(Seq(Byte))
  PROVE  \E prefix : Concatenates(prefix, seqs)
<1>. DEFINE n == Len(seqs)
            S == Seq(Byte)
            start == << >>
            step == [i \in 1 .. n |-> [x \in S |-> x \o seqs[i]]]
<1>0. n \in Nat /\ start \in S
  OBVIOUS
<1>1. \A i \in 1 .. n : seqs[i] \in S
  OBVIOUS
<1>2. \A x, y \in S : x \o y \in S
  OBVIOUS
<1>3. step \in [1 .. n -> [S -> S]]
  <2>. HIDE DEF S, n
  <2>. QED
    BY <1>1, <1>2
<1>4. PICK f \in [0 .. n -> S] :
         /\ f[0] = start
         /\ \A i \in 1 .. n : f[i] = step[i][f[i - 1]]
  <2>. HIDE DEF S, n, step, start
  <2>2. \E f : Solves(f, S, start, n, step)
    BY <1>0, <1>3, Recursion
  <2>. QED
    BY <2>2 DEF Solves
<1>5. ASSUME NEW i \in 1 .. n PROVE f[i] = f[i - 1] \o seqs[i]
  <2>0. i - 1 \in 0 .. n
    BY <1>0
  <2>1. f[i - 1] \in S
    BY <1>4, <2>0
  <2>. HIDE DEF S, n
  <2>. QED
    BY <2>1, <1>4
<1>. QED
  BY <1>4, <1>5 DEF Concatenates

(* FlattenSeq returns the last of them.                                    *)
LEMMA Flattened ==
  ASSUME NEW seqs \in Seq(Seq(Byte)), NEW prefix, Concatenates(prefix, seqs)
  PROVE  FlattenSeq(seqs) = prefix[Len(seqs)]
<1>. DEFINE n == Len(seqs)
<1>1. CASE n = 0
  <2>1. seqs = << >> /\ prefix[n] = << >>
    BY <1>1 DEF Concatenates
  <2>. QED
    BY <1>1, <2>1 DEF FlattenSeq
<1>2. CASE n # 0
  <2>. DEFINE Rule(f) == [i \in 1 .. n |-> IF i = 1 THEN seqs[i]
                                           ELSE f[i - 1] \o seqs[i]]
              flatten == CHOOSE f : f = Rule(f)
              g == [i \in 1 .. n |-> prefix[i]]
  <2>1. n \in Nat \ {0} /\ \A i \in 1 .. n : seqs[i] \in Seq(Byte)
    BY <1>2
  <2>2. /\ prefix[0] = << >>
        /\ \A i \in 1 .. n : prefix[i] = prefix[i - 1] \o seqs[i]
    BY DEF Concatenates
  <2>3. FlattenSeq(seqs) = flatten[n]
    BY <1>2 DEF FlattenSeq
  <2>. HIDE DEF n
  <2>4. prefix[1] = seqs[1]
    <3>1. 1 \in 1 .. n /\ 1 - 1 = 0
      BY <2>1
    <3>2. prefix[1] = << >> \o seqs[1]
      BY <2>2, <3>1
    <3>. QED
      BY <2>1, <3>1, <3>2
  <2>5. g = Rule(g)
    <3>1. ASSUME NEW i \in 1 .. n
          PROVE  g[i] = IF i = 1 THEN seqs[i] ELSE g[i - 1] \o seqs[i]
      <4>1. CASE i = 1
        BY <2>4, <4>1
      <4>2. CASE i # 1
        <5>1. i - 1 \in 1 .. n
          BY <2>1, <4>2
        <5>. QED
          BY <2>2, <4>2, <5>1
      <4>. QED
        BY <4>1, <4>2
    <3>. QED
      BY <3>1
  <2>. HIDE DEF Rule, g
  <2>6. flatten = Rule(flatten)
    BY <2>5
  <2>. HIDE DEF flatten
  <2>7. \A i \in 1 .. n : flatten[i] = IF i = 1 THEN seqs[i]
                                      ELSE flatten[i - 1] \o seqs[i]
    BY <2>6 DEF Rule
  <2>. DEFINE P == {i \in 0 .. n : i # 0 => flatten[i] = prefix[i]}
  <2>8. 0 \in P
    BY <2>1
  <2>9. ASSUME NEW i \in 1 .. n, i - 1 \in P PROVE i \in P
    <3>1. CASE i = 1
      BY <2>4, <2>7, <3>1
    <3>2. CASE i # 1
      <4>1. flatten[i - 1] = prefix[i - 1]
        BY <2>9, <3>2
      <4>2. flatten[i] = flatten[i - 1] \o seqs[i]
        BY <2>7, <3>2
      <4>3. flatten[i] = prefix[i]
        BY <2>2, <4>1, <4>2
      <4>. QED
        BY <4>3
    <3>. QED
      BY <3>1, <3>2
  <2>. HIDE DEF P
  <2>10. \A i \in 0 .. n : i \in P
    BY <2>1, <2>8, <2>9, UpTo
  <2>11. n \in P
    BY <2>1, <2>10
  <2>. QED
    BY <2>1, <2>3, <2>11 DEF P, n
<1>. QED
  BY <1>1, <1>2

(* The whole holds each prefix, and each part after the parts before it.   *)
LEMMA PartsHeld ==
  ASSUME NEW seqs \in Seq(Seq(Byte)), NEW prefix, Concatenates(prefix, seqs)
  PROVE  \A i \in 1 .. Len(seqs) :
            Holds(prefix[Len(seqs)], Len(prefix[i - 1]), seqs[i])
<1>. DEFINE n == Len(seqs)
            whole == prefix[n]
            P == {k \in 0 .. n : Holds(whole, 0, prefix[n - k])}
<1>0. /\ prefix \in [0 .. n -> Seq(Byte)]
      /\ \A i \in 1 .. n : prefix[i] = prefix[i - 1] \o seqs[i]
  BY DEF Concatenates
<1>1. n \in Nat /\ \A i \in 1 .. n : seqs[i] \in Seq(Byte)
  OBVIOUS
<1>. HIDE DEF n
<1>2. whole \in Seq(Byte)
  BY <1>0, <1>1
<1>. HIDE DEF whole
<1>3. \A i \in 1 .. n : /\ Holds(whole, 0, prefix[i])
                          <=> /\ Holds(whole, 0, prefix[i - 1])
                              /\ Holds(whole, Len(prefix[i - 1]), seqs[i])
  <2>1. ASSUME NEW i \in 1 .. n
        PROVE  Holds(whole, 0, prefix[i])
                 <=> /\ Holds(whole, 0, prefix[i - 1])
                     /\ Holds(whole, Len(prefix[i - 1]), seqs[i])
    <3>. DEFINE a == prefix[i - 1]
                b == seqs[i]
                z == 0
    <3>0. i - 1 \in 0 .. n
      BY <1>1
    <3>1. a \in Seq(Byte) /\ b \in Seq(Byte) /\ prefix[i] = a \o b
      BY <1>0, <1>1, <3>0
    <3>2. z \in Nat /\ z + Len(a) = Len(a)
      BY <3>1
    <3>. HIDE DEF a, b, z
    <3>3. Holds(whole, z, a \o b) <=> Holds(whole, z, a) /\ Holds(whole, z + Len(a), b)
      BY <1>2, <3>1, <3>2, HoldsConcat
    <3>. QED
      BY <3>1, <3>2, <3>3 DEF a, b, z
  <2>. QED
    BY <2>1
<1>4. 0 \in P
  <2>1. Holds(whole, 0, whole)
    BY <1>2 DEF Holds
  <2>2. prefix[n - 0] = whole
    BY <1>1 DEF whole
  <2>. QED
    BY <1>1, <2>1, <2>2
<1>5. ASSUME NEW k \in 1 .. n, k - 1 \in P PROVE k \in P
  <2>1. n - (k - 1) \in 1 .. n /\ n - (k - 1) - 1 = n - k
    BY <1>1
  <2>2. Holds(whole, 0, prefix[n - (k - 1)])
    BY <1>5
  <2>3. Holds(whole, 0, prefix[n - k])
    BY <1>3, <2>1, <2>2
  <2>. QED
    BY <2>3
<1>. HIDE DEF P
<1>6. \A k \in 0 .. n : k \in P
  BY <1>1, <1>4, <1>5, UpTo
<1>7. ASSUME NEW i \in 1 .. n PROVE Holds(whole, Len(prefix[i - 1]), seqs[i])
  <2>1. n - i \in 0 .. n /\ n - (n - i) = i
    BY <1>1
  <2>2. n - i \in P
    BY <1>6, <2>1
  <2>3. Holds(whole, 0, prefix[i])
    BY <2>1, <2>2 DEF P
  <2>. QED
    BY <1>3, <2>3
<1>. QED
  BY <1>7 DEF n, whole

(* The reads that Decode takes, field by field.                            *)
Reads(f, schema, record) ==
  f = [i \in 0 .. Len(schema) |->
         IF i = 0 THEN {[values |-> << >>, offset |-> 0]}
         ELSE UNION {ReadOn(read, schema[i], record) : read \in f[i - 1]}]

(* What satisfies the recursion of DecodeFields is what it returns.        *)
LEMMA ReadsUnique ==
  ASSUME NEW schema \in Seq(Columns), NEW record, NEW f, Reads(f, schema, record)
  PROVE  DecodeFields(schema, record) = f[Len(schema)]
<1>. DEFINE n == Len(schema)
            start == {[values |-> << >>, offset |-> 0]}
            g == CHOOSE h : Reads(h, schema, record)
            P == {i \in 0 .. n : g[i] = f[i]}
            On(i, X) == UNION {ReadOn(read, schema[i], record) : read \in X}
<1>1. n \in Nat
  OBVIOUS
<1>2. DecodeFields(schema, record) = g[n]
  BY DEF DecodeFields, Reads
<1>3. Reads(g, schema, record)
  OBVIOUS
<1>. HIDE DEF g
<1>4. \A i \in 0 .. n : f[i] = IF i = 0 THEN start ELSE On(i, f[i - 1])
  BY DEF Reads
<1>5. \A i \in 0 .. n : g[i] = IF i = 0 THEN start ELSE On(i, g[i - 1])
  BY <1>3 DEF Reads
<1>. HIDE DEF On, start, n
<1>6. 0 \in P
  BY <1>1, <1>4, <1>5
<1>7. ASSUME NEW i \in 1 .. n, i - 1 \in P PROVE i \in P
  <2>1. i \in 0 .. n /\ i # 0 /\ g[i - 1] = f[i - 1]
    BY <1>1, <1>7
  <2>2. g[i] = On(i, f[i - 1]) /\ f[i] = On(i, f[i - 1])
    BY <1>4, <1>5, <2>1
  <2>. QED
    BY <2>1, <2>2
<1>. HIDE DEF P
<1>8. \A i \in 0 .. n : i \in P
  BY <1>1, <1>6, <1>7, UpTo
<1>9. n \in P
  BY <1>1, <1>8
<1>. QED
  BY <1>2, <1>9 DEF P, n

(* One field is read, and the values have one more.                        *)
LEMMA ReadsOneOn ==
  ASSUME NEW read, NEW column, NEW record, NEW value, NEW end,
         DecodeField(column, record, read.offset) = {Field(value, end)}
  PROVE  ReadOn(read, column, record) =
           {[values |-> Append(read.values, value), offset |-> end]}
<1>. DEFINE field == Field(value, end)
<1>1. field.value = value /\ field.offset = end
  BY DEF Field
<1>. HIDE DEF field
<1>2. DecodeField(column, record, read.offset) = {field}
  BY DEF field
<1>. QED
  BY <1>1, <1>2 DEF ReadOn

(* What Encode returns: the fields one after the other if all are accepted *)
(* and the status of a refusal otherwise.                                  *)
LEMMA EncodeExact ==
  ASSUME NEW schema \in Seq(Columns), NEW values \in Seq(StoredValues)
  PROVE  LET fields == [i \in DOMAIN values |-> FieldBytes(values[i])]
         IN /\ Encode(schema, values).status = "Ok" <=>
                 /\ Len(values) = Len(schema)
                 /\ \A i \in 1 .. Len(schema) : EncodeStatus(schema[i], values[i]) = "Ok"
            /\ Encode(schema, values).status = "Ok" =>
                 Encode(schema, values) = ok_result(FlattenSeq(fields))
<1>. DEFINE fields == [i \in DOMAIN values |-> FieldBytes(values[i])]
            Status(i) == EncodeStatus(schema[i], values[i])
            refused == {i \in DOMAIN schema : Status(i) # "Ok"}
            first == CHOOSE i \in refused : \A j \in refused : i <= j
            flat == ok_result(FlattenSeq(fields))
<1>1. Encode(schema, values) =
        IF Len(values) # Len(schema) THEN Failed("InvalidArgument")
        ELSE IF refused # {} THEN Failed(Status(first)) ELSE flat
  BY DEF Encode
<1>2. refused # {} => first \in refused
  <2>1. refused \subseteq Nat
    OBVIOUS
  <2>. HIDE DEF refused
  <2>. QED
    BY <2>1, LeastNumber
<1>3. refused # {} => Status(first) # "Ok"
  BY <1>2
<1>4. refused = {} <=> \A i \in 1 .. Len(schema) : Status(i) = "Ok"
  OBVIOUS
<1>5. flat.status = "Ok" /\ \A status : Failed(status).status = status
  BY DEF ok_result, Failed
<1>. HIDE DEF Status, refused, first, flat
<1>6. /\ Encode(schema, values).status = "Ok" <=>
           Len(values) = Len(schema) /\ refused = {}
      /\ Encode(schema, values).status = "Ok" => Encode(schema, values) = flat
  BY <1>1, <1>3, <1>5
<1>. QED
  BY <1>4, <1>6 DEF Status, flat

(* The fields of an accepted row are bytes.                                *)
LEMMA FieldsTyped ==
  ASSUME NEW schema \in Seq(Columns), NEW values \in Seq(StoredValues),
         Len(values) = Len(schema),
         \A i \in 1 .. Len(schema) : EncodeStatus(schema[i], values[i]) = "Ok"
  PROVE  LET fields == [i \in DOMAIN values |-> FieldBytes(values[i])]
         IN /\ fields \in Seq(Seq(Byte)) /\ Len(fields) = Len(schema)
            /\ \A i \in 1 .. Len(schema) : fields[i] = FieldBytes(values[i])
<1>. DEFINE fields == [i \in DOMAIN values |-> FieldBytes(values[i])]
            n == Len(schema)
<1>1. n \in Nat /\ DOMAIN values = 1 .. n
  OBVIOUS
<1>2. ASSUME NEW i \in 1 .. n PROVE FieldBytes(values[i]) \in Seq(Byte)
  <2>1. values[i] \in StoredValues /\ EncodeStatus(schema[i], values[i]) = "Ok"
    OBVIOUS
  <2>2. Storable(values[i])
    BY <2>1, RowsTyped
  <2>3. ~TooLarge(values[i])
    BY <2>1 DEF EncodeStatus, TooLarge, IsNull
  <2>. QED
    BY <2>2, <2>3, FieldBytesTyped
<1>. HIDE DEF n
<1>3. fields = [i \in 1 .. n |-> FieldBytes(values[i])]
  BY <1>1
<1>. HIDE DEF fields
<1>4. fields \in Seq(Seq(Byte)) /\ Len(fields) = n
  <2>. DEFINE B == Seq(Byte)
  <2>1. \A i \in 1 .. n : FieldBytes(values[i]) \in B
    BY <1>2
  <2>. HIDE DEF B
  <2>2. fields \in Seq(B) /\ Len(fields) = n
    BY <1>1, <1>3, <2>1
  <2>. QED
    BY <2>2 DEF B
<1>. QED
  BY <1>3, <1>4 DEF fields, n

(* A row that Encode accepts is read back by Decode as it was, for every   *)
(* schema and row, every number of bytes in an integer and a length, and   *)
(* every set of texts.                                                     *)
THEOREM RowsReadBack ==
  ASSUME NEW schema \in Seq(Columns), NEW values \in Seq(StoredValues)
  PROVE  ReadsBack(schema, values)
<1>. DEFINE fields == [i \in DOMAIN values |-> FieldBytes(values[i])]
            n == Len(schema)
            record == FlattenSeq(fields)
<1>1. SUFFICES ASSUME Encode(schema, values).status = "Ok"
               PROVE  Decode(schema, Encode(schema, values).value) = ok_result(values)
  BY DEF ReadsBack
<1>2. /\ Len(values) = n /\ Encode(schema, values) = ok_result(record)
      /\ \A i \in 1 .. n : EncodeStatus(schema[i], values[i]) = "Ok"
  BY <1>1, EncodeExact
<1>3. /\ fields \in Seq(Seq(Byte)) /\ Len(fields) = n
      /\ \A i \in 1 .. n : fields[i] = FieldBytes(values[i])
  BY <1>2, FieldsTyped
<1>4. n \in Nat /\ \A i \in 1 .. n : schema[i] \in Columns /\ values[i] \in StoredValues
  BY <1>2
<1>. HIDE DEF fields, n
<1>5. PICK prefix : Concatenates(prefix, fields)
  BY <1>3, ConcatenationExists
<1>6. /\ prefix \in [0 .. n -> Seq(Byte)] /\ prefix[0] = << >>
      /\ \A i \in 1 .. n : prefix[i] = prefix[i - 1] \o fields[i]
  BY <1>3, <1>5 DEF Concatenates
<1>7. record = prefix[n] /\ record \in Seq(Byte)
  <2>1. record = prefix[n]
    BY <1>3, <1>5, Flattened
  <2>2. prefix[n] \in Seq(Byte)
    BY <1>4, <1>6
  <2>. QED
    BY <2>1, <2>2
<1>. HIDE DEF record
<1>8. \A i \in 1 .. n : Holds(record, Len(prefix[i - 1]), fields[i])
  BY <1>3, <1>5, <1>7, PartsHeld
<1>. DEFINE Read(i) == [values |-> SubSeq(values, 1, i), offset |-> Len(prefix[i])]
            f == [i \in 0 .. n |-> {Read(i)}]
<1>9. ASSUME NEW i \in 1 .. n
      PROVE  ReadOn(Read(i - 1), schema[i], record) = {Read(i)}
  <2>. DEFINE offset == Len(prefix[i - 1])
              value == values[i]
              bytes == FieldBytes(value)
  <2>1. i - 1 \in 0 .. n /\ i \in 0 .. n
    BY <1>4
  <2>2. prefix[i - 1] \in Seq(Byte) /\ offset \in Nat
    BY <1>6, <2>1
  <2>3. Column(schema[i]) /\ Storable(value)
    BY <1>4, RowsTyped
  <2>4. EncodeStatus(schema[i], value) = "Ok" /\ Holds(record, offset, bytes)
    BY <1>2, <1>3, <1>8
  <2>5. fields[i] = bytes /\ prefix[i] = prefix[i - 1] \o bytes
    BY <1>3, <1>6
  <2>. HIDE DEF offset, value
  <2>6. /\ bytes \in Seq(Byte)
        /\ DecodeField(schema[i], record, offset) = {Field(value, offset + Len(bytes))}
    BY <1>7, <2>2, <2>3, <2>4, FieldIsRead
  <2>. HIDE DEF bytes
  <2>7. Len(prefix[i]) = offset + Len(bytes)
    BY <2>2, <2>5, <2>6 DEF offset
  <2>8. Append(SubSeq(values, 1, i - 1), value) = SubSeq(values, 1, i)
    <3>1. /\ SubSeq(values, 1, i - 1) = [k \in 1 .. i - 1 |-> values[k]]
          /\ SubSeq(values, 1, i) = [k \in 1 .. i |-> values[k]]
      BY <1>2, <1>4
    <3>. QED
      BY <1>2, <1>4, <3>1 DEF value
  <2>9. Read(i - 1).offset = offset /\ Read(i - 1).values = SubSeq(values, 1, i - 1)
    BY DEF offset
  <2>. DEFINE x == Read(i - 1)
              y == Read(i)
  <2>10. y = [values |-> Append(x.values, value), offset |-> offset + Len(bytes)]
    BY <2>7, <2>8, <2>9
  <2>. HIDE DEF x, y
  <2>11. ReadOn(x, schema[i], record) =
           {[values |-> Append(x.values, value), offset |-> offset + Len(bytes)]}
    <3>1. x.offset = offset
      BY <2>9 DEF x
    <3>. DEFINE column == schema[i]
                end == offset + Len(bytes)
    <3>. HIDE DEF column, end
    <3>2. DecodeField(column, record, x.offset) = {Field(value, end)}
      BY <2>6, <3>1 DEF column, end
    <3>3. ReadOn(x, column, record) =
            {[values |-> Append(x.values, value), offset |-> end]}
      BY <3>2, ReadsOneOn
    <3>. QED
      BY <3>3 DEF column, end
  <2>. QED
    BY <2>10, <2>11 DEF x, y
<1>10. Read(0) = [values |-> << >>, offset |-> 0]
  <2>1. SubSeq(values, 1, 0) = << >> /\ Len(prefix[0]) = 0
    BY <1>6
  <2>. QED
    BY <2>1
<1>. HIDE DEF Read
<1>11. Reads(f, schema, record)
  <2>. DEFINE Rule(i) == IF i = 0 THEN {[values |-> << >>, offset |-> 0]}
                         ELSE UNION {ReadOn(read, schema[i], record) : read \in f[i - 1]}
  <2>1. f[0] = Rule(0)
    BY <1>4, <1>10
  <2>2. ASSUME NEW i \in 1 .. n PROVE f[i] = Rule(i)
    <3>1. i - 1 \in 0 .. n /\ i \in 0 .. n /\ i # 0
      BY <1>4
    <3>2. f[i - 1] = {Read(i - 1)} /\ f[i] = {Read(i)}
      BY <3>1
    <3>. HIDE DEF f
    <3>3. Rule(i) = ReadOn(Read(i - 1), schema[i], record)
      BY <3>1, <3>2
    <3>. QED
      BY <1>9, <3>2, <3>3
  <2>3. \A i \in 0 .. n : f[i] = Rule(i)
    <3>. HIDE DEF f, Rule
    <3>. QED
      BY <1>4, <2>1, <2>2
  <2>4. f = [i \in 0 .. n |-> f[i]]
    OBVIOUS
  <2>. HIDE DEF f
  <2>5. f = [i \in 0 .. n |-> Rule(i)]
    BY <2>3, <2>4
  <2>. QED
    BY <2>5 DEF Reads, n
<1>12. DecodeFields(schema, record) = {Read(n)}
  <2>1. DecodeFields(schema, record) = f[n]
    <3>. HIDE DEF f
    <3>. QED
      BY <1>11, ReadsUnique DEF n
  <2>. QED
    BY <1>4, <2>1
<1>13. Read(n).offset = Len(record) /\ Read(n).values = values
  <2>1. SubSeq(values, 1, n) = values
    BY <1>2
  <2>. QED
    BY <1>7, <2>1 DEF Read
<1>14. Decode(schema, record) = ok_result(values)
  <2>. DEFINE rows == {read \in DecodeFields(schema, record) : read.offset = Len(record)}
  <2>1. rows = {Read(n)}
    BY <1>12, <1>13
  <2>2. Decode(schema, record) =
          IF rows = {} THEN Failed("Corruption")
          ELSE ok_result((CHOOSE row \in rows : TRUE).values)
    BY DEF Decode
  <2>. HIDE DEF rows
  <2>3. (CHOOSE row \in rows : TRUE) = Read(n)
    BY <2>1
  <2>. QED
    BY <1>13, <2>1, <2>2, <2>3
<1>. QED
  BY <1>2, <1>14 DEF ok_result

(* What one more field adds, and that the record holds it.                 *)
LEMMA OneReadOn ==
  ASSUME NEW record \in Seq(Byte), Spelled(record), NEW column, Column(column),
         NEW read, read.offset \in Nat, NEW next \in ReadOn(read, column, record)
  PROVE  \E value : /\ Storable(value) /\ EncodeStatus(column, value) = "Ok"
                    /\ FieldBytes(value) \in Seq(Byte)
                    /\ Holds(record, read.offset, FieldBytes(value))
                    /\ next.values = Append(read.values, value)
                    /\ next.offset = read.offset + Len(FieldBytes(value))
<1>. DEFINE offset == read.offset
<1>1. PICK field \in DecodeField(column, record, offset) :
         next = [values |-> Append(read.values, field.value), offset |-> field.offset]
  BY DEF ReadOn
<1>2. next.values = Append(read.values, field.value) /\ next.offset = field.offset
  BY <1>1
<1>. HIDE DEF offset
<1>3. /\ Storable(field.value) /\ EncodeStatus(column, field.value) = "Ok"
      /\ FieldBytes(field.value) \in Seq(Byte)
      /\ Holds(record, offset, FieldBytes(field.value))
      /\ field.offset = offset + Len(FieldBytes(field.value))
  <2>1. offset \in Nat
    BY DEF offset
  <2>. QED
    BY <2>1, FieldRead
<1>. QED
  BY <1>2, <1>3 DEF offset

(* The recursion of DecodeFields has a solution: all values that it reads  *)
(* are storable.                                                           *)
LEMMA ReadsExist ==
  ASSUME NEW schema \in Seq(Columns), NEW record \in Seq(Byte), Spelled(record)
  PROVE  \E f : Reads(f, schema, record)
<1>. DEFINE n == Len(schema)
            R == [values : Seq(StoredValues), offset : Nat]
            S == SUBSET R
            start == {[values |-> << >>, offset |-> 0]}
            On(i, X) == UNION {ReadOn(read, schema[i], record) : read \in X}
            step == [i \in 1 .. n |-> [X \in S |-> On(i, X)]]
<1>1. n \in Nat /\ \A i \in 1 .. n : schema[i] \in Columns
  OBVIOUS
<1>2. start \in S
  OBVIOUS
<1>3. ASSUME NEW i \in 1 .. n, NEW X \in S PROVE On(i, X) \in S
  <2>1. ASSUME NEW read \in X, NEW next \in ReadOn(read, schema[i], record)
        PROVE  next \in R
    <3>1. read.values \in Seq(StoredValues) /\ read.offset \in Nat
      OBVIOUS
    <3>2. Column(schema[i])
      BY <1>1, RowsTyped
    <3>3. PICK value : /\ Storable(value) /\ FieldBytes(value) \in Seq(Byte)
                       /\ next.values = Append(read.values, value)
                       /\ next.offset = read.offset + Len(FieldBytes(value))
      BY <3>1, <3>2, OneReadOn
    <3>4. next = [values |-> next.values, offset |-> next.offset]
      BY DEF ReadOn
    <3>5. value \in StoredValues /\ next.offset \in Nat
      BY <3>1, <3>3, RowsTyped
    <3>6. next.values \in Seq(StoredValues)
      BY <3>1, <3>3, <3>5
    <3>. QED
      BY <3>4, <3>5, <3>6
  <2>. HIDE DEF R
  <2>. QED
    BY <2>1
<1>. HIDE DEF S, start, On, n
<1>4. step \in [1 .. n -> [S -> S]]
  BY <1>3
<1>5. PICK f : Solves(f, S, start, n, step)
  <2>. HIDE DEF step
  <2>. QED
    BY <1>1, <1>2, <1>4, Recursion
<1>6. f \in [0 .. n -> S] /\ f[0] = start
  BY <1>5 DEF Solves
<1>7. ASSUME NEW i \in 1 .. n PROVE f[i] = On(i, f[i - 1])
  <2>1. i - 1 \in 0 .. n
    BY <1>1
  <2>2. f[i - 1] \in S /\ f[i] = step[i][f[i - 1]]
    BY <1>5, <1>6, <2>1 DEF Solves
  <2>. QED
    BY <2>2
<1>8. f = [i \in 0 .. n |-> IF i = 0 THEN start ELSE On(i, f[i - 1])]
  <2>1. \A i \in 0 .. n : f[i] = IF i = 0 THEN start ELSE On(i, f[i - 1])
    BY <1>1, <1>6, <1>7
  <2>. QED
    BY <1>6, <2>1
<1>. QED
  BY <1>8 DEF Reads, On, start, n

(* A record that Decode accepts is the one that Encode makes of the row it *)
(* is read as: no two records are read as the same row, and no damaged     *)
(* record as a row that it is not the record of.                           *)
THEOREM RecordsAreCanonical ==
  ASSUME NEW schema \in Seq(Columns), NEW record \in Seq(Byte), Spelled(record)
  PROVE  Canonical(schema, record)
<1>. DEFINE n == Len(schema)
            row == Decode(schema, record)
            Fields(values) == [i \in DOMAIN values |-> FieldBytes(values[i])]
            Accepted(values, i) ==
              /\ values \in Seq(StoredValues) /\ Len(values) = i
              /\ \A j \in 1 .. i : /\ EncodeStatus(schema[j], values[j]) = "Ok"
                                   /\ FieldBytes(values[j]) \in Seq(Byte)
            Spells(g, read, i) ==
              /\ g \in [0 .. i -> Seq(Byte)] /\ g[0] = << >>
              /\ \A j \in 1 .. i : g[j] = g[j - 1] \o FieldBytes(read.values[j])
              /\ Holds(record, 0, g[i])
              /\ read.offset = Len(g[i])
            Sound(read, i) ==
              Accepted(read.values, i) /\ \E g : Spells(g, read, i)
<1>1. n \in Nat /\ Len(record) \in Nat /\ \A i \in 1 .. n : schema[i] \in Columns
  OBVIOUS
<1>2. PICK f : Reads(f, schema, record)
  BY ReadsExist
<1>3. DecodeFields(schema, record) = f[n]
  BY <1>2, ReadsUnique
<1>. DEFINE start == [values |-> << >>, offset |-> 0]
<1>4. f[0] = {start}
  BY <1>1, <1>2 DEF Reads
<1>5. \A i \in 1 .. n :
         f[i] = UNION {ReadOn(read, schema[i], record) : read \in f[i - 1]}
  <2>. DEFINE On(i, X) == UNION {ReadOn(read, schema[i], record) : read \in X}
              first == {start}
  <2>1. \A i \in 0 .. n : f[i] = IF i = 0 THEN first ELSE On(i, f[i - 1])
    BY <1>2 DEF Reads
  <2>2. \A i \in 1 .. n : i \in 0 .. n /\ i # 0
    BY <1>1
  <2>. HIDE DEF On, first, n
  <2>3. \A i \in 1 .. n : f[i] = On(i, f[i - 1])
    BY <2>1, <2>2
  <2>. QED
    BY <2>3 DEF On
<1>. HIDE DEF n
<1>6. Sound(start, 0)
  <2>. DEFINE g == [i \in 0 .. 0 |-> << >>]
  <2>1. g \in [0 .. 0 -> Seq(Byte)] /\ g[0] = << >>
    OBVIOUS
  <2>2. Holds(record, 0, << >>) /\ Len(<< >>) = 0
    BY <1>1 DEF Holds
  <2>3. start.values = << >> /\ start.offset = 0
    OBVIOUS
  <2>. HIDE DEF g, start
  <2>4. Spells(g, start, 0)
    BY <2>1, <2>2, <2>3
  <2>5. Accepted(start.values, 0)
    BY <2>3
  <2>. HIDE DEF Spells, Accepted
  <2>. QED
    BY <2>4, <2>5
<1>. HIDE DEF start
<1>7. ASSUME NEW i \in 1 .. n, NEW read, Sound(read, i - 1),
             NEW next \in ReadOn(read, schema[i], record)
      PROVE  Sound(next, i)
  <2>1. PICK g : Spells(g, read, i - 1)
    BY <1>7
  <2>. DEFINE before == g[i - 1]
  <2>2. i - 1 \in Nat /\ i \in Nat /\ i - 1 \in 0 .. i - 1
    BY <1>1
  <2>3. before \in Seq(Byte) /\ Len(before) \in Nat
    BY <2>1, <2>2
  <2>4. read.offset = Len(before) /\ Holds(record, 0, before)
    BY <2>1
  <2>5. Column(schema[i]) /\ read.offset \in Nat
    BY <1>1, <2>3, <2>4, RowsTyped
  <2>6. PICK value :
           /\ Storable(value) /\ EncodeStatus(schema[i], value) = "Ok"
           /\ FieldBytes(value) \in Seq(Byte)
           /\ Holds(record, read.offset, FieldBytes(value))
           /\ next.values = Append(read.values, value)
           /\ next.offset = read.offset + Len(FieldBytes(value))
    <3>. HIDE DEF Sound, Spells, Accepted, before
    <3>. QED
      BY <2>5, OneReadOn
  <2>. DEFINE bytes == FieldBytes(value)
              h == [j \in 0 .. i |-> IF j = i THEN before \o bytes ELSE g[j]]
  <2>7. /\ bytes \in Seq(Byte) /\ Holds(record, Len(before), bytes)
        /\ next.offset = Len(before) + Len(bytes)
    BY <2>4, <2>6
  <2>. HIDE DEF bytes
  <2>8. Accepted(next.values, i)
    <3>1. /\ read.values \in Seq(StoredValues) /\ Len(read.values) = i - 1
          /\ \A j \in 1 .. i - 1 : /\ EncodeStatus(schema[j], read.values[j]) = "Ok"
                                   /\ FieldBytes(read.values[j]) \in Seq(Byte)
      BY <1>7
    <3>2. value \in StoredValues
      BY <2>6, RowsTyped
    <3>3. /\ next.values \in Seq(StoredValues) /\ Len(next.values) = i
          /\ next.values[i] = value
          /\ \A j \in 1 .. i - 1 : next.values[j] = read.values[j]
      BY <2>2, <2>6, <3>1, <3>2
    <3>4. ASSUME NEW j \in 1 .. i
          PROVE  /\ EncodeStatus(schema[j], next.values[j]) = "Ok"
                 /\ FieldBytes(next.values[j]) \in Seq(Byte)
      <4>1. CASE j = i
        BY <2>6, <2>7, <3>3, <4>1 DEF bytes
      <4>2. CASE j # i
        <5>1. j \in 1 .. i - 1
          BY <2>2, <4>2
        <5>. QED
          BY <3>1, <3>3, <5>1
      <4>. QED
        BY <4>1, <4>2
    <3>. QED
      BY <3>3, <3>4
  <2>9. Spells(h, next, i)
    <3>1. /\ g \in [0 .. i - 1 -> Seq(Byte)] /\ g[0] = << >>
          /\ \A j \in 1 .. i - 1 : g[j] = g[j - 1] \o FieldBytes(read.values[j])
      BY <2>1
    <3>. HIDE DEF before
    <3>2. before \o bytes \in Seq(Byte) /\ Len(before \o bytes) = Len(before) + Len(bytes)
      BY <2>3, <2>7
    <3>3. h \in [0 .. i -> Seq(Byte)] /\ h[i] = before \o bytes
      BY <2>2, <3>1, <3>2
    <3>4. \A j \in 0 .. i - 1 : h[j] = g[j]
      BY <2>2
    <3>. HIDE DEF h
    <3>5. h[0] = << >>
      BY <2>2, <3>1, <3>4
    <3>6. ASSUME NEW j \in 1 .. i
          PROVE  h[j] = h[j - 1] \o FieldBytes(next.values[j])
      <4>1. CASE j = i
        <5>1. h[i - 1] = before
          BY <2>2, <3>4 DEF before
        <5>2. next.values[i] = value
          BY <1>7, <2>2, <2>6
        <5>. QED
          BY <3>3, <4>1, <5>1, <5>2 DEF bytes
      <4>2. CASE j # i
        <5>1. j \in 1 .. i - 1 /\ j \in 0 .. i - 1 /\ j - 1 \in 0 .. i - 1
          BY <2>2, <4>2
        <5>2. next.values[j] = read.values[j]
          BY <1>7, <2>2, <2>6, <5>1
        <5>. QED
          BY <3>1, <3>4, <5>1, <5>2
      <4>. QED
        BY <4>1, <4>2
    <3>7. Holds(record, 0, before \o bytes)
      <4>. DEFINE z == 0
      <4>1. z \in Nat /\ z + Len(before) = Len(before)
        BY <2>3
      <4>2. Holds(record, z, before)
        BY <2>4
      <4>. HIDE DEF z
      <4>3. Holds(record, z, before \o bytes)
        BY <2>3, <2>7, <4>1, <4>2, HoldsConcat
      <4>. QED
        BY <4>3 DEF z
    <3>8. next.offset = Len(h[i])
      BY <2>7, <2>6, <3>2, <3>3
    <3>. QED
      BY <3>3, <3>5, <3>6, <3>7, <3>8
  <2>. HIDE DEF Accepted, Spells, h
  <2>. QED
    BY <2>8, <2>9
<1>. DEFINE P == {i \in 0 .. n : \A read \in f[i] : Sound(read, i)}
<1>8. \A read \in f[n] : Sound(read, n)
  <2>. HIDE DEF Sound
  <2>1. 0 \in P
    BY <1>1, <1>4, <1>6
  <2>2. ASSUME NEW i \in 1 .. n, i - 1 \in P PROVE i \in P
    <3>1. \A read \in f[i - 1] : Sound(read, i - 1)
      BY <2>2
    <3>2. ASSUME NEW next \in f[i] PROVE Sound(next, i)
      <4>1. PICK read \in f[i - 1] : next \in ReadOn(read, schema[i], record)
        BY <1>5
      <4>. QED
        BY <1>7, <3>1, <4>1
    <3>. QED
      BY <3>2
  <2>. HIDE DEF P
  <2>3. \A i \in 0 .. n : i \in P
    BY <1>1, <2>1, <2>2, UpTo
  <2>4. n \in P
    BY <1>1, <2>3
  <2>. QED
    BY <2>4 DEF P
<1>9. ASSUME row.status # "Corruption" PROVE Encode(schema, row.value) = ok_result(record)
  <2>. DEFINE rows == {read \in f[n] : read.offset = Len(record)}
              read == CHOOSE r \in rows : TRUE
              values == read.values
              fields == Fields(values)
  <2>1. row = IF rows = {} THEN Failed("Corruption") ELSE ok_result(read.values)
    BY <1>3 DEF Decode
  <2>2. rows # {} /\ row.value = values
    BY <1>9, <2>1 DEF Failed, ok_result
  <2>3. read \in f[n] /\ read.offset = Len(record)
    BY <2>2
  <2>. HIDE DEF read, rows
  <2>4. Accepted(values, n)
    BY <1>8, <2>3
  <2>5. PICK g : Spells(g, read, n)
    BY <1>8, <2>3
  <2>. HIDE DEF values
  <2>6. /\ values \in Seq(StoredValues) /\ Len(values) = n
        /\ \A i \in 1 .. n : EncodeStatus(schema[i], values[i]) = "Ok"
    BY <2>4
  <2>7. /\ fields \in Seq(Seq(Byte)) /\ Len(fields) = n
        /\ \A i \in 1 .. n : fields[i] = FieldBytes(values[i])
    BY <2>6, FieldsTyped DEF n
  <2>8. Encode(schema, values) = ok_result(FlattenSeq(fields))
    BY <2>6, EncodeExact DEF n
  <2>. HIDE DEF fields
  <2>9. Concatenates(g, fields)
    BY <2>5, <2>7 DEF Concatenates, values
  <2>10. FlattenSeq(fields) = g[n]
    BY <2>7, <2>9, Flattened
  <2>11. g[n] \in Seq(Byte) /\ Len(g[n]) = Len(record) /\ Holds(record, 0, g[n])
    BY <1>1, <2>3, <2>5
  <2>12. g[n] = record
    <3>. DEFINE b == g[n]
    <3>1. b \in Seq(Byte) /\ Len(b) = Len(record) /\ Holds(record, 0, b)
      BY <2>11
    <3>. HIDE DEF b
    <3>2. \A k \in 1 .. Len(record) : record[0 + k] = b[k]
      BY <3>1 DEF Holds
    <3>3. \A k \in 1 .. Len(record) : record[k] = b[k]
      BY <1>1, <3>2
    <3>4. b = record
      BY <3>1, <3>3
    <3>. QED
      BY <3>4 DEF b
  <2>. QED
    BY <2>2, <2>8, <2>10, <2>12
<1>. QED
  BY <1>9 DEF Canonical
=============================================================================
