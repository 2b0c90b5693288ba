------------------------- MODULE CheckedArithmetic --------------------------
(***************************************************************************)
(* The checked 64-bit integer arithmetic of common/value_utils.hpp, for a  *)
(* two's complement word of any size: kMax is its largest integer.  Signed *)
(* overflow is undefined in C++, so each function has to find out that a   *)
(* result does not fit without computing it.                               *)
(***************************************************************************)
EXTENDS Integers

CONSTANT kMax

ASSUME kMaxAssumption == kMax \in Nat \ {0}

kMin == -kMax - 1

Word == kMin .. kMax

ok_result(value) == [status |-> "Ok", value |-> value]

error_result == [status |-> "ExecutionError", value |-> 0]

CheckedIntegerNegate(value) ==
  IF value = kMin THEN error_result ELSE ok_result(-value)

CheckedIntegerAdd(left, right) ==
  IF \/ right > 0 /\ left > kMax - right
     \/ right < 0 /\ left < kMin - right
  THEN error_result
  ELSE ok_result(left + right)

CheckedIntegerSubtract(left, right) ==
  IF \/ right > 0 /\ left < kMin + right
     \/ right < 0 /\ left > kMax + right
  THEN error_result
  ELSE ok_result(left - right)

(* Division in C++ truncates toward zero.                                  *)
Magnitude(value) == IF value < 0 THEN -value ELSE value

Quotient(left, right) ==
  LET quotient == Magnitude(left) \div Magnitude(right)
  IN IF (left < 0) = (right < 0) THEN quotient ELSE -quotient

(* The integers to which `*' is applied: neither is 0 or -1.               *)
MultiplyOverflows(left, right) ==
  IF left > 0
  THEN \/ right > 0 /\ left > Quotient(kMax, right)
       \/ right < 0 /\ right < Quotient(kMin, left)
  ELSE \/ right > 0 /\ left < Quotient(kMin, right)
       \/ right < 0 /\ left < Quotient(kMax, right)

CheckedIntegerMultiply(left, right) ==
  IF left = 0 \/ right = 0 THEN ok_result(0)
  ELSE IF left = -1 THEN CheckedIntegerNegate(right)
  ELSE IF right = -1 THEN CheckedIntegerNegate(left)
  ELSE IF MultiplyOverflows(left, right) THEN error_result
  ELSE ok_result(left * right)

CheckedIntegerDivide(left, right) ==
  IF right = 0 THEN error_result
  ELSE IF left = kMin /\ right = -1 THEN error_result
  ELSE ok_result(Quotient(left, right))

-----------------------------------------------------------------------------
(* What the functions promise: the mathematical result when it is an       *)
(* integer of the word, and an error otherwise.                            *)
Fitting(result) == IF result \in Word THEN ok_result(result) ELSE error_result

(* The checked functions of value_utils.hpp return exactly the integer     *)
(* that the operation has in mathematics, or an error when the word has no *)
(* room for it, and never overflow on the way; for every pair of operands. *)
ArithmeticExact ==
  \A left, right \in Word :
    /\ CheckedIntegerNegate(left) = Fitting(-left)
    /\ CheckedIntegerAdd(left, right) = Fitting(left + right)
    /\ CheckedIntegerSubtract(left, right) = Fitting(left - right)
    /\ CheckedIntegerMultiply(left, right) = Fitting(left * right)
    /\ right # 0 =>
         CheckedIntegerDivide(left, right) = Fitting(Quotient(left, right))
=============================================================================
