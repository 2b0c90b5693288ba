---------------------------- MODULE Expressions -----------------------------
(***************************************************************************)
(* Bound expressions: how the binder types them (default_binder.cpp), the  *)
(* evaluator computes them (expression_evaluator.cpp) and the optimizer    *)
(* folds them (default_optimizer.cpp).                                     *)
(*                                                                         *)
(* An expression is a tree of records; its type is the one the binder gave *)
(* it.  A folding that may decline to fold returns a set of at most one    *)
(* value.                                                                  *)
(***************************************************************************)
EXTENDS SqlValue

Arithmetic  == {"Add", "Subtract", "Multiply", "Divide"}
Equality    == {"Equal", "NotEqual"}
Ordering    == {"Less", "LessEqual", "Greater", "GreaterEqual"}
Logical     == {"And", "Or"}
UnaryOperators  == {"Plus", "Minus", "Not"}
BinaryOperators == Arithmetic \cup Equality \cup Ordering \cup Logical

MakeBoundLiteral(value) ==
  [kind |-> "Literal", type |-> value.type, value |-> value]
MakeBoundColumn(id, type) ==
  [kind |-> "Column", type |-> type, column_id |-> id]
BoundUnaryExpression(op, type, operand) ==
  [kind |-> "Unary", type |-> type, op |-> op, operand |-> operand]
BoundBinaryExpression(op, type, left, right) ==
  [kind |-> "Binary", type |-> type, op |-> op, left |-> left, right |-> right]

-----------------------------------------------------------------------------
(* Binding.  Each returns a status and the bound expression.               *)

is_boolean_integer_literal(e) ==
  e.kind = "Literal" /\ e.type = "Integer" /\ e.value.of \in {0, 1}

equality_comparable(left, right) ==
  \/ left.type = "Null" \/ right.type = "Null"
  \/ left.type = right.type
  \/ left.type = "Boolean" /\ is_boolean_integer_literal(right)
  \/ right.type = "Boolean" /\ is_boolean_integer_literal(left)

ordering_comparable(left, right) ==
  left = right /\ left \in {"Integer", "Text"}

bind_unary(op, operand) ==
  LET type == IF op = "Not" THEN "Boolean" ELSE "Integer"
  IN IF operand.type # type THEN Failed("TypeMismatch")
     ELSE ok_result(BoundUnaryExpression(op, type, operand))

BinaryOperandsMatch(op, left, right) ==
  CASE op \in Arithmetic -> left.type = "Integer" /\ right.type = "Integer"
    [] op \in Logical    -> left.type = "Boolean" /\ right.type = "Boolean"
    [] op \in Equality   -> equality_comparable(left, right)
    [] op \in Ordering   -> ordering_comparable(left.type, right.type)

bind_binary(op, left, right) ==
  LET type == IF op \in Arithmetic THEN "Integer" ELSE "Boolean"
  IN IF ~BinaryOperandsMatch(op, left, right) THEN Failed("TypeMismatch")
     ELSE ok_result(BoundBinaryExpression(op, type, left, right))

(* Mutant: the literal 0 or 1 is accepted for a BOOLEAN column as it is.   *)
coerce_to_column_AsIs(e, column) ==
  IF e.type = "Null"
  THEN IF column.nullable THEN ok_result(e) ELSE Failed("TypeMismatch")
  ELSE IF e.type = column.type THEN ok_result(e)
  ELSE IF column.type = "Boolean" /\ is_boolean_integer_literal(e)
  THEN ok_result(e)
  ELSE Failed("TypeMismatch")

coerce_to_column(e, column) ==
  IF e.type = "Null"
  THEN IF column.nullable THEN ok_result(e) ELSE Failed("TypeMismatch")
  ELSE IF e.type = column.type THEN ok_result(e)
  ELSE IF column.type = "Boolean" /\ is_boolean_integer_literal(e)
  THEN ok_result(MakeBoundLiteral(BooleanValue(e.value.of = 1)))
  ELSE Failed("TypeMismatch")

-----------------------------------------------------------------------------
(* Comparison and arithmetic on values, shared by evaluator and optimizer. *)

CompareValues(left, right) ==
  IF IsNull(left) \/ IsNull(right) THEN Failed("ExecutionError")
  ELSE IF (left.type = "Text") # (right.type = "Text") THEN Failed("TypeMismatch")
  ELSE ok_result(IF left.of < right.of THEN -1
                 ELSE IF right.of < left.of THEN 1 ELSE 0)

(* What an operator makes of the three-way comparison.                     *)
Compares(op, comparison) ==
  CASE op = "Equal"        -> comparison = 0
    [] op = "NotEqual"     -> comparison # 0
    [] op = "Less"         -> comparison < 0
    [] op = "LessEqual"    -> comparison <= 0
    [] op = "Greater"      -> comparison > 0
    [] op = "GreaterEqual" -> comparison >= 0

CheckedInteger(op, left, right) ==
  CASE op = "Add"      -> CheckedIntegerAdd(left, right)
    [] op = "Subtract" -> CheckedIntegerSubtract(left, right)
    [] op = "Multiply" -> CheckedIntegerMultiply(left, right)
    [] op = "Divide"   -> CheckedIntegerDivide(left, right)

IntegerResult(result) ==
  IF result.status = "Ok" THEN ok_result(IntegerValue(result.value))
  ELSE Failed(result.status)

-----------------------------------------------------------------------------
(* Evaluation of an expression over a row: a status and a value.           *)

evaluate_unary(op, operand) ==
  CASE op = "Not" ->
         IF operand.type = "Boolean" THEN ok_result(BooleanValue(operand.of = 0))
         ELSE Failed("TypeMismatch")
    [] op \in {"Plus", "Minus"} ->
         IF operand.type # "Integer" THEN Failed("TypeMismatch")
         ELSE IF op = "Plus" THEN ok_result(operand)
         ELSE IntegerResult(CheckedIntegerNegate(operand.of))

evaluate_binary(op, left, right) ==
  IF op \in Arithmetic
  THEN IF left.type # "Integer" \/ right.type # "Integer"
       THEN Failed("TypeMismatch")
       ELSE IntegerResult(CheckedInteger(op, left.of, right.of))
  ELSE IF op \in Equality /\ (IsNull(left) \/ IsNull(right))
  THEN ok_result(BooleanValue(FALSE))
  ELSE LET comparison == CompareValues(left, right)
       IN IF comparison.status # "Ok" THEN Failed(comparison.status)
          ELSE ok_result(BooleanValue(Compares(op, comparison.value)))

(* The value of the left operand that makes the right one irrelevant.      *)
Decides(op, left) == left = BooleanValue(op = "Or")

RECURSIVE Evaluate(_, _)

(* Mutant: both operands are evaluated before the left one is looked at.   *)
evaluate_logical_Eager(e, left, row) ==
  LET right == Evaluate(e.right, row)
  IN IF left.type # "Boolean" THEN Failed("TypeMismatch")
     ELSE IF right.status # "Ok" THEN right
     ELSE IF Decides(e.op, left) THEN ok_result(left)
     ELSE IF right.value.type # "Boolean" THEN Failed("TypeMismatch")
     ELSE right

(* AND and OR: the right operand is evaluated when the left one leaves the *)
(* result open.                                                            *)
evaluate_logical(e, left, row) ==
  LET right == Evaluate(e.right, row)
  IN IF left.type # "Boolean" THEN Failed("TypeMismatch")
     ELSE IF Decides(e.op, left) THEN ok_result(left)
     ELSE IF right.status # "Ok" THEN right
     ELSE IF right.value.type # "Boolean" THEN Failed("TypeMismatch")
     ELSE right

EvaluateUnary(e, row) ==
  LET operand == Evaluate(e.operand, row)
  IN IF operand.status # "Ok" THEN operand
     ELSE evaluate_unary(e.op, operand.value)

EvaluateBinary(e, row) ==
  LET left  == Evaluate(e.left, row)
      right == Evaluate(e.right, row)
  IN IF left.status # "Ok" THEN left
     ELSE IF e.op \in Logical THEN evaluate_logical(e, left.value, row)
     ELSE IF right.status # "Ok" THEN right
     ELSE evaluate_binary(e.op, left.value, right.value)

Evaluate(e, row) ==
  CASE e.kind = "Literal" -> ok_result(e.value)
    [] e.kind = "Column"  -> IF e.column_id \in DOMAIN row
                             THEN ok_result(row[e.column_id])
                             ELSE Failed("ExecutionError")
    [] e.kind = "Unary"   -> EvaluateUnary(e, row)
    [] e.kind = "Binary"  -> EvaluateBinary(e, row)

-----------------------------------------------------------------------------
(* Constant folding.                                                       *)

Folded(result) == IF result.status = "Ok" THEN {IntegerValue(result.value)} ELSE {}

fold_unary(op, operand) ==
  CASE op = "Not" ->
         IF operand.type = "Boolean" THEN {BooleanValue(operand.of = 0)} ELSE {}
    [] op = "Plus" ->
         IF operand.type = "Integer" THEN {operand} ELSE {}
    [] op = "Minus" ->
         IF operand.type = "Integer" THEN Folded(CheckedIntegerNegate(operand.of))
         ELSE {}

fold_arithmetic(op, left, right) ==
  IF op \in Arithmetic /\ left.type = "Integer" /\ right.type = "Integer"
  THEN Folded(CheckedInteger(op, left.of, right.of))
  ELSE {}

(* Mutant: a comparison with NULL is folded to NULL, as in standard SQL.   *)
fold_comparison_Null(op, left, right) ==
  IF op \notin Equality \cup Ordering THEN {}
  ELSE IF IsNull(left) \/ IsNull(right) THEN {NullValue}
  ELSE LET comparison == CompareValues(left, right)
       IN IF comparison.status # "Ok" THEN {}
          ELSE {BooleanValue(Compares(op, comparison.value))}

fold_comparison(op, left, right) ==
  IF op \notin Equality \cup Ordering THEN {}
  ELSE IF op \in Equality /\ (IsNull(left) \/ IsNull(right))
  THEN {BooleanValue(FALSE)}
  ELSE LET comparison == CompareValues(left, right)
       IN IF comparison.status # "Ok" THEN {}
          ELSE {BooleanValue(Compares(op, comparison.value))}

fold_boolean(op, left, right) ==
  IF left.type # "Boolean" \/ right.type # "Boolean" \/ op \notin Logical THEN {}
  ELSE {BooleanValue(IF op = "And" THEN IsTrue(left) /\ IsTrue(right)
                                   ELSE IsTrue(left) \/ IsTrue(right))}

(* For an operator at most one of the three folds.                         *)
fold_binary(op, left, right) ==
  fold_arithmetic(op, left, right) \cup fold_comparison(op, left, right)
    \cup fold_boolean(op, left, right)

FoldCandidates(e) ==
  CASE e.kind = "Unary" ->
         IF e.operand.kind = "Literal" THEN fold_unary(e.op, e.operand.value) ELSE {}
    [] e.kind = "Binary" ->
         IF e.left.kind = "Literal" /\ e.right.kind = "Literal"
         THEN fold_binary(e.op, e.left.value, e.right.value)
         ELSE {}
    [] OTHER -> {}

(* Mutant: AND with a right operand FALSE becomes FALSE, whatever the left *)
(* operand would do when it is evaluated.                                  *)
fold_current_expression_Absorb(e) ==
  IF e.kind = "Binary" /\ e.op = "And"
     /\ e.right = MakeBoundLiteral(BooleanValue(FALSE))
  THEN e.right
  ELSE IF FoldCandidates(e) = {} THEN e
  ELSE MakeBoundLiteral(CHOOSE value \in FoldCandidates(e) : TRUE)

fold_current_expression(e) ==
  IF FoldCandidates(e) = {} THEN e
  ELSE MakeBoundLiteral(CHOOSE value \in FoldCandidates(e) : TRUE)

RECURSIVE fold_expression(_)

(* TransformBoundExpression with fold_current_expression: bottom up.       *)
fold_expression(e) ==
  CASE e.kind = "Unary" ->
         fold_current_expression([e EXCEPT !.operand = fold_expression(@)])
    [] e.kind = "Binary" ->
         fold_current_expression([e EXCEPT !.left = fold_expression(@),
                                           !.right = fold_expression(@)])
    [] OTHER -> fold_current_expression(e)
=============================================================================
