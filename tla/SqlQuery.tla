------------------------------ MODULE SqlQuery ------------------------------
(***************************************************************************)
(* One SELECT or INSERT at a time, from its expressions to its rows: the   *)
(* binder (default_binder.cpp) visits the expressions of the statement     *)
(* operands first; the planners (default_logical_planner.cpp,              *)
(* default_physical_planner.cpp) build the plan, the optimizer             *)
(* (default_optimizer.cpp) rewrites it, and the executor                   *)
(* (default_executor.cpp) runs it over the records the storage returns.    *)
(*                                                                         *)
(* SqlEngine models how statements share catalog and storage and takes     *)
(* what expressions do to a row as given; here one table is fixed, the     *)
(* transaction is active and writable, and the expressions are what is     *)
(* modelled.                                                               *)
(***************************************************************************)
EXTENDS Expressions, TupleCodec, FiniteSets

CONSTANTS Schema,      \* the table's columns: a sequence of [type, nullable]
          Literals,    \* the values that literals of a statement denote
          Storages,    \* what storage answers: [open, records, access]
          NoPlan, NoOutcome,
          MaxNodes     \* bound of the model: expression nodes in a statement

ASSUME SchemaAssumption ==
  \A i \in DOMAIN Schema : Schema[i].type \in {"Integer", "Text", "Boolean"}

(* An answer of the storage is the status of OpenHeap, the records that a  *)
(* scan returns, and the status with which the heap ends the scan after    *)
(* them or takes a record.                                                 *)
NoAnswer == [open |-> "Ok", records |-> << >>, access |-> "Ok"]

VARIABLES statement,  \* "SelectFrom", "Select" (no FROM) or "Insert"
          stack,      \* bound operands of the expression being bound
          bound,      \* the expressions bound so far, one per projection or value
          plan,       \* the logical plan before it is optimized
          storage,    \* what the storage answers to the statement
          outcome     \* what the statement returned

vars == <<statement, stack, bound, plan, storage, outcome>>

Statements == {"SelectFrom", "Select", "Insert"}

Init ==
  /\ statement \in Statements
  /\ stack = << >> /\ bound = << >>
  /\ plan = NoPlan
  /\ storage = NoAnswer
  /\ outcome = NoOutcome

-----------------------------------------------------------------------------
(* Logical plans.                                                          *)

LogicalSeqScan == [kind |-> "SeqScan"]
LogicalValues(rows) == [kind |-> "Values", rows |-> rows]
LogicalFilter(predicate, child) ==
  [kind |-> "Filter", predicate |-> predicate, child |-> child]
LogicalProjection(projections, child) ==
  [kind |-> "Projection", projections |-> projections, child |-> child]
LogicalInsert(child) == [kind |-> "Insert", child |-> child]

(* `where' is empty or holds the predicate.  Without FROM the planner      *)
(* refuses column references, of which BindColumn has left none.           *)
plan_select(projections, where) ==
  LET source == IF statement = "SelectFrom" THEN LogicalSeqScan
                ELSE LogicalValues(<< << >> >>)
  IN LogicalProjection(projections,
                       IF where = << >> THEN source
                       ELSE LogicalFilter(where[1], source))

plan_insert(values) == LogicalInsert(LogicalValues(<<values>>))

MapExpressions(Op(_), expressions) ==
  [i \in DOMAIN expressions |-> Op(expressions[i])]

RECURSIVE fold_plan(_)

fold_plan(p) ==
  CASE p.kind = "Filter" ->
         LogicalFilter(fold_expression(p.predicate), fold_plan(p.child))
    [] p.kind = "Projection" ->
         LogicalProjection(MapExpressions(fold_expression, p.projections),
                           fold_plan(p.child))
    [] p.kind = "Values" ->
         LogicalValues([i \in DOMAIN p.rows |->
                          MapExpressions(fold_expression, p.rows[i])])
    [] p.kind = "Insert" -> LogicalInsert(fold_plan(p.child))
    [] p.kind = "SeqScan" -> p

RECURSIVE remove_constant_filters(_)

remove_constant_filters(p) ==
  LET optimized == IF p.kind \in {"Values", "SeqScan"} THEN p
                   ELSE [p EXCEPT !.child = remove_constant_filters(@)]
  IN IF \/ p.kind # "Filter"
        \/ p.predicate.kind # "Literal"
        \/ p.predicate.value.type # "Boolean"
     THEN optimized
     ELSE IF IsTrue(p.predicate.value) THEN optimized.child
     ELSE LogicalValues(<< >>)

Optimize(p) == remove_constant_filters(fold_plan(p))

-----------------------------------------------------------------------------
(* Physical planning and execution.  A result is its status, the types of  *)
(* its columns and its rows; those of an INSERT are the records it stores. *)

Result(status, types, rows) ==
  [status |-> status, types |-> types, rows |-> rows]

ErrorResult(status) == Result(status, << >>, << >>)

RECURSIVE plan_node(_)

(* The only check of the physical planner that a statement can fail.       *)
plan_node(p) ==
  IF p.kind = "Filter" /\ p.predicate.type # "Boolean" THEN "TypeMismatch"
  ELSE IF p.kind \in {"Values", "SeqScan"} THEN "Ok"
  ELSE plan_node(p.child)

(* The status of the first of the results that failed.                     *)
FirstError(results) ==
  LET failed == {i \in DOMAIN results : results[i].status # "Ok"}
  IN IF failed = {} THEN "Ok"
     ELSE results[CHOOSE i \in failed : \A j \in failed : i <= j].status

Values(results) == [i \in DOMAIN results |-> results[i].value]

EvaluateExpressions(expressions, row) ==
  LET results == MapExpressions(LAMBDA e : Evaluate(e, row), expressions)
  IN [status |-> FirstError(results),
      value  |-> Values(results)]

Types(expressions) == [i \in DOMAIN expressions |-> expressions[i].type]

execute_projection(p, input) ==
  LET results == [i \in DOMAIN input.rows |->
                    EvaluateExpressions(p.projections, input.rows[i])]
  IN IF FirstError(results) # "Ok" THEN ErrorResult(FirstError(results))
     ELSE Result("Ok", Types(p.projections), Values(results))

execute_filter(p, input) ==
  LET Keep(row) == Evaluate(p.predicate, row)
      results == [i \in DOMAIN input.rows |->
                    LET kept == Keep(input.rows[i])
                    IN IF kept.status = "Ok" /\ kept.value.type # "Boolean"
                       THEN Failed("TypeMismatch") ELSE kept]
  IN IF FirstError(results) # "Ok" THEN ErrorResult(FirstError(results))
     ELSE Result("Ok", input.types,
                 SelectSeq(input.rows, LAMBDA row : IsTrue(Keep(row).value)))

execute_values(p) ==
  LET results == [i \in DOMAIN p.rows |-> EvaluateExpressions(p.rows[i], << >>)]
  IN IF FirstError(results) # "Ok" THEN ErrorResult(FirstError(results))
     ELSE Result("Ok", << >>, Values(results))

DecodeAll(records) ==
  [i \in DOMAIN records |-> Decode(Schema, records[i])]

(* What a scan makes of each answer of the storage.                        *)
Scans ==
  [s \in Storages |->
     LET results == DecodeAll(s.records)
     IN IF s.open # "Ok" THEN ErrorResult(s.open)
        ELSE IF FirstError(results) # "Ok" THEN ErrorResult(FirstError(results))
        ELSE IF s.access # "Ok" THEN ErrorResult(s.access)
        ELSE Result("Ok", Types(Schema), Values(results))]

execute_seq_scan(s) == Scans[s]

(* The heap is opened, then each row is encoded and handed to it.          *)
execute_insert(input, s) ==
  LET results == [i \in DOMAIN input.rows |->
                    LET tuple == Encode(Schema, input.rows[i])
                    IN IF tuple.status = "Ok" /\ s.access # "Ok"
                       THEN Failed(s.access) ELSE tuple]
  IN IF s.open # "Ok" THEN ErrorResult(s.open)
     ELSE IF FirstError(results) # "Ok" THEN ErrorResult(FirstError(results))
     ELSE Result("Ok", << >>, Values(results))

RECURSIVE execute_plan(_, _)

execute_plan(p, s) ==
  LET input == execute_plan(p.child, s)
  IN CASE p.kind = "Values"  -> execute_values(p)
       [] p.kind = "SeqScan" -> execute_seq_scan(s)
       [] OTHER ->
            IF input.status # "Ok" THEN input
            ELSE CASE p.kind = "Insert"     -> execute_insert(input, s)
                   [] p.kind = "Projection" -> execute_projection(p, input)
                   [] p.kind = "Filter"     -> execute_filter(p, input)

Execute(p, s) ==
  IF plan_node(p) # "Ok" THEN ErrorResult(plan_node(p)) ELSE execute_plan(p, s)

-----------------------------------------------------------------------------
(* Binding, one expression node after the other, operands first.           *)

RECURSIVE Nodes(_)

Nodes(e) ==
  CASE e.kind = "Unary"  -> 1 + Nodes(e.operand)
    [] e.kind = "Binary" -> 1 + Nodes(e.left) + Nodes(e.right)
    [] OTHER             -> 1

RECURSIVE NodesOf(_)

NodesOf(expressions) ==
  IF expressions = << >> THEN 0
  ELSE Nodes(Head(expressions)) + NodesOf(Tail(expressions))

(* The bound leaves room for one more node and for the nodes without which *)
(* the statement could not end: binary operators for all but one of the    *)
(* then `depth' operands, and the other values of an INSERT.               *)
Room(depth) ==
  LET values == IF statement = "Insert" THEN Len(Schema) - Len(bound) - 1 ELSE 0
  IN NodesOf(stack) + NodesOf(bound) + depth + values <= MaxNodes

(* An INSERT has as many values as the table has columns.                  *)
Binding == outcome = NoOutcome
Operand == Binding /\ (statement = "Insert" => Len(bound) < Len(Schema))

(* The statement ends with an error before there is a plan.                *)
Reject(status) ==
  /\ outcome' = ErrorResult(status)
  /\ stack' = << >> /\ bound' = << >>
  /\ UNCHANGED <<statement, plan, storage>>

Push(rest, e) ==
  /\ stack' = Append(rest, e)
  /\ UNCHANGED <<statement, bound, plan, storage, outcome>>

Top(i) == stack[Len(stack) - i]
Below(i) == SubSeq(stack, 1, Len(stack) - i)

BindLiteral(value) ==
  /\ Operand /\ Room(Len(stack) + 1)
  /\ Push(stack, MakeBoundLiteral(value))

(* A reference to a column of the table, or to one the table has not.      *)
BindColumn(id) ==
  /\ Operand /\ Room(Len(stack) + 1)
  /\ IF statement = "SelectFrom" /\ id \in DOMAIN Schema
     THEN Push(stack, MakeBoundColumn(id, Schema[id].type))
     ELSE Reject("BindError")

(* `*' anywhere but as a whole projection.                                 *)
BindStar ==
  /\ Operand /\ Room(Len(stack) + 1)
  /\ Reject("BindError")

BindUnary(op) ==
  LET e == bind_unary(op, Top(0))
  IN /\ Binding /\ stack # << >> /\ Room(Len(stack))
     /\ IF e.status = "Ok" THEN Push(Below(1), e.value) ELSE Reject(e.status)

BindBinary(op) ==
  LET e == bind_binary(op, Top(1), Top(0))
  IN /\ Binding /\ Len(stack) >= 2
     /\ IF e.status = "Ok" THEN Push(Below(2), e.value) ELSE Reject(e.status)

Bound(expressions) ==
  /\ bound' = bound \o expressions
  /\ stack' = << >>
  /\ UNCHANGED <<statement, plan, storage, outcome>>

FinishProjection ==
  /\ Binding /\ statement # "Insert" /\ Len(stack) = 1
  /\ Bound(stack)

(* SELECT * stands for every column of the table.                          *)
FinishStar ==
  /\ Binding /\ statement # "Insert" /\ stack = << >> /\ Room(Len(Schema))
  /\ IF statement = "SelectFrom"
     THEN Bound([id \in DOMAIN Schema |-> MakeBoundColumn(id, Schema[id].type)])
     ELSE Reject("BindError")

(* A value of an INSERT, which has one for each column.                    *)
FinishValue ==
  LET e == coerce_to_column(stack[1], Schema[Len(bound) + 1])
  IN /\ Binding /\ statement = "Insert" /\ Len(stack) = 1
     /\ IF e.status = "Ok" THEN Bound(<<e.value>>) ELSE Reject(e.status)

-----------------------------------------------------------------------------
(* The statement is bound: plan, optimize, plan physically and execute.    *)

Run(p, s) ==
  /\ plan' = p
  /\ storage' = s
  /\ outcome' = Execute(Optimize(p), s)
  /\ stack' = << >> /\ bound' = << >>
  /\ UNCHANGED statement

(* What is on the stack is the WHERE predicate.  Without FROM the storage  *)
(* is not asked.                                                           *)
RunSelect(s) ==
  /\ Binding /\ statement # "Insert" /\ bound # << >> /\ Len(stack) <= 1
  /\ IF stack # << >> /\ stack[1].type # "Boolean" THEN Reject("TypeMismatch")
     ELSE Run(plan_select(bound, stack),
              IF statement = "SelectFrom" THEN s ELSE storage)

(* An INSERT reads none of the records.                                    *)
RunInsert(s) ==
  /\ Binding /\ statement = "Insert" /\ stack = << >>
  /\ Len(bound) = Len(Schema)
  /\ Run(plan_insert(bound), [s EXCEPT !.records = << >>])

NextStatement ==
  /\ ~Binding
  /\ statement' \in Statements
  /\ outcome' = NoOutcome
  /\ plan' = NoPlan
  /\ storage' = NoAnswer
  /\ UNCHANGED <<stack, bound>>

Next ==
  \/ \E value \in Literals : BindLiteral(value)
  \/ \E id \in 1 .. Len(Schema) + 1 : BindColumn(id)
  \/ BindStar
  \/ \E op \in UnaryOperators : BindUnary(op)
  \/ \E op \in BinaryOperators : BindBinary(op)
  \/ FinishProjection
  \/ FinishStar
  \/ FinishValue
  \/ \E s \in Storages : RunSelect(s) \/ RunInsert(s)
  \/ NextStatement

Spec == Init /\ [][Next]_vars

-----------------------------------------------------------------------------
(* What an expression denotes, with integers of any size and without       *)
(* failures; NULL is neither equal nor unequal to anything.                *)

Integer(op, left, right) ==
  CASE op = "Add"      -> left + right
    [] op = "Subtract" -> left - right
    [] op = "Multiply" -> left * right
    [] op = "Divide"   -> IF right = 0 THEN 0 ELSE Quotient(left, right)

UnaryMeaning(op, operand) ==
  CASE op = "Plus"  -> operand
    [] op = "Minus" -> IntegerValue(-operand.of)
    [] op = "Not"   -> BooleanValue(~IsTrue(operand))

BinaryMeaning(op, left, right) ==
  CASE op \in Arithmetic -> IntegerValue(Integer(op, left.of, right.of))
    [] op = "And" -> BooleanValue(IsTrue(left) /\ IsTrue(right))
    [] op = "Or"  -> BooleanValue(IsTrue(left) \/ IsTrue(right))
    [] op \in Equality \cup Ordering ->
         BooleanValue(/\ ~IsNull(left) /\ ~IsNull(right)
                      /\ Compares(op, left.of - right.of))

RECURSIVE Meaning(_, _)

Meaning(e, row) ==
  CASE e.kind = "Literal" -> e.value
    [] e.kind = "Column"  -> row[e.column_id]
    [] e.kind = "Unary"   -> UnaryMeaning(e.op, Meaning(e.operand, row))
    [] e.kind = "Binary"  -> BinaryMeaning(e.op, Meaning(e.left, row),
                                           Meaning(e.right, row))

(* Where an expression has no value: an operator other than = and <> meets *)
(* NULL, a divisor is zero, an integer does not fit; in a part on which    *)
(* the value depends.                                                      *)
RECURSIVE Faulty(_, _)

Faulty(e, row) ==
  LET left  == Meaning(e.left, row)
      right == Meaning(e.right, row)
      value == Meaning(e, row)
  IN CASE e.kind = "Unary" ->
            \/ Faulty(e.operand, row)
            \/ IsNull(Meaning(e.operand, row))
            \/ e.op = "Minus" /\ value.of \notin Word
       [] e.kind = "Binary" ->
            \/ Faulty(e.left, row)
            \/ /\ ~(e.op \in Logical /\ Decides(e.op, left))
               /\ \/ Faulty(e.right, row)
                  \/ e.op \notin Equality /\ (IsNull(left) \/ IsNull(right))
                  \/ e.op = "Divide" /\ right.of = 0
                  \/ e.op \in Arithmetic /\ value.of \notin Word
       [] OTHER -> FALSE

-----------------------------------------------------------------------------
(* Properties.                                                             *)

Ran == outcome # NoOutcome /\ plan # NoPlan

(* Every expression of the plan, with each row it is evaluated on.         *)
Evaluations ==
  LET source == IF plan.kind = "Insert" \/ plan.child.kind # "Filter"
                THEN plan.child ELSE plan.child.child
      rows == IF source.kind = "SeqScan" THEN execute_seq_scan(storage).rows
              ELSE << << >> >>
      expressions ==
        CASE plan.kind = "Insert" -> plan.child.rows[1]
          [] plan.child.kind = "Filter" ->
               Append(plan.projections, plan.child.predicate)
          [] OTHER -> plan.projections
  IN {<<expressions[i], rows[j]>> : i \in DOMAIN expressions, j \in DOMAIN rows}

(* The evaluator computes what the expression denotes: it succeeds exactly *)
(* on the expressions without a fault, short circuits included, and its    *)
(* value is the mathematical one (expression_evaluator.cpp).               *)
EvaluationExact ==
  Ran => \A evaluation \in Evaluations :
           LET e == evaluation[1]
               row == evaluation[2]
               result == Evaluate(e, row)
           IN IF Faulty(e, row) THEN result.status # "Ok"
              ELSE result = ok_result(Meaning(e, row))

(* The optimizer changes neither rows, nor column types, nor errors of a   *)
(* statement; only that a WHERE folded to FALSE leaves out a scan that     *)
(* would have failed (default_optimizer.cpp).                              *)
OptimizerSound ==
  Ran => LET direct == Execute(plan, storage)
         IN \/ outcome = direct
            \/ /\ statement = "SelectFrom"
               /\ direct.status # "Ok" /\ direct = execute_seq_scan(storage)
               /\ outcome = Result("Ok", Types(plan.projections), << >>)

(* The type the binder gave an expression is the type of its values and of *)
(* its folded form: a value is of that type or NULL, a statement that was  *)
(* bound is never refused by the planner, and without NULL no operator     *)
(* meets an operand of a wrong type.                                       *)
BoundTypesHold ==
  Ran => /\ plan_node(Optimize(plan)) = "Ok"
         /\ \A evaluation \in Evaluations :
              LET e == evaluation[1]
                  row == evaluation[2]
                  result == Evaluate(e, row)
              IN /\ fold_expression(e).type = e.type
                 /\ result.value.type \in {e.type, "Null"}
                 /\ result.status = "TypeMismatch" =>
                      \E i \in DOMAIN row : IsNull(row[i])

(* An INSERT that was bound stores its row, or fails in arithmetic or in   *)
(* the storage: the tuple codec, which checks types and NULL again, has    *)
(* nothing left to refuse but a text longer than its length field can say, *)
(* and the record it makes is read back by a scan as the values the        *)
(* expressions denote (default_binder.cpp, tuple_codec.cpp).               *)
BoundInsertFits ==
  LET row == MapExpressions(LAMBDA e : Meaning(e, << >>), plan.child.rows[1])
      Overlong == \E i \in DOMAIN row : TooLarge(row[i])
  IN Ran /\ statement = "Insert" =>
       /\ \/ outcome.status \in {"Ok", "ExecutionError", storage.open, storage.access}
          \/ outcome.status = "InvalidArgument" /\ Overlong
       /\ outcome.status = "Ok" => Values(DecodeAll(outcome.rows)) = <<row>>

(* The record with one byte changed, bytes missing at its end, or one byte *)
(* too many.                                                               *)
Damaged(record) ==
  {[record EXCEPT ![i] = byte] : i \in DOMAIN record, byte \in Byte}
    \cup {SubSeq(record, 1, n) : n \in 0 .. Len(record) - 1}
    \cup {Append(record, byte) : byte \in Byte}

(* A record is read as a row only if it is exactly the record that the row *)
(* is stored as: whatever happened to a record, a scan reports corruption  *)
(* or returns a row that this very record stands for (tuple_codec.cpp).    *)
RecordsCanonical ==
  Ran /\ statement = "Insert" =>
    \A i \in DOMAIN outcome.rows : \A record \in Damaged(outcome.rows[i]) :
      Canonical(Schema, record)
=============================================================================
