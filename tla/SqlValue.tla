------------------------------ MODULE SqlValue ------------------------------
(***************************************************************************)
(* SQL values (types.hpp, value_utils.hpp).  A value is its type and a     *)
(* number: an integer itself, FALSE and TRUE as 0 and 1, a text's place in *)
(* the order of the texts.                                                 *)
(***************************************************************************)
EXTENDS CheckedArithmetic, Sequences

Value(type, of) == [type |-> type, of |-> of]
NullValue       == Value("Null", 0)
IntegerValue(n) == Value("Integer", n)
BooleanValue(p) == Value("Boolean", IF p THEN 1 ELSE 0)

IsNull(value) == value.type = "Null"
IsTrue(value) == value = BooleanValue(TRUE)

Failed(status) == [status |-> status, value |-> NullValue]
=============================================================================
