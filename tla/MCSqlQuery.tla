----------------------------- MODULE MCSqlQuery -----------------------------
(***************************************************************************)
(* SqlQuery with integers of four bits.  The parser makes literals of the *)
(* integers from 0 to kMax and of kMin.  The tables the scans return have  *)
(* NULL, the largest and the smallest integer among their values, and one  *)
(* whose square fits although it is negative.                              *)
(***************************************************************************)
EXTENDS SqlQuery

Text(n) == Value("Text", n)

MCSchema ==
  <<[type |-> "Integer", nullable |-> TRUE],
    [type |-> "Boolean", nullable |-> TRUE],
    [type |-> "Text",    nullable |-> FALSE]>>

MCLiterals ==
  {IntegerValue(n) : n \in {0, 1, kMin}}
    \cup {Text(1), Text(21), NullValue, BooleanValue(TRUE), BooleanValue(FALSE)}

(* The texts of up to two characters, in their order, and the first one    *)
(* with more characters than the field for its length can count.           *)
MCTexts ==
  [n \in 0 .. 21 |->
     LET first == (n - 1) \div 5
         next  == (n - 1) % 5
     IN CASE n = 0 -> << >>
          [] n = 21 -> [i \in 1 .. Capacity(kLengthBytes) |-> 3]
          [] n \in 1 .. 20 /\ next = 0 -> <<first>>
          [] n \in 1 .. 20 /\ next > 0 -> <<first, next - 1>>]

Record(row) == Encode(Schema, row).value

Table(records) == [open |-> "Ok", records |-> records, access |-> "Ok"]

(* Two tables, one whose second record is the first one cut short, one     *)
(* that cannot be opened, and a heap that fails after a record or, in an   *)
(* INSERT, refuses it.                                                     *)
MCStorages ==
  LET first == Record(<<IntegerValue(kMax), BooleanValue(FALSE), Text(2)>>)
  IN {Table(<<first, Record(<<NullValue, BooleanValue(TRUE), Text(1)>>)>>),
      Table(<<Record(<<IntegerValue(kMin), NullValue, Text(0)>>),
              Record(<<IntegerValue(-2), BooleanValue(FALSE), Text(1)>>)>>),
      Table(<<first, SubSeq(first, 1, Len(first) - 1)>>),
      [Table(<< >>) EXCEPT !.open = "NotFound"],
      [Table(<<first>>) EXCEPT !.access = "Internal"]}
=============================================================================
