---------------------------- MODULE MCHeapTable ----------------------------
(***************************************************************************)
(* HeapTable on pages of 20 bytes (two slots and eight bytes, or one slot  *)
(* and fourteen) and two valid page ids, so that pages fill up to the last *)
(* byte, slots are reused and the page ids run out.                        *)
(***************************************************************************)
EXTENDS HeapTable

MCByte == 0 .. 11

(* Two of the first fill a page exactly, the second leaves too little for  *)
(* another slot and record, the third fits in no page.                     *)
MCRecords == {<<1, 2, 3, 4>>, <<5, 6, 7, 8, 9, 10, 11>>, [k \in 1 .. 15 |-> 1]}

=============================================================================
