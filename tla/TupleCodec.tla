----------------------------- MODULE TupleCodec -----------------------------
(***************************************************************************)
(* BinaryTupleCodec (src/src/storage/tuple_codec.cpp): a row as the bytes  *)
(* of a record, one field after the other, each a tag and what the tag     *)
(* calls for: the bytes of an integer, lowest first, a boolean, a text     *)
(* after its length.                                                       *)
(*                                                                         *)
(* A byte has Base values (256 in the code), an integer kIntegerBytes of   *)
(* them (8), a length kLengthBytes (4).  A text is known by its place n in *)
(* the order of the texts; Texts[n] are its characters.                    *)
(***************************************************************************)
EXTENDS SqlValue, SequencesExt

CONSTANTS Base, kIntegerBytes, kLengthBytes, Texts

Byte == 0 .. Base - 1

(* What a 1 in each byte counts for, and the first number that a width has *)
(* no room for: Base to the power of the byte's place, and of the width.   *)
Weight(width) ==
  LET weight[i \in 0 .. width] == IF i = 0 THEN 1 ELSE Base * weight[i - 1]
  IN weight

Capacity(width) == Weight(width)[width]

ASSUME CodecAssumption ==
  /\ Base \in Nat /\ Base >= 4
  /\ kIntegerBytes \in Nat /\ Capacity(kIntegerBytes) = 2 * (kMax + 1)
  /\ kLengthBytes \in Nat \ {0}
  /\ \A n \in DOMAIN Texts : Texts[n] \in Seq(Byte)
  /\ \A m, n \in DOMAIN Texts : Texts[m] = Texts[n] => m = n

FieldTag(type) ==
  CASE type = "Null" -> 0 [] type = "Integer" -> 1
    [] type = "Boolean" -> 2 [] type = "Text" -> 3

AppendLittleEndian(n, width) ==
  [i \in 1 .. width |-> (n \div Weight(width)[i - 1]) % Base]

ReadLittleEndian(bytes) ==
  LET weight == Weight(Len(bytes))
      sum[i \in 0 .. Len(bytes)] ==
        IF i = 0 THEN 0 ELSE sum[i - 1] + bytes[i] * weight[i - 1]
  IN sum[Len(bytes)]

(* A negative integer is stored as the unsigned one it is congruent to.    *)
append_i64(n) == AppendLittleEndian(n % Capacity(kIntegerBytes), kIntegerBytes)

read_i64(bytes) ==
  LET encoded == ReadLittleEndian(bytes)
  IN IF encoded > kMax THEN encoded - Capacity(kIntegerBytes) ELSE encoded

-----------------------------------------------------------------------------
(* Encoding.  The status is that of the first field that is refused.       *)

TooLarge(value) ==
  value.type = "Text" /\ Len(Texts[value.of]) >= Capacity(kLengthBytes)

EncodeStatus(column, value) ==
  IF column.type = "Null" THEN "InvalidArgument"
  ELSE IF IsNull(value) THEN IF column.nullable THEN "Ok" ELSE "TypeMismatch"
  ELSE IF value.type # column.type THEN "TypeMismatch"
  ELSE IF TooLarge(value) THEN "InvalidArgument"
  ELSE "Ok"

FieldBytes(value) ==
  <<FieldTag(value.type)>> \o
    CASE value.type = "Null"    -> << >>
      [] value.type = "Integer" -> append_i64(value.of)
      [] value.type = "Boolean" -> <<value.of>>
      [] value.type = "Text"    ->
           AppendLittleEndian(Len(Texts[value.of]), kLengthBytes)
             \o Texts[value.of]

(* The bytes of the fields follow each other.                              *)
Encode(schema, values) ==
  LET refused == {i \in DOMAIN schema : EncodeStatus(schema[i], values[i]) # "Ok"}
      first   == CHOOSE i \in refused : \A j \in refused : i <= j
  IN IF Len(values) # Len(schema) THEN Failed("InvalidArgument")
     ELSE IF refused # {} THEN Failed(EncodeStatus(schema[first], values[first]))
     ELSE ok_result(FlattenSeq([i \in DOMAIN values |-> FieldBytes(values[i])]))

-----------------------------------------------------------------------------
(* Decoding.  `offset' is the number of bytes read before.  The readers of *)
(* a field return at most one [value, offset], the offset being that after *)
(* the field; none when the bytes are damaged.                             *)

Field(value, offset) == [value |-> value, offset |-> offset]

DecodeInteger(record, offset) ==
  LET end == offset + kIntegerBytes
  IN IF Len(record) < end THEN {}
     ELSE {Field(IntegerValue(read_i64(SubSeq(record, offset + 1, end))), end)}

(* Mutant: any byte but 1 is FALSE.                                        *)
DecodeBoolean_AnyByte(record, offset) ==
  IF offset >= Len(record) THEN {}
  ELSE {Field(BooleanValue(record[offset + 1] = 1), offset + 1)}

DecodeBoolean(record, offset) ==
  IF offset >= Len(record) \/ record[offset + 1] > 1 THEN {}
  ELSE {Field(BooleanValue(record[offset + 1] = 1), offset + 1)}

TextOf(characters) ==
  Value("Text", CHOOSE n \in DOMAIN Texts : Texts[n] = characters)

DecodeText(record, offset) ==
  LET begin == offset + kLengthBytes
      end   == begin + ReadLittleEndian(SubSeq(record, offset + 1, begin))
  IN IF Len(record) < begin \/ Len(record) < end THEN {}
     ELSE {Field(TextOf(SubSeq(record, begin + 1, end)), end)}

DecodeField(column, record, offset) ==
  LET tag == record[offset + 1]
  IN IF column.type = "Null" \/ offset >= Len(record) THEN {}
     ELSE IF tag = FieldTag("Null")
     THEN IF column.nullable THEN {Field(NullValue, offset + 1)} ELSE {}
     ELSE IF tag # FieldTag(column.type) THEN {}
     ELSE CASE column.type = "Integer" -> DecodeInteger(record, offset + 1)
            [] column.type = "Boolean" -> DecodeBoolean(record, offset + 1)
            [] column.type = "Text"    -> DecodeText(record, offset + 1)

(* What is read with one more field: at most one [values, offset].         *)
ReadOn(read, column, record) ==
  {[values |-> Append(read.values, field.value), offset |-> field.offset] :
     field \in DecodeField(column, record, read.offset)}

DecodeFields(schema, record) ==
  LET reads[i \in 0 .. Len(schema)] ==
        IF i = 0 THEN {[values |-> << >>, offset |-> 0]}
        ELSE UNION {ReadOn(read, schema[i], record) : read \in reads[i - 1]}
  IN reads[Len(schema)]

(* The fields end where the record ends.                                   *)
Decode(schema, record) ==
  LET rows == {read \in DecodeFields(schema, record) : read.offset = Len(record)}
  IN IF rows = {} THEN Failed("Corruption")
     ELSE ok_result((CHOOSE row \in rows : TRUE).values)

-----------------------------------------------------------------------------
(* What the codec promises.                                                *)

(* A row that is accepted is read back as it was.                          *)
ReadsBack(schema, values) ==
  LET record == Encode(schema, values)
  IN record.status = "Ok" => Decode(schema, record.value) = ok_result(values)

(* A record is damaged, or it is the very record of the row it is read as. *)
Canonical(schema, record) ==
  LET row == Decode(schema, record)
  IN row.status = "Corruption" \/ Encode(schema, row.value) = ok_result(record)
=============================================================================
