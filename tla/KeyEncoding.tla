----------------------------- MODULE KeyEncoding -----------------------------
(***************************************************************************)
(* Composite keys of a group-by (crates/polars-metal-kernels/src/          *)
(* groupby.rs): encode_keys lays the key columns out in one lane of 128    *)
(* bits per row, a null flag and the data of each; decode_keys reads the   *)
(* columns back.                                                           *)
(*                                                                         *)
(* A value is its bit pattern, the set of its one bits; the slot of a null *)
(* holds any pattern.  A lane is the set of its one bits.                  *)
(***************************************************************************)
EXTENDS Naturals, Sequences

VARIABLES
  columns,    \* the key columns of the call: dtype, and per row valid and data
  encoding,   \* "idle", "layout", "done" or "failed"
  fields,     \* KeySchema: the positions nullAt and dataAt of the columns laid out so far
  offset,     \* the next free bit
  encoded     \* the lane of each row

encoder == <<columns, encoding, fields, offset, encoded>>

\* KeyDtype::data_bits.
DataBits == [I64 |-> 64, F64 |-> 64, I32 |-> 32, F32 |-> 32, U32 |-> 32, Utf8 |-> 32,
             I16 |-> 16, U16 |-> 16, I8 |-> 8, U8 |-> 8, Bool |-> 1]

KeyDtypes == DOMAIN DataBits

Budget == 128

Width(c) == DataBits[c.dtype]
KeyRows  == DOMAIN columns[1].valid

\* A sequence of columns of as many rows as the first; the buffers are long enough.
WellFormed(cols) ==
  /\ Len(cols) \in Nat /\ DOMAIN cols = 1..Len(cols)
  /\ \A i \in DOMAIN cols :
       /\ cols[i].dtype \in KeyDtypes
       /\ DOMAIN cols[i].valid = DOMAIN cols[1].valid
       /\ \A r \in DOMAIN cols[1].valid :
            /\ cols[i].valid[r] \in BOOLEAN
            /\ cols[i].data[r] \subseteq 0..(Width(cols[i]) - 1)

EncodeInit == columns = <<>> /\ encoding = "idle" /\ fields = <<>> /\ offset = 0 /\ encoded = <<>>

\* A call of encode_keys, with any columns.
Encode ==
  /\ encoding # "layout" /\ WellFormed(columns')
  /\ encoding' = IF columns' = <<>> THEN "failed" ELSE "layout"
  /\ fields' = <<>> /\ offset' = 0 /\ encoded' = <<>>

LayingOut   == encoding = "layout" /\ Len(fields) < Len(columns)
NextColumn  == columns[Len(fields) + 1]
FieldEnd    == offset + 1 + Width(NextColumn)

\* Fault: the next field starts where the data would end without the null flag.
AddFieldNoFlag ==
  /\ LayingOut /\ FieldEnd <= Budget
  /\ fields' = Append(fields, [nullAt |-> offset, dataAt |-> offset + 1])
  /\ offset' = offset + Width(NextColumn)
  /\ UNCHANGED <<columns, encoding, encoded>>

AddField ==
  /\ LayingOut /\ FieldEnd <= Budget
  /\ fields' = Append(fields, [nullAt |-> offset, dataAt |-> offset + 1])
  /\ offset' = FieldEnd
  /\ UNCHANGED <<columns, encoding, encoded>>

TooWide ==
  /\ LayingOut /\ FieldEnd > Budget
  /\ encoding' = "failed"
  /\ UNCHANGED <<columns, fields, offset, encoded>>

\* What column i adds to the lane of row r; the data of a null is not looked at.
FieldBits(i, r) ==
  IF columns[i].valid[r] THEN {fields[i].dataAt + b : b \in columns[i].data[r]}
                         ELSE {fields[i].nullAt}

Lane(r) == UNION {FieldBits(i, r) : i \in DOMAIN fields}

\* The rows are independent of each other.
EncodeRows ==
  /\ encoding = "layout" /\ Len(fields) = Len(columns)
  /\ encoded' = [r \in KeyRows |-> Lane(r)]
  /\ encoding' = "done"
  /\ UNCHANGED <<columns, fields, offset>>

EncodeStep == AddField \/ TooWide \/ EncodeRows
EncodeSpec == EncodeInit /\ [][Encode \/ EncodeStep]_encoder

\* decode_keys: column i of a lane; a null decodes to zero.
Decode(i, lane) ==
  LET valid == fields[i].nullAt \notin lane
  IN  [valid |-> valid,
       data  |-> IF valid THEN {b \in 0..(Width(columns[i]) - 1) : fields[i].dataAt + b \in lane}
                          ELSE {}]

-----------------------------------------------------------------------------
SameKey(c, r, q) == c.valid[r] = c.valid[q] /\ (c.valid[r] => c.data[r] = c.data[q])

\* "Key equality is u128 equality" (the header of groupby.rs): two rows have one lane exactly
\* when they agree in every key column, a null only with a null.
LaneIdentifiesKey ==
  encoding = "done" =>
    \A r, q \in KeyRows :
      encoded[r] = encoded[q] <=> \A i \in DOMAIN columns : SameKey(columns[i], r, q)

\* decode_keys inverts encode_keys, whatever the slots of nulls held.
DecodeInverts ==
  encoding = "done" =>
    \A r \in KeyRows, i \in DOMAIN columns :
      Decode(i, encoded[r]) = [valid |-> columns[i].valid[r],
                               data  |-> IF columns[i].valid[r] THEN columns[i].data[r] ELSE {}]

=============================================================================
