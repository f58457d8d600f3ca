-------------------------------- MODULE Convert -------------------------------
(***************************************************************************)
(* From a cell of the database to the field of a result: the driver scans  *)
(* it into a target chosen by the column's type (orm/common.go), the       *)
(* target is read as a Go value of a row, and the row is turned into a     *)
(* result (orm/result_convert.go, utils/change_type.go).                   *)
(* A cell is a value of Params or a time; a Go value is [type, v].  A      *)
(* conversion gives a set: the value, or nothing when it is an error.      *)
(* Floats are whole here, and integers have fewer bits than in Go.         *)
(***************************************************************************)
EXTENDS Params

Bits == [int8 |-> 3, int16 |-> 4, int32 |-> 5, int64 |-> 6, int |-> 6,
         uint8 |-> 3, uint16 |-> 4, uint32 |-> 5, uint64 |-> 6, uint |-> 6]
Integral == DOMAIN Bits
Least(t) == IF t \in {"int8", "int16", "int32", "int64", "int"} THEN -(2 ^ (Bits[t] - 1)) ELSE 0
Fits(t, n) == Least(t) <= n /\ n < Least(t) + 2 ^ Bits[t]
Floats == {"float32", "float64"}

Typed(t, v) == [type |-> t, v |-> v]
TypedAll(t, vs) == {Typed(t, v) : v \in vs}

\* A Go conversion between integer types keeps the low bits.
Cast(t, n) == Typed(t, ((n - Least(t)) % 2 ^ Bits[t]) + Least(t))
CastAll(t, ns) == {Cast(t, n) : n \in ns}

\* A time's text: a mark and the time.
Clock == 50
CellText(cell) == IF Is(cell, "time") THEN <<Clock, cell.time>> ELSE Sprint(cell)
Text(x) ==
  CASE x.type = "string" -> x.v
    [] x.type = "bool" -> Sprint(Bool(x.v))
    [] x.type = "time.Time" -> <<Clock, x.v>>
    [] OTHER -> Sprint(Num(x.v))

ParseBool(s) == {b \in BOOLEAN : s \in {Sprint(Bool(b)), IF b THEN <<1>> ELSE <<0>>}}
ParseInt(t, s) == {n \in ParseFloat(s) : Fits(t, n)}
ParseTime(s) == IF Len(s) = 2 /\ s[1] = Clock THEN {s[2]} ELSE {}

-----------------------------------------------------------------------------
\* A value for a field: numbers are cast, whatever they lose, and anything else
\* goes through its text, which is first read with 64 bits.
Change2Bool(x) == TypedAll("bool", IF x.type = "bool" THEN {x.v} ELSE ParseBool(Text(x)))
Change2Int(x, t) == CastAll(t, IF x.type \in Integral THEN {x.v} ELSE ParseInt("int64", Text(x)))
Change2UInt(x, t) == CastAll(t, IF x.type \in Integral THEN {x.v} ELSE ParseInt("uint64", Text(x)))
Change2Float(x, t) == TypedAll(t, IF x.type \in Integral \union Floats THEN {x.v} ELSE ParseFloat(Text(x)))
Change2Time(x) == TypedAll("time.Time", IF x.type = "time.Time" THEN {x.v} ELSE ParseTime(Text(x)))

ChangeType(x, t) ==
  CASE t = "string" -> {Typed(t, Text(x))}
    [] t = "bool" -> Change2Bool(x)
    [] t \in Floats -> Change2Float(x, t)
    [] t = "time.Time" -> Change2Time(x)
    [] t \in Integral -> IF Least(t) < 0 THEN Change2Int(x, t) ELSE Change2UInt(x, t)
    [] OTHER -> {}

-----------------------------------------------------------------------------
Times == {"time.Time", "sql.NullTime", "mysql.NullTime"}
Bytes == {"sql.RawBytes", "[]uint8", "[]byte"}
\* What a driver reports when it does not know a type.
Untyped == {"nil", "interface {}"}

\* newInstance, scanTargetType: 32 bits for every integer but the 64-bit ones.
ScanTarget(scan) ==
  CASE scan = "bool" -> "NullBool"
    [] scan \in {"int64", "uint64", "sql.NullInt64"} -> "NullInt64"
    [] scan \in Integral -> "NullInt32"
    [] scan \in Floats -> "NullFloat64"
    [] scan \in Times -> "NullTime"
    [] scan \in Bytes -> "RawBytes"
    [] OTHER -> "NullString"

\* database/sql: a cell is scanned into a target, or is an error for it.
Scan(target, cell) ==
  LET text == CellText(cell)
      fit == CASE target \in {"NullString", "RawBytes"} -> {text}
               [] target = "NullBool" -> ParseBool(text)
               [] target = "NullInt32" -> ParseInt("int32", text)
               [] target = "NullInt64" -> ParseInt("int64", text)
               [] target = "NullFloat64" -> ParseFloat(text)
               [] target = "NullTime" -> IF Is(cell, "time") THEN {cell.time} ELSE {}
  IN IF cell = Nil THEN {[valid |-> FALSE]} ELSE {[valid |-> TRUE, v |-> v] : v \in fit}

\* NULL reads as the zero value.
OrZero(got, zero) == IF got.valid THEN got.v ELSE zero

\* A BIT is a byte: 0 is taken for false, and 1 for no text of a bool.
Byte0 == 60
Byte1 == 61
RawBytes2Bool(got) == TypedAll("bool", IF OrZero(got, <<>>) = <<Byte0>> THEN {FALSE} ELSE ParseBool(OrZero(got, <<>>)))

\* By the type the driver reports.
ByScanType(col, got) ==
  LET scan == col.scan IN
  CASE scan = "sql.RawBytes" /\ col.db = "BIT" -> RawBytes2Bool(got)
    [] scan \in {"string", "sql.NullString"} \union Bytes \union Untyped -> {Typed("string", OrZero(got, <<>>))}
    [] scan = "bool" -> {Typed("bool", OrZero(got, FALSE))}
    [] scan = "sql.NullInt64" -> {Typed("int64", OrZero(got, 0))}
    [] scan \in Integral -> {Cast(scan, OrZero(got, 0))}
    [] scan \in Floats -> {Typed(scan, OrZero(got, 0))}
    [] scan \in Times -> {Typed("time.Time", OrZero(got, 0))}
    [] OTHER -> {}

\* By the type the table's structure declares: bytes are parsed, NULL as the
\* empty text; but a string target is not looked into, it reads as zero, and
\* bytes for a bool are not looked into either.
ByGoType(col, got) ==
  LET text == OrZero(got, <<>>)
      raw == ScanTarget(col.scan) = "RawBytes"
  IN CASE col.hint = "bool" /\ col.db = "BIT" -> IF raw THEN RawBytes2Bool(got) ELSE {Typed("bool", FALSE)}
       [] col.hint = "bool" -> TypedAll("bool", IF raw \/ text = <<>> THEN {FALSE} ELSE ParseBool(text))
       [] col.hint \in {"int", "int64"} -> TypedAll(col.hint, IF raw THEN ParseInt("int64", text) ELSE {0})
       [] col.hint = "float64" -> TypedAll(col.hint, IF raw THEN ParseFloat(text) ELSE {0})
       [] col.hint = "time.Time" -> TypedAll(col.hint, IF raw THEN ParseTime(text) ELSE {0})
       [] OTHER -> {Typed("string", text)}

\* The structure is asked only where the driver's type says little.
ResolveConverter(col, got) ==
  IF col.scan \in Untyped \union Bytes /\ col.hint # "none" THEN ByGoType(col, got) ELSE ByScanType(col, got)

-----------------------------------------------------------------------------
\* The case of a discriminator whose value is the column's, else the map itself.
ResolveDiscriminator(rm, row) ==
  LET fits == {value \in DOMAIN rm.cases : rm.disc \in DOMAIN row /\ Text(row[rm.disc]) = value}
  IN IF fits = {} THEN rm ELSE rm.cases[CHOOSE value \in fits : TRUE]

ZeroOf(t) == CASE t = "string" -> <<>> [] t = "bool" -> FALSE [] OTHER -> 0
NewModel(fields) == [f \in DOMAIN fields |-> Typed(fields[f], ZeroOf(fields[f]))]

FailedColumns(row, fieldOf, fields) ==
  {col \in DOMAIN row \intersect DOMAIN fieldOf : ChangeType(row[col], fields[fieldOf[col]]) = {}}

\* setColumnValuesPrepared, setModelFieldValues: a column that cannot be
\* converted leaves its field at zero and is reported, a column without a field
\* is passed over.
Fill(row, fieldOf, fields) ==
  LET source(f) == {col \in DOMAIN row \ FailedColumns(row, fieldOf, fields) : col \in DOMAIN fieldOf /\ fieldOf[col] = f}
  IN [f \in DOMAIN fields |->
       IF source(f) = {} THEN NewModel(fields)[f]
       ELSE CHOOSE x \in ChangeType(row[CHOOSE col \in source(f) : TRUE], fields[f]) : TRUE]

\* buildFieldIndexMap: the properties of the result map that are fields.
FieldIndexMap(rm, models) == {p \in {rm.columns[col] : col \in DOMAIN rm.columns} : p \in DOMAIN models[rm.type]}

\* The fields are those of the map the statement names, even where a
\* discriminator picks another one.
FieldsOf(rm, index) ==
  [col \in {c \in DOMAIN rm.columns : rm.columns[c] \in index} |-> rm.columns[col]]

Result(r, failed) == [result |-> r, errors |-> failed, skipped |-> FALSE, panic |-> FALSE]
SkippedRow == [result |-> <<>>, errors |-> {"row"}, skipped |-> TRUE, panic |-> FALSE]
Panicked == [result |-> <<>>, errors |-> {}, skipped |-> FALSE, panic |-> TRUE]

\* convert2Result: a result of another type than the slice's cannot be appended.
Convert2Result(row, rm, index, base, models) ==
  IF rm.type \notin DOMAIN models THEN SkippedRow
  ELSE IF rm.type # base THEN Panicked
  ELSE Result(Fill(row, FieldsOf(rm, index), models[rm.type]), FailedColumns(row, FieldsOf(rm, index), models[rm.type]))

\* A single value takes the first column of the row in the map's own order; a
\* row without columns is no such value.
ConvertScalar(row, order, t) ==
  LET first == {i \in DOMAIN order : order[i] \in DOMAIN row}
      col == order[CHOOSE i \in first : \A j \in first : i <= j]
      x == ChangeType(row[col], t)
  IN IF first = {} THEN Panicked ELSE IF x = {} THEN SkippedRow ELSE Result(CHOOSE v \in x : TRUE, {})

ConvertMap2Result(row, order, res, models) ==
  CASE res.kind = "resultMap" ->
         Convert2Result(row, ResolveDiscriminator(res.map, row), FieldIndexMap(res.map, models), res.map.type, models)
    [] res.kind = "model" -> Result(Fill(row, [f \in DOMAIN models[res.type] |-> f], models[res.type]),
                                    FailedColumns(row, [f \in DOMAIN models[res.type] |-> f], models[res.type]))
    [] res.kind = "scalar" -> ConvertScalar(row, order, res.type)
    [] OTHER -> Result(row, {})

\* convert2Results and what executeMethod makes of its report.
Convert2Results(rows, order, res, models, strict) ==
  LET each == [i \in DOMAIN rows |-> ConvertMap2Result(rows[i], order, res, models)]
      kept == SelectSeq(each, LAMBDA r : ~r.skipped)
      incomplete == \E i \in DOMAIN each : each[i].errors # {}
  IN [results |-> IF strict /\ incomplete THEN <<>> ELSE [i \in DOMAIN kept |-> kept[i].result],
      err |-> strict /\ incomplete, reported |-> incomplete,
      converted |-> Len(kept), skipped |-> Len(rows) - Len(kept),
      panic |-> \E i \in DOMAIN each : each[i].panic]
=============================================================================
