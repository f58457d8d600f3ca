--------------------------------- MODULE Rows ---------------------------------
(***************************************************************************)
(* Reading a result set: into maps (orm/sql_execute.go), row by row        *)
(* (orm/row_stream.go), into slices or the first row (orm/scan_rows.go),   *)
(* under the limit of orm/row_limit_ctx.go.  A set is [rows, lost]: what   *)
(* happens to each row - it is read, its Scan fails, or one column cannot  *)
(* be converted - and whether the connection is lost after the last.       *)
(***************************************************************************)
EXTENDS Integers, Sequences

Rowish == {"good", "badScan", "badColumn"}
ResultSet == [rows : Seq(Rowish), lost : BOOLEAN]

\* A statement's maxRows of 0 leaves the global limit, a negative one lifts it.
EffectiveRowLimit(maxRows, global) == IF maxRows # 0 THEN maxRows ELSE global

Reached(limit, n) == limit >= 0 /\ n >= limit
NothingRead == [rows |-> <<>>, err |-> "none", truncated |-> FALSE, done |-> FALSE]
Failed(got, err) == [got EXCEPT !.err = err, !.done = TRUE]

\* recordQueryTruncation; a strict limit is an error.
AtLimit(got, strict) ==
  [(IF strict THEN Failed(got, "limit") ELSE got) EXCEPT !.truncated = TRUE, !.done = TRUE]

\* A row below the limit.  fetchRows skips one whose Scan fails; the others give
\* up.  Only into structs and scalars a column that cannot be converted fails,
\* maps leave it out.
Take(reader, got, row) ==
  CASE row = "badScan" -> IF reader = "fetch" THEN got ELSE Failed(got, row)
    [] row = "badColumn" /\ reader = "structs" -> Failed(got, row)
    [] OTHER -> [got EXCEPT !.rows = Append(@, row)]

\* One turn of a loop: the limit is looked at before the row.
Turn(reader, got, row, limit, strict) ==
  CASE got.done -> got
    [] ~got.done /\ Reached(limit, Len(got.rows)) -> AtLimit(got, strict)
    [] OTHER -> Take(reader, got, row)

\* What has been read after n rows of the set.
Progress(reader, rows, limit, strict) ==
  LET got[n \in 0..Len(rows)] ==
        IF n = 0 THEN NothingRead ELSE Turn(reader, got[n - 1], rows[n], limit, strict)
  IN got
Loop(reader, set, limit, strict) == Progress(reader, set.rows, limit, strict)[Len(set.rows)]

LostUnseen(got, set) == got
\* rows.Err() once Next has returned false.
AfterLast(got, set) == IF ~got.done /\ set.lost THEN Failed(got, "lost") ELSE got

AllOrNothing(got) == IF got.err = "none" THEN got ELSE [got EXCEPT !.rows = <<>>]

\* fetchRows: a lost connection is not noticed.
FetchRows(set, limit, strict) == AllOrNothing(Loop("fetch", set, limit, strict))

\* scanRowsToStructSlice, ToMapSlice, ToScalarSlice: all or nothing.
ScanRowsToSlice(elements, set, limit, strict) ==
  AllOrNothing(AfterLast(Loop(elements, set, limit, strict), set))

\* RowStream.Next until it returns false: the limit is looked at once more after
\* the last row, and what was delivered before an error stays delivered.
RowStream(set, limit, strict) ==
  LET end == Loop("stream", set, limit, strict)
  IN AfterLast(IF ~end.done /\ Reached(limit, Len(end.rows)) THEN AtLimit(end, strict) ELSE end, set)

\* scanRowsToStruct, ToMapRow, ToScalar: the first row.
ScanFirstRow(set, maps) ==
  IF set.rows = <<>> THEN Failed(NothingRead, IF set.lost THEN "lost" ELSE "no rows")
  ELSE LET row == Head(set.rows)
       IN IF row = "badScan" \/ (row = "badColumn" /\ ~maps) THEN Failed(NothingRead, row)
          ELSE [NothingRead EXCEPT !.rows = <<row>>]

Readers == {"fetch", "structs", "maps", "stream"}
Read(reader, set, limit, strict) ==
  CASE reader = "fetch" -> FetchRows(set, limit, strict)
    [] reader = "stream" -> RowStream(set, limit, strict)
    [] OTHER -> ScanRowsToSlice(reader, set, limit, strict)

-----------------------------------------------------------------------------
(***************************************************************************)
(* What the readers promise.                                               *)
(***************************************************************************)

\* The rows at rising positions of the set; to skip one is up to fetchRows, and
\* only where its Scan fails.
InOrder(reader, got, rows) ==
  \E at \in [1..Len(got) -> 1..Len(rows)] :
    /\ \A i \in 1..Len(got) : got[i] = rows[at[i]]
    /\ \A i, j \in 1..Len(got) : i < j => at[i] < at[j]
    /\ \A i \in 1..Len(got), k \in 1..Len(rows) :
         k < at[i] => \/ \E j \in 1..Len(got) : at[j] = k
                      \/ reader = "fetch" /\ rows[k] = "badScan"

\* All rows and whole rows, of a set that was read to its end: but fetchRows
\* leaves out the rows it cannot scan, and a lost connection.
Complete(reader, got, set) ==
  /\ reader # "fetch" => got.rows = set.rows /\ ~set.lost
  /\ \A k \in 1..Len(set.rows) :
       /\ set.rows[k] = "badScan" => reader = "fetch"
       /\ set.rows[k] = "badColumn" => reader # "structs"
  /\ (\A k \in 1..Len(set.rows) : set.rows[k] # "badScan") => got.rows = set.rows

\* What is delivered are rows of the set in order, at most as many as the limit
\* allows; a strict limit that truncates is an error; and without an error and a
\* truncation the rows are complete.
Delivered(reader, got, set, limit, strict) ==
  /\ limit < 0 \/ Len(got.rows) <= limit
  /\ InOrder(reader, got.rows, set.rows)
  /\ got.truncated /\ strict => got.err = "limit"
  /\ got.truncated /\ got.err = "none" => Len(got.rows) = limit
  /\ got.err = "none" /\ ~got.truncated => Complete(reader, got, set)

\* On a clean set that does not just reach the limit two readers agree.
Clean(set) == ~set.lost /\ \A k \in 1..Len(set.rows) : set.rows[k] = "good"
Agree(got, other) ==
  /\ got.err = other.err /\ got.truncated = other.truncated
  /\ got.err = "none" => got.rows = other.rows

\* The first row is delivered unless it fails, and "no rows" means there are none.
FirstDelivered(got, set) ==
  /\ got.err = "none" => set.rows # <<>> /\ got.rows = <<Head(set.rows)>>
  /\ got.err = "no rows" => set.rows = <<>> /\ ~set.lost
=============================================================================
