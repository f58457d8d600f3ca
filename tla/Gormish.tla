-------------------------------- MODULE Gormish -------------------------------
(***************************************************************************)
(* The chained statements of orm/gormish: a handle holds a statement, each *)
(* call of the chain makes a changed copy of it, and a finisher builds the *)
(* text with its arguments.  A text is a sequence of the tokens of SqlText *)
(* without blanks; a value is [col, v], the column it is meant for and a   *)
(* number, 0 for the zero value; a slice is [slice].  A model is the table *)
(* with its fields, each [col, primary, logic, version].                   *)
(***************************************************************************)
EXTENDS SqlText

CONSTANT Columns \* the columns in the order of their names

Param == Punct("?")
None == <<>>
NewStatement ==
  [table |-> "", model |-> None, selectCols |-> <<>>, distinct |-> FALSE, conditions |-> <<>>, order |-> <<>>, group |-> <<>>,
   having |-> [expr |-> <<>>, args |-> <<>>], limit |-> -1, offset |-> 0, raw |-> [expr |-> <<>>, args |-> <<>>], err |-> FALSE]

Join(parts, sep) == FoldLeft(LAMBDA text, p : IF text = <<>> THEN p ELSE text \o <<sep>> \o p, <<>>, parts)
List(cols) == Join([i \in DOMAIN cols |-> <<Kw(cols[i])>>], Punct(","))
Params(n) == Join([i \in 1 .. n |-> <<Param>>], Punct(","))
Equals(cols, sep) == Join([i \in DOMAIN cols |-> <<Kw(cols[i]), Punct("="), Param>>], sep)
InBrackets(text) == <<Punct("(")>> \o text \o <<Punct(")")>>
Sorted(cols) == SelectSeq(Columns, LAMBDA c : c \in cols)
Zero(x) == x.v = 0
WithoutBlanks(text) == SelectSeq(text, LAMBDA t : t.k \notin Spaces)

-----------------------------------------------------------------------------
\* A slice stands for its elements, an empty one for NULL; the arguments no "?"
\* is there for come last.
ExpandInPlaceholders(expr, args) ==
  LET isSlice(x) == "slice" \in DOMAIN x
      elements(x) == IF isSlice(x) THEN x.slice ELSE <<x>>
      text(x) == CASE ~isSlice(x) -> <<Param>> [] x.slice = <<>> -> InBrackets(<<Kw("null")>>) [] OTHER -> InBrackets(Params(Len(x.slice)))
      next(got, t) ==
        IF t = Param /\ got.rest # <<>>
        THEN [expr |-> got.expr \o text(Head(got.rest)), args |-> got.args \o elements(Head(got.rest)), rest |-> Tail(got.rest)]
        ELSE [got EXCEPT !.expr = Append(@, t)]
      end == FoldLeft(next, [expr |-> <<>>, args |-> <<>>, rest |-> args], expr)
  IN IF args = <<>> \/ Param \notin ToSet(expr) THEN [expr |-> expr, args |-> args]
     ELSE [expr |-> end.expr, args |-> end.args \o end.rest]

\* A text with arguments, or a map of columns to values in the order of the columns.
AddCondition(s, c) ==
  LET e == ExpandInPlaceholders(c.expr, c.args)
      cols == Sorted(DOMAIN c.map)
      condition == IF "map" \in DOMAIN c THEN [expr |-> <<>>, cols |-> cols, args |-> [i \in DOMAIN cols |-> c.map[cols[i]]], or |-> c.or]
                   ELSE [expr |-> e.expr, cols |-> <<>>, args |-> e.args, or |-> c.or]
  IN IF "map" \in DOMAIN c \/ "expr" \in DOMAIN c THEN [s EXCEPT !.conditions = Append(@, condition)] ELSE [s EXCEPT !.err = TRUE]

HasCondition(s) == s.conditions # <<>>

ArgsOf(conditions) == FlattenSeq([i \in DOMAIN conditions |-> conditions[i].args])

BuildWhere(s) ==
  LET fragment(c) == IF c.expr = <<>> THEN InBrackets(Equals(c.cols, Kw("and"))) ELSE c.expr
      joined(i) == (IF i = 1 THEN <<>> ELSE <<Kw(IF s.conditions[i].or THEN "or" ELSE "and")>>) \o fragment(s.conditions[i])
  IN IF ~HasCondition(s) THEN <<>> ELSE <<Kw("where")>> \o FlattenSeq([i \in DOMAIN s.conditions |-> joined(i)])

By(words, cols) == IF cols = <<>> THEN <<>> ELSE words \o List(cols)
BuildSelect(s) ==
  [sql |-> <<Kw("select")>> \o (IF s.distinct THEN <<Kw("distinct")>> ELSE <<>>)
           \o (IF s.selectCols = <<>> THEN <<Kw("*")>> ELSE List(s.selectCols)) \o <<Kw("from"), Kw(s.table)>> \o BuildWhere(s)
           \o By(<<Kw("group"), Kw("by")>>, s.group) \o (IF s.having.expr = <<>> THEN <<>> ELSE <<Kw("having")>> \o s.having.expr)
           \o By(<<Kw("order"), Kw("by")>>, s.order),
   args |-> ArgsOf(s.conditions) \o (IF s.having.expr = <<>> THEN <<>> ELSE s.having.args)]

\* Groups and limits do not count; a distinct column does if it is the only one.
BuildCount(s) ==
  [sql |-> <<Kw("select"), Kw("count")>>
           \o InBrackets(IF s.distinct /\ Len(s.selectCols) = 1 THEN <<Kw("distinct")>> \o List(s.selectCols) ELSE <<Kw("*")>>)
           \o <<Kw("from"), Kw(s.table)>> \o BuildWhere(s),
   args |-> ArgsOf(s.conditions)]

\* The column of the key, or one called id.
PrimaryColumn(s) ==
  IF s.model = None THEN ""
  ELSE LET keys == SelectSeq(s.model.fields, LAMBDA f : f.primary)
       IN CASE keys # <<>> -> keys[1].col
            [] \E f \in ToSet(s.model.fields) : f.col = "id" -> "id"
            [] OTHER -> ""

\* A key of zero is left to the database; logical deletion is not inserted.
InsertFields(s, item) ==
  IF s.model = None THEN <<>> ELSE SelectSeq(s.model.fields, LAMBDA f : ~f.logic /\ ~(f.primary /\ Zero(item[f.col])))
ColumnsOf(fields) == [i \in DOMAIN fields |-> fields[i].col]
ValuesOf(item, fields) == [i \in DOMAIN fields |-> item[fields[i].col]]
\* A row must have the columns of the first one, so no key of zero among others.
InsertColumnsFor(item, fields) == IF \E f \in ToSet(fields) : f.primary /\ Zero(item[f.col]) THEN None ELSE <<ValuesOf(item, fields)>>

-----------------------------------------------------------------------------
\* A call of the chain.  Table forgets the model, Model sets the table.
Chain(s, call) ==
  CASE call.do = "Table" -> [s EXCEPT !.table = call.name, !.model = None]
    [] call.do = "Model" -> [s EXCEPT !.model = call.model, !.table = call.model.table]
    [] call.do = "Select" -> [s EXCEPT !.selectCols = call.cols]
    [] call.do = "Distinct" -> [s EXCEPT !.selectCols = call.cols, !.distinct = TRUE]
    [] call.do = "Where" -> AddCondition(s, call)
    [] call.do = "Order" -> [s EXCEPT !.order = @ \o call.cols]
    [] call.do = "Limit" -> [s EXCEPT !.limit = call.n]
    [] call.do = "Offset" -> [s EXCEPT !.offset = call.n]
    [] call.do = "Group" -> [s EXCEPT !.group = call.cols]
    [] call.do = "Having" -> [s EXCEPT !.having = [expr |-> call.expr, args |-> call.args]]
    [] call.do = "Raw" -> [s EXCEPT !.raw = [expr |-> call.expr, args |-> call.args]]
    [] OTHER -> [s EXCEPT !.err = TRUE]
Chained(calls) == FoldLeft(Chain, NewStatement, calls)

Failed(why) == [err |-> why]
DeriveModel(s, model) == IF s.table # "" THEN s ELSE [s EXCEPT !.model = model, !.table = model.table]
Paged(s, q) == IF s.limit <= 0 THEN q ELSE [q EXCEPT !.sql = WithoutBlanks(ApplyPagination(@, s.limit, s.offset))]

\* Find derives the table from what is to be filled, Scan does not.
QueryRows(s, model, derive) ==
  LET d == IF derive /\ s.table = "" THEN [s EXCEPT !.table = model.table] ELSE s
  IN CASE s.raw.expr # <<>> -> [sql |-> s.raw.expr, args |-> s.raw.args]
       [] d.table = "" -> Failed("table")
       [] OTHER -> Paged(d, BuildSelect(d))

FirstOrLast(s, model, desc) ==
  LET d == IF s.model # None THEN s ELSE [s EXCEPT !.model = model, !.table = IF @ = "" THEN model.table ELSE @]
      pk == PrimaryColumn(d)
      q == BuildSelect([d EXCEPT !.order = IF @ = <<>> /\ pk # "" THEN <<pk>> ELSE @])
      dir == IF d.order = <<>> /\ pk # "" THEN <<Kw(IF desc THEN "desc" ELSE "asc")>> ELSE <<>>
  IN IF s.raw.expr # <<>> THEN Failed("raw") ELSE Paged([d EXCEPT !.limit = 1], [q EXCEPT !.sql = @ \o dir])

Count(s) ==
  CASE s.raw.expr # <<>> -> Failed("raw") [] s.table = "" -> Failed("table") [] OTHER -> BuildCount(s)

\* The columns are those of the first item.  A single item is given the key the
\* database chose: returned, or asked for afterwards.
Create(s, model, items, one, returning) ==
  LET d == DeriveModel(s, model)
      fields == InsertFields(d, items[1])
      rows == [i \in DOMAIN items |-> InsertColumnsFor(items[i], fields)]
      row == InBrackets(Params(Len(fields)))
      keys == IF one /\ d.model # None THEN SelectSeq(d.model.fields, LAMBDA f : f.primary /\ ~f.logic /\ Zero(items[1][f.col])) ELSE <<>>
  IN CASE items = <<>> -> Failed("empty")
       [] fields = <<>> -> Failed("no columns")
       [] \E i \in DOMAIN rows : rows[i] = None -> Failed("column mismatch")
       [] OTHER -> [sql |-> <<Kw("insert"), Kw("into"), Kw(d.table)>> \o InBrackets(List(ColumnsOf(fields)))
                            \o <<Kw("values")>> \o Join([i \in DOMAIN items |-> row], Punct(","))
                            \o (IF returning /\ keys # <<>> THEN <<Kw("returning"), Kw(Last(keys).col)>> ELSE <<>>),
                    args |-> FlattenSeq([i \in DOMAIN rows |-> rows[i][1]])]

SetWhere(s, cols, vals) ==
  [sql |-> <<Kw("update"), Kw(s.table), Kw("set")>> \o Equals(cols, Punct(",")) \o BuildWhere(s),
   args |-> vals \o ArgsOf(s.conditions)]

Update(s, col, x) ==
  CASE s.table = "" -> Failed("table")
    [] col = "" -> Failed("column")
    [] ~HasCondition(s) -> Failed("missing where")
    [] OTHER -> SetWhere(s, <<col>>, <<x>>)

\* The values of a map, or of a struct all but zeros, key, deletion and version.
UpdateColumns(s, values) ==
  IF "map" \in DOMAIN values THEN Sorted(DOMAIN values.map)
  ELSE ColumnsOf(SelectSeq(s.model.fields, LAMBDA f : ~f.primary /\ ~f.logic /\ ~f.version /\ ~Zero(values.struct[f.col])))

\* No model can be derived from a map.
Updates(s, model, values) ==
  LET isMap == "map" \in DOMAIN values
      d == IF isMap \/ s.model # None THEN s ELSE [DeriveModel(s, model) EXCEPT !.model = model]
      of == IF isMap THEN values.map ELSE values.struct
      cols == UpdateColumns(d, values)
  IN CASE d.table = "" -> Failed("table")
       [] ~HasCondition(d) -> Failed("missing where")
       [] cols = <<>> -> Failed("no columns")
       [] OTHER -> SetWhere(d, cols, [i \in DOMAIN cols |-> of[cols[i]]])

\* The key of a given item becomes a condition, if the handle knows its model.
Delete(s, model, items) ==
  LET d == IF items = <<>> THEN s ELSE DeriveModel(s, model)
      pk == IF items = <<>> THEN "" ELSE PrimaryColumn(d)
      keyed == IF pk = "" \/ Zero(items[1][pk]) THEN d
               ELSE AddCondition(d, [expr |-> <<Kw(pk), Punct("="), Param>>, args |-> <<items[1][pk]>>, or |-> FALSE])
  IN CASE keyed.table = "" -> Failed("table")
       [] ~HasCondition(keyed) -> Failed("missing where")
       [] OTHER -> [sql |-> <<Kw("delete"), Kw("from"), Kw(keyed.table)>> \o BuildWhere(keyed), args |-> ArgsOf(keyed.conditions)]

\* A finisher refuses a chain with an error first.
Finish(s, fin, model) ==
  CASE s.err -> Failed("chain")
    [] fin.do = "Find" -> QueryRows(s, model, TRUE)
    [] fin.do = "Scan" -> QueryRows(s, model, FALSE)
    [] fin.do \in {"First", "Last"} -> FirstOrLast(s, model, fin.do = "Last")
    [] fin.do = "Count" -> Count(s)
    [] fin.do = "Create" -> Create(s, model, fin.items, fin.one, fin.returning)
    [] fin.do = "Update" -> Update(s, fin.col, fin.value)
    [] fin.do = "Updates" -> Updates(s, model, fin.values)
    [] fin.do = "Delete" -> Delete(s, model, fin.items)
=============================================================================
