------------------------------ MODULE Algorithms ------------------------------
(***************************************************************************)
(* The sequential algorithms, run on small inputs and compared with what   *)
(* they should compute.  A step from the idle state takes an input and     *)
(* leads to a state that holds it with the results; a statement, once      *)
(* loaded, is called.  The usage counters of Usage interleave.             *)
(***************************************************************************)
EXTENDS Mapper, Usage

CONSTANTS
  Exprs,      \* expressions of a test
  Conditions, \* tests of one condition, sequences of lexemes
  Bindings,   \* the maps a test is evaluated with
  Statements, \* statement elements
  Fragments,  \* the <sql> elements by name
  Arguments,  \* the argument lists of a call
  Templates,  \* statements with holes for a table's name and for a parameter
  TableNames, Rewrites, \* names to fill in, and what is known when tables are rewritten
  Queries, Wrappers, Pages, \* what a page is made from
  ResultSets, MaxRows, GlobalLimits,
  ColumnTypes, FieldTypes, \* columns with the cells they may hold, and the fields they are read into
  RowSets, Results, Models, ColumnOrders, \* rows of values, what a statement returns, the registered models
  Columns, Chains, Finishers, Model, \* of the query builder
  MaxUsages \* bound: calls reported

VARIABLE work \* the input and the results of the last step

Sql == INSTANCE SqlText
R == INSTANCE Rows
C == INSTANCE Convert
G == INSTANCE Gormish
vars == <<work, figures>>

Idle == [idle |-> TRUE]
Init == work = Idle /\ NoUsage

\* The algorithms touch no counter: they run before the first usage is reported.
Ready == work = Idle /\ TotalUsage = 0
Did(result) == work' = result /\ UNCHANGED figures

-----------------------------------------------------------------------------
\* An expression as its shortest text, brackets only where the grammar needs
\* them, and as text with brackets everywhere.
Level(e) ==
  CASE "op" \in DOMAIN e -> (CASE e.op = "or" -> 1 [] e.op = "and" -> 2 [] e.op \in Comparisons -> 4
                               [] e.op \in {"+", "-"} -> 5 [] OTHER -> 6)
    [] "not" \in DOMAIN e -> 3
    [] "neg" \in DOMAIN e -> 7
    [] OTHER -> 8

RECURSIVE Show(_, _)
Show(e, least) ==
  LET level == Level(e)
      text == CASE level = 8 /\ "const" \in DOMAIN e -> <<Number(e.const.num)>>
                [] level = 8 -> <<Path(e.ref \o (IF e.length THEN <<"length">> ELSE <<>>))>>
                [] level = 7 -> <<Sym("-")>> \o Show(e.neg, 7)
                [] level = 3 -> <<Word("not")>> \o Show(e.not, 3)
                [] OTHER -> Show(e.left, IF level = 4 THEN 5 ELSE level) \o <<IF level < 3 THEN Word(e.op) ELSE Sym(e.op)>> \o Show(e.right, level + 1)
  IN IF level < least THEN <<Sym("(")>> \o text \o <<Sym(")")>> ELSE text

CompileTest == Ready /\ \E e \in Exprs : Did([expr |-> e, parsed |-> ParseIfExpr(Show(e, 1))])

\* Every test of one or two conditions, read both ways.
EvaluateTest ==
  Ready /\ \E c, d \in Conditions, m \in Bindings :
    LET test == IF c = d THEN c ELSE c \o <<Word("and")>> \o d
        p == ParseIfExpr(test)
    IN Did([test |-> test, m |-> m, parses |-> p.ok,
            holds |-> CheckConditions(test, m, FALSE), legacy |-> CheckLegacy(test, m, FALSE)])

-----------------------------------------------------------------------------
\* A mapper element as the events of its XML, a text as one event per token.
RECURSIVE Events(_)
Events(x) ==
  IF x.tag = "#text" THEN [i \in DOMAIN x.text |-> Chars(<<x.text[i]>>)]
  ELSE <<Open(x.tag, x.attrs)>> \o FlattenSeq([i \in DOMAIN x.kids |-> Events(x.kids[i])]) \o <<Close>>

\* A statement is loaded with a comment before its event i, if i is one of them.
Load ==
  Ready /\ \E x \in Statements : \E i \in 0 .. Len(Events(x)) :
    LET events == Events(x)
        tree == ParseXmlNode(IF i = 0 THEN events ELSE InsertAt(events, i, Comment))
        sns == [id \in DOMAIN Fragments |-> ParseSqlElement(Fragments[id])]
    IN Did([xml |-> x, commented |-> i # 0, tree |-> tree,
            f |-> IF tree = <<>> THEN <<>> ELSE <<ParseSqlFunction(tree[1], sns)>>])

Loaded == "tree" \in DOMAIN work
Call ==
  /\ Loaded /\ ~work.commented
  /\ \E args \in Arguments, f \in ToSet(work.f) :
       work' = [f |-> f, args |-> args, how |-> Route(f, args),
                out |-> [inline \in BOOLEAN |-> PrepareSQL(f, args, inline, FALSE)]]
  /\ UNCHANGED figures

-----------------------------------------------------------------------------
Table == Sql!Tok("word", <<"T">>)
Tables == {Table, Sql!Tok("backtick", <<"T">>)}
Param == [k |-> "param"]
Alone == <<Sql!Kw("select"), Sql!Blank, Sql!Kw("c"), Sql!Blank, Sql!Kw("from"), Sql!Blank, Table>>
Fill(template, name) ==
  [i \in DOMAIN template |->
     IF template[i] \in Tables THEN [template[i] EXCEPT !.t = name]
     ELSE IF template[i] = Param THEN Sql!Punct("?") ELSE template[i]]

\* A statement whose tables are to be rewritten.
RewriteStatement ==
  Ready /\ \E template \in Templates, name \in TableNames, c \in Rewrites :
    Did([template |-> template, name |-> name, c |-> c, text |-> Fill(template, name)])

\* A query, made of its parts, with the condition of a wrapper and paged.
QueryText(q) == q.head \o q.body \o q.order \o q.limit \o q.end
PageStatement == Ready /\ \E q \in Queries, w \in Wrappers, page \in Pages : Did([query |-> q, wrapper |-> w, page |-> page])

\* Every reader reads the same result set.
ReadRows ==
  Ready /\ \E set \in ResultSets, maxRows \in MaxRows, global \in GlobalLimits, strict \in BOOLEAN :
    LET limit == R!EffectiveRowLimit(maxRows, global)
    IN Did([set |-> set, limit |-> limit, strict |-> strict,
            got |-> [reader \in R!Readers |-> R!Read(reader, set, limit, strict)],
            first |-> [maps \in BOOLEAN |-> R!ScanFirstRow(set, maps)]])

\* A cell is read and put into a field of every type.
ReadColumn ==
  Ready /\ \E col \in ColumnTypes : \E cell \in col.cells :
    LET got == C!Scan(C!ScanTarget(col.scan), cell)
        read == UNION {C!ResolveConverter(col, g) : g \in got}
    IN Did([col |-> col, cell |-> cell, read |-> read, fields |-> UNION {C!ChangeType(x, t) : x \in read, t \in FieldTypes}])

ConvertRows ==
  Ready /\ \E rows \in RowSets, res \in Results, order \in ColumnOrders, strict \in BOOLEAN :
    Did([converted |-> rows, res |-> res, strict |-> strict, out |-> C!Convert2Results(rows, order, res, Models, strict)])

BuildStatement ==
  Ready /\ \E chain \in Chains, fin \in Finishers :
    Did([chain |-> chain, fin |-> fin, built |-> G!Finish(G!Chained(chain), fin, Model)])

-----------------------------------------------------------------------------
CountUsage ==
  /\ work = Idle /\ UNCHANGED work
  /\ \E p \in Procs : Count(p) \/ (TotalUsage < MaxUsages /\ \E d \in Durations : Report(p, d))

Next == CompileTest \/ EvaluateTest \/ Load \/ Call \/ RewriteStatement \/ PageStatement \/ BuildStatement
        \/ ReadRows \/ ReadColumn \/ ConvertRows \/ CountUsage
Spec == Init /\ [][Next]_vars

-----------------------------------------------------------------------------
\* Compiling a test gives back the expression it was written from: or, and,
\* not, the comparisons, + -, * / %, - bind in this order, operators of one
\* level from left to right, and the parser takes the whole text.
ParseInverts == "expr" \in DOMAIN work => work.parsed.ok /\ work.parsed.e = work.expr

\* A name or a string that the older reading cuts in two at the letters "and".
CutInside(test) ==
  \E i \in DOMAIN test : Len(Pieces(test[i])) > 1 /\ test[i] \notin {Word("and"), Word("AND")}

\* Where every name a test mentions has a value of the type it is compared
\* with, and no name and no string holds the letters "and", the compiled test
\* and the older reading it replaced agree: tests written before the compiler
\* keep their meaning.
LegacyAgrees ==
  "test" \in DOMAIN work => work.parses /\ (CutInside(work.test) \/ (work.holds <=> work.legacy))

IfTestsFaithful == ParseInverts /\ LegacyAgrees

RECURSIVE Solid(_)
\* An element without the blanks of its text.
Solid(x) ==
  IF x.tag = "#text" THEN [x EXCEPT !.text = SelectSeq(@, LAMBDA t : ~BlankToken(t))]
  ELSE [x EXCEPT !.kids = [i \in DOMAIN @ |-> Solid(@[i])]]

\* The tree that is read is the one that was written, wherever a comment
\* stands in it: no text is cut in two, lost or moved to another element.
TreeKept == Loaded => [i \in DOMAIN work.tree |-> Solid(work.tree[i])] = <<Solid(work.xml)>>

Called == "args" \in DOMAIN work /\ work.how # {}
How == CHOOSE how \in work.how : TRUE
Out == CHOOSE r \in work.out[FALSE] : TRUE
Generated == CHOOSE r \in work.out[TRUE] : TRUE
Panics(text) == Panic \in ToSet(text)
Marks(text) == SelectSeq(text, IsMark)
Resolved(text) == \A i \in DOMAIN text : ~IsSlot(text[i])

\* The values a call gives, and those of them that ${} writes into the text.
Given == {How.v} \union {How.m[k] : k \in DOMAIN How.m}
Raw(items) == {t.slot : t \in {u \in UNION {ToSet(n.text) : n \in {k \in ToSet(Walk(items)) : k.tag = "text"}} : IsSlot(u) /\ u.raw}}
RawGiven == IF How.mode = "map" THEN UNION {LookupParam(How.m, name) : name \in Raw(work.f.items)}
            ELSE IF Raw(work.f.items) = {} THEN {} ELSE {How.v}
NoneHolds(values) == \A v \in values : ~HoldsPlaceholder(v)

\* The three ways to write a call agree: the values to bind are those of the
\* marks, in the order of the text, those of dropped children dropped with
\* them; the inlined statement is the prepared one with every mark replaced
\* by its value; and a statement that counts as static is what a call renders.
\* Not so where a value written into the text, by ${} or inlined, itself holds
\* the text of a placeholder.
RenderingsAgree ==
  Called /\ ~Panics(Out.text) =>
    LET marks == Marks(Out.text)
        static == ExtractStaticSQL(work.f.items)
    IN /\ NoneHolds(RawGiven) => Out.vals = [i \in DOMAIN marks |-> marks[i].mark]
       /\ NoneHolds(Given) /\ (\A v \in ToSet(Out.vals) : Formats(v)) =>
            Generated.text = [i \in DOMAIN Out.text |->
              IF IsMark(Out.text[i]) THEN Inline(Out.text[i].mark) ELSE Out.text[i]]
       /\ static.ok /\ How.mode = "map" /\ Resolved(Out.text) =>
            /\ static.text = TrimSpace([i \in DOMAIN Out.text |->
                                 IF IsMark(Out.text[i]) THEN W("?") ELSE Out.text[i]])
            /\ Out.vals = [i \in DOMAIN static.names |-> OrNil(LookupParam(How.m, static.names[i]))]

\* A fragment of plain text keeps its placeholders, whoever calls.
PlainInclude(items) ==
  \E n \in ToSet(Walk(items)) : n.tag = "include" /\ n.kids = <<>> /\ SlotsOfText(n.text) # <<>>

\* A caller that supplies every name the statement lists as its parameters
\* gets a statement without an unresolved placeholder, unless a value that ${}
\* writes into the text brings one along.
PlaceholdersResolved ==
  /\ Called /\ How.mode = "map" /\ ~Panics(Out.text)
  /\ ~PlainInclude(work.f.items) /\ NoneHolds(RawGiven)
  /\ \A name \in ToSet(work.f.allSlots) : LookupParam(How.m, name) # {}
  => Resolved(Out.text)

Dangling == {<<"where", "and">>, <<"where", "or">>, <<"set", ",">>, <<",", ",">>, <<"(", ",">>, <<",", ")">>,
             <<",", "where">>, <<"set", "where">>, <<"where", "where">>}
AtEnd == {"where", "set", ",", "and", "or", "("}

\* Whatever children are left out, where, set, trim and foreach leave no
\* dangling and, comma or keyword.
NoDanglingWords ==
  Called /\ ~Panics(Out.text) =>
    LET solid == SelectSeq(Out.text, LAMBDA t : ~BlankToken(t))
        word(i) == IF "w" \in DOMAIN solid[i] THEN solid[i].w ELSE ""
    IN /\ \A i \in 1 .. Len(solid) - 1 : <<word(i), word(i + 1)>> \notin Dangling
       /\ solid = <<>> \/ word(Len(solid)) \notin AtEnd

-----------------------------------------------------------------------------
Indices(template, tokens) == {i \in DOMAIN template : template[i] \in tokens}
Mentions(words) == \E i \in DOMAIN work.template : work.template[i] \in {Sql!Kw(w) : w \in words}

\* Wherever a table stands in a statement, in a list, a join, a subquery, a
\* definition or behind a schema, it is renamed as the simplest statement
\* renames it, unless WITH defines its name; nothing else is touched; renaming again changes nothing; a
\* table the schema is known to have is not traded for one it has not; and the
\* tables whose structures are looked up are those that were renamed.
TablesRenamedAlike(out) ==
  LET c == work.c
      src == work.text
      holes == Indices(work.template, Tables)
      defined == Mentions({"with"}) /\ Sql!Tok("word", work.name) \in ToSet(work.template)
      alone == IF defined THEN work.name ELSE Sql!RewriteSQLTables(Fill(Alone, work.name), c)[7].t
  IN /\ out = [i \in DOMAIN out |-> IF i \in holes THEN [src[i] EXCEPT !.t = alone] ELSE src[i]]
     /\ c.map = <<>> => /\ Sql!RewriteSQLTables(out, c) = out
                       /\ (work.name \in c.tables => alone \in c.tables)
     /\ \/ Head(alone) \in Sql!SystemPrefixes \/ Mentions({"with", "index", "rename"})
        \/ ToSet(Sql!ExtractTableNames(out, c.reserved)) = {alone : i \in holes}

\* Parameters are numbered in their order, and nothing else is: not a "?" in a
\* string, not an operator (a parameter between two operands is taken for an
\* operator).  What was rewritten for a database stays as it is.
ParamsNumbered(out) ==
  LET params == Indices(work.template, {Param})
      compatible == Sql!RewriteMySqlCompat(out)
      misread == \E i \in params : Sql!IsJSONQuestionOp(out, i)
  IN /\ ~misread => \A style \in {"question", "dollar"} :
            Sql!FormatPrepareSQL(out, style) =
              [i \in DOMAIN out |-> IF i \in params /\ style = "dollar"
                                   THEN Sql!NumberOf(Cardinality({j \in params : j <= i})) ELSE out[i]]
     /\ Sql!RewriteMySqlCompat(compatible) = compatible
     /\ Sql!ForDriver(out, "question", FALSE) = out

\* Words that end a query, in a bracket or a string of it; a WHERE that stands
\* in a string only.
NestedTail == Sql!Kw("limit") \in ToSet(Sql!Opened(work.query.head \o work.query.body))
QuotedWhere == Sql!Kw("where") \in ToSet(Sql!Opened(work.query.body)) \ ToSet(work.query.body)

Words(s) == SelectSeq(s, LAMBDA t : t.k \notin Sql!Spaces)

\* A page is the query up to its own limit with one new limit behind it, and
\* its count asks the same FROM and WHERE: subqueries keep their limits and
\* order, and a wrapper's condition restricts both.  Not so where the wrapper
\* meets a final ";", a tail inside a bracket or a string, a WHERE only in a
\* string, or a tail of the query's own.
PageOfQuery ==
  LET q == work.query
      cond == Sql!ConditionSQL(work.wrapper.calls)
      joiner == IF Sql!Kw("where") \in ToSet(q.body) THEN Sql!Kw("and") ELSE Sql!Kw("where")
      core == q.body \o (IF cond = <<>> THEN <<>> ELSE <<joiner, Sql!Punct("(")>> \o cond \o <<Sql!Punct(")")>>)
      offset == (work.page.num - 1) * work.page.size
      sql == Sql!ApplyQueryWrapper(QueryText(q), work.wrapper)
      limit(word, n) == <<Sql!Kw(word), Sql!NumberOf(n)>>
  IN \/ q.end # <<>> /\ cond \o work.wrapper.clause # <<>>
     \/ (NestedTail \/ QuotedWhere) /\ cond # <<>>
     \/ work.wrapper.clause # <<>> /\ q.limit \o q.order # <<>>
     \/ /\ Words(Sql!ApplyPagination(sql, work.page.size, Sql!Offset(work.page))) =
             Words(q.head \o core \o q.order \o work.wrapper.clause \o limit("limit", work.page.size)
                   \o (IF offset = 0 THEN <<>> ELSE limit("offset", offset)))
        /\ Words(Sql!BuildCountSQL(sql)) = Words(<<Sql!Kw("select"), Sql!Kw("count(*)")>> \o core)

\* The column the mark at i is for: that of its place in the list of an
\* insertion, else the last one before it.
ColumnAt(sql, i) ==
  LET isColumn(j) == sql[j].k = "word" /\ Head(sql[j].t) \in ToSet(Columns)
      close == CHOOSE j \in DOMAIN sql : sql[j] = Sql!Punct(")") /\ \A l \in 1 .. j - 1 : sql[l] # sql[j]
      listed == SelectSeq(SubSeq(sql, 1, close), LAMBDA t : t.k = "word" /\ Head(t.t) \in ToSet(Columns))
      nth == Cardinality({j \in 1 .. i : sql[j] = G!Param})
  IN IF sql[1] = Sql!Kw("insert") THEN Head(listed[((nth - 1) % Len(listed)) + 1].t)
     ELSE Head(sql[CHOOSE j \in 1 .. i : isColumn(j) /\ \A l \in j + 1 .. i : ~isColumn(l)].t)

Key == Head(SelectSeq(Model.fields, LAMBDA f : f.primary)).col
SetPart(sql) == SubSeq(sql, 1, CHOOSE i \in DOMAIN sql : sql[i] = Sql!Kw("where"))

\* However a chain is built, each "?" gets the value that was meant for its
\* column; nothing is updated or deleted without a condition; an item to delete
\* is told by its key, unless Table has made the handle forget the model; a
\* struct changes neither key, deletion nor version; and an item is inserted
\* with the key it has, unless the first one has none.
ChainBound ==
  "err" \notin DOMAIN work.built =>
    LET sql == work.built.sql
        args == work.built.args
        marks == SelectSeq([i \in DOMAIN sql |-> i], LAMBDA i : sql[i] = G!Param)
        verb == sql[1]
        known == \A i \in DOMAIN work.chain : work.chain[i].do # "Table"
    IN /\ Len(marks) = Len(args)
       /\ \A n \in DOMAIN marks : args[n].col = ColumnAt(sql, marks[n])
       /\ verb \in {Sql!Kw("update"), Sql!Kw("delete")} => Sql!Kw("where") \in ToSet(sql)
       /\ work.fin.do = "Delete" /\ known =>
            \A item \in ToSet(work.fin.items) : item[Key].v # 0 => item[Key] \in ToSet(args)
       /\ work.fin.do = "Updates" /\ "struct" \in DOMAIN work.fin.values =>
            \A f \in ToSet(Model.fields) : f.primary \/ f.logic \/ f.version => Sql!Kw(f.col) \notin ToSet(SetPart(sql))
       /\ work.fin.do = "Create" =>
            /\ Len(args) % Len(work.fin.items) = 0
            /\ Sql!Kw("returning") \in ToSet(sql) => work.fin.items[1][Key].v = 0
            /\ \A item \in ToSet(work.fin.items) :
                 work.fin.items[1][Key].v # 0 => item[Key].v # 0 /\ item[Key] \in ToSet(args)

\* The text of a statement survives what is done to it, and the values of a
\* built one stay with their columns.
StatementTextKept ==
  /\ "template" \in DOMAIN work =>
       LET out == Sql!RewriteSQLTables(work.text, work.c) IN TablesRenamedAlike(out) /\ ParamsNumbered(out)
  /\ "query" \in DOMAIN work => PageOfQuery
  /\ "built" \in DOMAIN work => ChainBound

\* What a reader delivers are the rows of the set, at most as many as the limit
\* allows; if it reports neither an error nor a truncation, they are all rows
\* and whole rows (reading into maps alone skips a row it cannot scan, and
\* leaves out a column it cannot convert).  A strict limit is an error.  On a
\* clean set the readers agree; only a stream sees a truncation where the set
\* just reaches the limit.  The readers of one row return the first.
ReadersAgree ==
  "set" \in DOMAIN work =>
    /\ \A reader \in R!Readers :
         /\ R!Delivered(reader, work.got[reader], work.set, work.limit, work.strict)
         /\ R!Clean(work.set) /\ (reader = "stream" => Len(work.set.rows) # work.limit) =>
              R!Agree(work.got[reader], work.got["structs"])
    /\ \A maps \in BOOLEAN : R!FirstDelivered(work.first[maps], work.set)

\* What the code does not read: a type it does not know, a BIT of 1, a number
\* or time whose structure is known but whose type the driver does not tell,
\* a bool that comes as bytes, bytes the declared type does not fit.
Misread(col, cell) ==
  \/ col.scan \in {"sql.NullFloat64", "sql.NullBool"}
  \/ col.db = "BIT" /\ cell = Str(<<C!Byte1>>)
  \/ col.scan \in C!Untyped /\ col.hint \notin {"none", "string"}
  \/ /\ col.scan \in C!Bytes
     /\ col.hint \notin {"none", "string"}
          \union (CASE C!Is(cell, "num") -> {"int", "int64", "float64"} [] C!Is(cell, "time") -> {"time.Time"} [] OTHER -> {})
\* An unsigned number beyond the signed target it is scanned into.
Unscannable(col, cell) == C!Is(cell, "num") /\ col.scan \in C!Integral
                          /\ ~C!Fits(IF col.scan \in {"int64", "uint64"} THEN "int64" ELSE "int32", cell.num)
\* A value shows its cell; a BIT of 0 may also be read as false.
Shows(x, cell) == C!Text(x) = C!CellText(cell) \/ (cell = Str(<<C!Byte0>>) /\ (x.type = "bool" => ~x.v))
\* A field that can hold the cell.
Holds(t, cell) == IF t \in C!Integral THEN C!Is(cell, "num") => C!Fits(t, cell.num) ELSE t = "bool" => C!Is(cell, "bool")

\* A cell that is not NULL is read, and every field that can hold it gets it;
\* NULL is zero; an integer field gets a number of its width in any case.
CellsKept ==
  "cell" \in DOMAIN work =>
    LET col == work.col
        cell == work.cell
        misread == Misread(col, cell)
    IN /\ cell # Nil /\ ~misread /\ ~Unscannable(col, cell) => work.read # {}
       /\ \A x \in work.fields :
            /\ x.type \in C!Integral => C!Fits(x.type, x.v)
            /\ cell # Nil /\ ~misread /\ Holds(x.type, cell) => Shows(x, cell)
            /\ cell = Nil /\ x.type # "string" => x.v = C!ZeroOf(x.type)

\* A result for every row that is not reported as skipped, in their order, with
\* every column that the statement's map and the row's own both give a field;
\* a strict result is an error instead as soon as a column or a row fails; and
\* the conversion panics only where the row's own map makes another model than
\* the statement's, or a single value is wanted of a row without columns.
ResultsFaithful ==
  "converted" \in DOMAIN work =>
    LET rows == work.converted
        out == work.out
        byMap == work.res.kind = "resultMap"
        rm == work.res.map
        own(row) == IF rm.disc \in DOMAIN row /\ C!Text(row[rm.disc]) \in DOMAIN rm.cases THEN rm.cases[C!Text(row[rm.disc])] ELSE rm
    IN /\ out.panic => \E i \in DOMAIN rows :
                         IF byMap THEN own(rows[i]).type # rm.type ELSE DOMAIN rows[i] = {}
       /\ out.converted + out.skipped = Len(rows)
       /\ out.err <=> work.strict /\ out.reported
       /\ ~out.panic /\ ~out.reported =>
            /\ Len(out.results) = Len(rows)
            /\ byMap => \A i \in DOMAIN rows :
                 LET map == own(rows[i]).columns
                     known == {rm.columns[c] : c \in DOMAIN rm.columns}
                 IN \A c \in DOMAIN rows[i] \intersect DOMAIN map :
                      map[c] \in known \intersect DOMAIN out.results[i] =>
                        C!Text(out.results[i][map[c]]) = C!Text(rows[i][c])

\* Nothing a query returns is lost or changed between the database and the result.
RowsComplete == ReadersAgree /\ CellsKept /\ ResultsFaithful
=============================================================================
