----------------------------- MODULE MCAlgorithms -----------------------------
(***************************************************************************)
(* Inputs of the algorithms: expressions of at most three operators, tests *)
(* of at most two conditions, statements of at most two elements that use  *)
(* every tag, and calls with maps, structs, scalars, slices, several       *)
(* arguments and none.                                                     *)
(***************************************************************************)
EXTENDS Algorithms

CONSTANTS c1, c2

A == <<"a">>
B == <<"b">>
X == <<"x">>
Txt(s) == Str(<<s>>)

Leaves == {Ref(A), Length(<<"list">>), Const(Num(1))}
One == {Const(Num(1))}
Grow(S, T) == {Binary(op, l, r) : op \in {"or", "and", "==", "<", "+", "-", "*"}, l \in S, r \in T}
              \union {Not(e) : e \in S} \union {Neg(e) : e \in S}
Flat == Grow({Ref(A)}, {Ref(A)})
MCExprs == Leaves \union Grow(Leaves, Leaves) \union Grow(Flat, Flat)
           \union Grow(One, Grow(One, Flat)) \union Grow(Grow(Flat, One), One)

Test(name, op, lexeme) == <<Word(name), Sym(op), lexeme>>
MCConditions ==
  {Test("a", "!=", Word("null")), Test("a", "!=", Quote(<<>>)), Test("a", "==", Quote(<<20>>)),
   Test("a", "!=", Quote(<<20>>)), Test("b", ">", Number(1)), Test("b", "<=", Number(2)),
   Test("b", "!=", Number(2)), <<Word("ok")>>, Test("brand", "!=", Word("null")), Test("a", "!=", Quote(<<20>> \o AndLetters)),
   <<Path(<<"list", "length">>), Sym(">"), Number(0)>>, <<Path(<<"s", "k">>), Sym("=="), Number(1)>>}
MCBindings ==
  {(A :> a) @@ (<<"brand">> :> a) @@ (B :> b) @@ (<<"ok">> :> Bool(ok)) @@ (<<"list">> :> Slice(l)) @@ (<<"s">> :> Struct([k |-> b])) :
     a \in {Str(<<>>), Txt(20), Txt(21)}, b \in {Num(1), Num(2), Str(<<1, 5>>)}, ok \in BOOLEAN,
     l \in {<<>>, <<Num(1)>>}}

El(tag, attrs, kids) == Element(tag, attrs, kids)
T(text) == TextElement(text)
When(test, text) == El("if", [test |-> test], <<T(text)>>)
HasA == Test("a", "!=", Word("null"))
BigB == Test("b", ">", Number(1))
And(rest) == <<W("and"), Space>> \o rest
CondA == When(HasA, And(<<W("x="), Slot(A)>>))
CondB == When(BigB, And(<<W("y="), Slot(B)>>))
SetA == When(HasA, <<W("c="), Slot(A), W(",")>>)
SetB == When(BigB, <<W("d="), Slot(B), W(",")>>)
Each(kids) == El("foreach", [collection |-> <<"list">>, item |-> X, index |-> <<"i">>, open |-> <<W("in"), W("(")>>,
                             close |-> <<W(")")>>, separator |-> <<W(",")>>], kids)
Choose == El("choose", [none |-> 0],
             <<El("when", [test |-> HasA], <<T(And(<<W("p="), Slot(A)>>))>>),
               El("otherwise", [none |-> 0], <<T(And(<<W("q="), Slot(B)>>))>>)>>)
Include(id) == El("include", [refid |-> id], <<>>)
NoAttrs == [none |-> 0]

Elements ==
  {T(<<W("id="), Slot(A), Space, W("n="), Slot(B)>>), CondA, El("where", NoAttrs, <<CondA, CondB>>), El("set", NoAttrs, <<SetA, SetB>>),
   El("trim", [prefix |-> "where", prefixOverrides |-> {"and", "or"}], <<CondA, CondB>>),
   El("trim", [prefix |-> "set", suffixOverrides |-> {",", "or"}], <<SetA, When(BigB, <<W("d="), W("color")>>)>>),
   Each(<<T(<<Slot(X)>>)>>), Each(<<T(<<Slot(X \o <<"k">>), Space, Slot(B)>>)>>),
   El("where", NoAttrs, <<Choose, Each(<<T(<<Slot(X)>>)>>)>>),
   Include("cols"), Include("named"), Include("both"), Include("none"),
   T(<<W("order"), Space, RawSlot(B), Space, W("limit"), Space, Slot(A)>>), El("selectKey", NoAttrs, <<T(<<W("k")>>)>>)}

Select(attrs, kids) ==
  El("select", attrs, IF Head(kids).tag = "#text" THEN <<T(<<W("q"), Space>> \o Head(kids).text)>> \o Tail(kids)
                      ELSE <<T(<<W("q")>>)>> \o kids)
BindPat == El("bind", [name |-> <<"pat">>, value |-> <<[const |-> Txt(25)], [ref |-> A]>>], <<>>)
MCStatements ==
  {Select([id |-> "s"], <<e>>) : e \in Elements}
  \union {Select([id |-> "s"], <<d, e>>) : d \in Elements, e \in {x \in Elements : x.tag # "#text"}}
  \union {Select([id |-> "s", parameterType |-> type], <<CondA, Each(<<T(<<Slot(X)>>)>>)>>) :
            type \in {"int", "map", "list"}}
  \union {Select([id |-> "s"], <<BindPat, T(<<W("like"), Slot(<<"pat">>)>>), e>>) : e \in {CondA, CondB}}
MCFragments ==
  [cols |-> El("sql", NoAttrs, <<T(<<W("c1"), W(","), W("c2")>>)>>),
   named |-> El("sql", NoAttrs, <<T(<<W("n="), Slot(B)>>)>>),
   both |-> El("sql", NoAttrs, <<T(<<W("m="), Slot(A)>>), CondB>>)]

Absent == [absent |-> TRUE]
Chosen(a, b, l) == ("A" :> a) @@ ("b" :> b) @@ ("list" :> l)
Maps == {Map([k \in {x \in {"A", "b", "list"} : c[x] # Absent} |-> c[k]]) :
           c \in {Chosen(a, b, l) : a \in {Absent, Nil, Num(1), Str(<<>>), Txt(20)}, b \in {Absent, Num(2), Str(<<1, 5>>)},
                                    l \in {Absent, Slice(<<>>), Slice(<<Num(1), Struct([k |-> Num(7)])>>)}}}
MCArguments ==
  {<<m>> : m \in Maps}
  \union {<<>>, <<Num(3)>>, <<Slice(<<Num(1), Num(2)>>)>>, <<Slice(<<>>)>>, <<Struct([a |-> Num(1), B |-> Num(2)])>>,
          <<Num(3), Txt(20)>>, <<Nil>>, <<Map([A |-> Txt(41), b |-> Num(2)])>>, <<Map([A |-> Num(1), b |-> Txt(40)])>>,
          <<Map([A |-> Num(1), b |-> Txt(41)])>>}

\* The token of a word of a template: "T" is a hole for a table, "?" a
\* parameter, "json?" an operator; words in quotes are strings.
Word1(w) ==
  CASE w = "T" -> Table [] w = "_T" -> Sql!Tok("backtick", <<"T">>) [] w = "_d" -> Sql!Tok("backtick", <<"d">>) [] w = "?" -> Param
    [] w = "json?" -> Sql!Punct("?") [] w = "nl" -> Sql!Newline
    [] w \in {"(", ")", ",", ".", "=", ";", "#", "|"} -> Sql!Punct(w)
    [] w = "'?'" -> Sql!Tok("string", <<"?">>) [] w = "%Y" -> Sql!Tok("string", <<w>>)
    [] w = "' limit 3'" -> Sql!Tok("string", <<" ", "limit", " ", "3">>) [] w = "' where x'" -> Sql!Tok("string", <<" ", "where", " ", "x">>)
    [] OTHER -> Sql!Kw(w)
Glue == {Sql!Punct("."), Sql!Punct("(")}
\* Blanks stand between words, but not around dots and before brackets.
Line(words) ==
  FlattenSeq([i \in DOMAIN words |->
    IF i = 1 \/ Word1(words[i]) \in Glue \/ Word1(words[i - 1]) = Sql!Punct(".") THEN <<Word1(words[i])>>
    ELSE <<Sql!Blank, Word1(words[i])>>])

MCTemplates == {Line(words) : words \in {
  <<"select", "c", "from", "T", "a", ",", "T", "b", "where", "a", ".", "T2", "=", "?", "and", "d", "=", "'?'">>,
  <<"select", "c", "from", "public", ".", "T", "left", "join", "_T", "using", "(", "z", ")">>,
  <<"delete", "from", "T", "using", "main", ".", "T", ",", "dual", "where", "c", "in", "(", "?", ")">>,
  <<"select", "c", "from", "other", ".", "user", ",", "dual", ",", "T", ",", "generate", "(", "?", ",", "?", ")", "where", "c", "in", "(", "select", "d", "from", "only", "T", ")">>,
  <<"insert", "into", "T", "(", "c", ")", "values", "(", "?", ",", "?", ")">>,
  <<"update", "_T", "set", "c", "=", "?", "where", "d", "json?", "'?'", "and", "e", "=", "?">>,
  <<"delete", "from", "T", "where", "c", "between", "?", "and", "?">>,
  <<"create", "table", "if", "not", "exists", "T", "(", "c", ")">>,
  <<"create", "index", "i", "on", "T", "(", "c", ")">>,
  <<"rename", "table", "T", "to", "T">>,
  <<"with", "recursive", "cte", "as", "(", "select", "c", "from", "T", ")", ",", "user", "as", "not", "materialized", "(", "select", "c", "from", "cte", ")", "select", "c", "from", "cte", ",", "T", ",", "user">>,
  <<"select", "ifnull", "(", "c", ",", "find_in_set", "(", "d", ",", "e", ")", ")", ",", "date_format", "(", "_d", ",", "%Y", ")", "from", "T", "where", "f", "=", "?">>,
  <<"select", "find_in_set", "(", "?", ",", "d", ")", "from", "T">>,
  <<"select", "c", "#", "from", "dual", "json?", "nl", "from", "T", "where", "c", "=", "?">>}}
MCTableNames == {<<"user">>, <<"test_", "user">>, <<"sys_", "org">>, <<"pg_", "class">>}
Known(base) == {{}, base, {<<"test_">> \o t : t \in base}, base \union {<<"test_">> \o t : t \in base}}
MCRewrites == [prefix : {"", "test_"}, map : {<<>>, "sys_" :> "", "sys_" :> "v2_"},
               tables : Known({<<"user">>, <<"sys_", "org">>}), reserved : {{<<"dual">>}}]

MCQueries ==
  [head : {Line(<<"select", "c", "nl">>), Line(<<"select", "(", "select", "d", "from", "u", "order", "by", "e", "limit", "1", ")", "nl">>)},
   body : {Line(<<"from", "t">>), Line(<<"from", "t", "where", "d", "=", "' limit 3'">>), Line(<<"from", "t", "join", "u", "on", "d", "=", "' where x'">>),
           Line(<<"from", "t", "where", "d", "in", "(", "select", "d", "from", "u", "limit", "2", ")">>)},
   order : {<<>>, Line(<<"nl", "order", "by", "c">>)}, limit : {<<>>, Line(<<"nl", "limit", "9", "offset", "3">>)},
   end : {<<>>, Line(<<";">>)}]
Where(words) == [sql |-> Line(words)]
MCWrappers ==
  [calls : {<<>>, <<Where(<<"a", "=", "1">>)>>, <<Where(<<"a", "=", "1">>), Sql!OrNext, Sql!In(Sql!Kw("b"), <<>>)>>,
            <<Sql!In(Sql!Kw("b"), <<Sql!Kw("1"), Sql!Kw("2")>>), [nested |-> <<Where(<<"a", "=", "1">>), Sql!OrNext, Where(<<"c", "=", "2">>)>>]>>},
   clause : {<<>>, Line(<<"order", "by", "d">>)}, last : {<<>>}]
MCPages == [num : {1, 3}, size : {2}]

MCResultSets == [rows : UNION {[1 .. n -> {"good", "badScan", "badColumn"}] : n \in 0 .. 3}, lost : BOOLEAN]
MCMaxRows == {-1, 0, 2}
MCGlobalLimits == {-1, 0, 3}

Edges == {-32, -16, -5, -4, -1, 0, 1, 3, 4, 7, 8, 15, 16, 31, 32, 63}
Numbers(t) == {Num(n) : n \in {e \in Edges : C!Fits(t, e)}}
Time == [time |-> 1]
Column(scan, db, hint, cells) == [scan |-> scan, db |-> db, hint |-> hint, cells |-> cells \union {Nil}]
MCColumnTypes ==
  {Column(t, "", "none", Numbers(t)) : t \in {"int8", "uint8", "int32", "uint32", "int", "int64", "uint64"}}
  \union {Column(t, "", "int", {Num(-5), Num(3)}) : t \in {"sql.NullInt64", "float32", "float64", "sql.NullFloat64"}}
  \union {Column("bool", "", "bool", {Bool(TRUE), Bool(FALSE)}), Column("sql.NullTime", "", "none", {Time})}
  \union {Column(t, db, hint, IF db = "BIT" THEN {Txt(C!Byte0), Txt(C!Byte1)} ELSE {Num(-5), Num(3), Txt(20), Time, Bool(TRUE)}) :
            t \in {"string", "interface {}", "nil", "sql.RawBytes", "[]uint8"}, db \in {"", "BIT"},
            hint \in {"none", "string", "bool", "int", "int64", "float64", "time.Time"}}
MCFieldTypes == {"string", "bool", "int8", "uint8", "int64", "uint64", "float64", "time.Time", "json"}

User == [id |-> "int64", name |-> "string", age |-> "int8"]
MCModels == [User |-> User, Admin |-> [id |-> "int64", name |-> "string"]]
Own == [type |-> "User", columns |-> [id |-> "id", user_name |-> "name", kind |-> "none"], disc |-> "none", cases |-> <<>>]
Case(type) == [Own EXCEPT !.type = type, !.columns = [id |-> "id", user_name |-> "name", age |-> "age"]]
MCResults ==
  {[kind |-> "resultMap", map |-> rm] :
     rm \in {Own, Case("User"), [Own EXCEPT !.disc = "kind", !.cases = (<<1>> :> Case("User")) @@ (<<2>> :> Case("Admin")) @@ (<<3>> :> Case("Gone"))]}}
  \union {[kind |-> "model", type |-> "User"], [kind |-> "scalar", type |-> "int64"], [kind |-> "map"]}
Value(t, v) == C!Typed(t, v)
MCRows ==
  {[id |-> Value("int64", 4), user_name |-> Value("string", <<20>>), kind |-> Value("int", k)] : k \in 0 .. 3}
  \union {[id |-> Value("string", <<20>>), age |-> Value("int32", 3)], [age |-> Value("int32", 3), name |-> Value("bool", TRUE)], <<>>}
MCRowSets == {<<r>> : r \in MCRows} \union {<<r, q>> : r \in MCRows, q \in MCRows} \union {<<>>}
MCColumnOrders == {<<"id", "user_name", "kind", "age", "name">>, <<"name", "kind", "age", "user_name", "id">>}

MCColumns == <<"age", "deleted", "id", "name", "version">>
Field(c) == [col |-> c, primary |-> c = "id", logic |-> c = "deleted", version |-> c = "version"]
MCModel == [table |-> "users", fields |-> [i \in DOMAIN MCColumns |-> Field(MCColumns[i])]]
V(c, n) == [col |-> c, v |-> n]
Restricted(c, op, args) == [do |-> "Where", expr |-> <<Sql!Kw(c), op, G!Param>>, args |-> args, or |-> FALSE]
Eq(c, n) == Restricted(c, Sql!Punct("="), <<V(c, n)>>)
InList(c, ns) == Restricted(c, Sql!Kw("in"), <<[slice |-> [i \in DOMAIN ns |-> V(c, ns[i])]]>>)
EqMap(or) == [do |-> "Where", map |-> [name |-> V("name", 5), age |-> V("age", 6)], or |-> or]
Both == [do |-> "Where", expr |-> Eq("id", 1).expr \o <<Sql!Kw("and")>> \o InList("age", <<>>).expr,
         args |-> <<V("id", 7), [slice |-> <<V("age", 8), V("age", 9)>>]>>, or |-> TRUE]
Bases == {<<>>, <<[do |-> "Table", name |-> "users"]>>, <<[do |-> "Model", model |-> MCModel]>>,
          <<[do |-> "Model", model |-> MCModel], [do |-> "Table", name |-> "old_users"]>>}
Conds == {<<>>, <<Eq("name", 1)>>, <<InList("age", <<1, 2>>), Eq("name", 3)>>, <<InList("age", <<>>)>>, <<EqMap(FALSE), Both>>,
          <<Eq("age", 1), EqMap(TRUE), InList("id", <<4>>)>>, <<[do |-> "Where", other |-> 1, or |-> FALSE]>>}
Extras == {<<>>, <<[do |-> "Select", cols |-> <<"id", "name">>], [do |-> "Order", cols |-> <<"age">>], [do |-> "Limit", n |-> 5], [do |-> "Offset", n |-> 2]>>,
           <<[do |-> "Distinct", cols |-> <<"name">>], [do |-> "Group", cols |-> <<"name", "age">>],
             [do |-> "Having", expr |-> <<Sql!Kw("age"), Sql!Punct(">"), G!Param>>, args |-> <<V("age", 2)>>]>>,
           <<[do |-> "Raw", expr |-> <<Sql!Kw("select"), Sql!Kw("age"), Sql!Punct("="), G!Param>>, args |-> <<V("age", 3)>>]>>}
MCChains == {b \o c \o e : b \in Bases, c \in Conds, e \in Extras}
Item(id, name, age) == [id |-> V("id", id), name |-> V("name", name), age |-> V("age", age), deleted |-> V("deleted", 1), version |-> V("version", 1)]
Creating(items, one, returning) == [do |-> "Create", items |-> items, one |-> one, returning |-> returning]
MCFinishers ==
  {[do |-> do] : do \in {"Find", "Scan", "First", "Last", "Count"}}
  \union {Creating(<<Item(id, 2, 3)>>, TRUE, r) : id \in {0, 1}, r \in BOOLEAN}
  \union {Creating(<<Item(i, 2, 3), Item(j, 4, 5)>>, FALSE, TRUE) : i \in {0, 1}, j \in {0, 2}}
  \union {[do |-> "Update", col |-> "age", value |-> V("age", 11)]}
  \union {[do |-> "Updates", values |-> v] : v \in {[map |-> [name |-> V("name", 12), age |-> V("age", 13)]], [struct |-> Item(1, 0, 14)], [struct |-> Item(1, 0, 0)]}}
  \union {[do |-> "Delete", items |-> items] : items \in {<<>>, <<Item(0, 1, 1)>>, <<Item(15, 1, 1)>>}}
=============================================================================
