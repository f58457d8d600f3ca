------------------------------- MODULE SqlText --------------------------------
(***************************************************************************)
(* What happens to the text of a statement on its way to the driver: table *)
(* names are moved to the configured prefix (orm/table_prefix.go), "?" is  *)
(* written the way of the database (orm/dialector/placeholder.go), a page  *)
(* and its count are derived (orm/sql_rewrite.go, dialector/sql_scan.go,   *)
(* base.go), a wrapper's condition is added (orm/wrapper_rewrite.go).      *)
(* A text is a sequence of tokens [k, t]: a kind and a name, the sequence  *)
(* of its parts, so that a table's prefix is its first part.  Names are in *)
(* lower case, as every comparison of the code folds case; the parts of a  *)
(* string are its words and the blanks (" ") between them.  The scanners   *)
(* differ in what they take for a comment or a string.                     *)
(***************************************************************************)
EXTENDS Integers, Sequences, FiniteSets, SequencesExt, TLC

Tok(k, t) == [k |-> k, t |-> t]
Kw(w) == Tok("word", <<w>>)
Punct(p) == Tok("punct", <<p>>)
Blank == Tok("space", <<>>)
Newline == Tok("newline", <<>>)
NumberOf(n) == [k |-> "mark", n |-> n]
Spaces == {"space", "newline"}
Identifiers == {"word", "quoted", "backtick"} \* "quoted" is in double quotes
Is(s, i, w) == i \in DOMAIN s /\ s[i] = w

\* From "#" to the end of its line.
InHash(s, i) == \E h \in 1 .. i : s[h] = Punct("#") /\ \A j \in h .. i : s[j].k # "newline"

\* tokenizeSQL takes "#" for a comment of every database.
TokenizeSQL(s) ==
  IF Punct("#") \notin ToSet(s) THEN s
  ELSE [i \in DOMAIN s |-> IF InHash(s, i) THEN [s[i] EXCEPT !.k = "comment"] ELSE s[i]]

\* The next token that is neither blank nor comment, 0 if there is none.
NextSig(s, i) ==
  LET sig == {j \in i + 1 .. Len(s) : s[j].k \notin Spaces \union {"comment"}}
  IN IF sig = {} THEN 0 ELSE CHOOSE j \in sig : \A l \in sig : j <= l

NextIsLParen(s, i) == Is(s, NextSig(s, i), Punct("("))

HasPrefix(name, p) == p = "" \/ Head(name) = p
Prefixed(p, name) == IF p = "" THEN name ELSE <<p>> \o name
SystemPrefixes == {"pg_", "sqlite_", "pragma_", "information_schema", "pg_catalog"}

\* Where the tables of the schema are known, the prefixed name wins if it is
\* one of them, else the bare name does, else the prefix is applied.
PrefixRequired(name, c) ==
  /\ Head(name) \notin SystemPrefixes /\ ~HasPrefix(name, c.prefix)
  /\ Prefixed(c.prefix, name) \in c.tables \/ name \notin c.tables

\* c.map has one entry at most: of several that fit, the code takes any.
Mapped(name, c) == {old \in DOMAIN c.map : old # "" /\ HasPrefix(name, old)}

\* applyToken: the mapping comes first; an old prefix is taken off only if no
\* known table says otherwise.
ApplyToken(name, allowPrefix, ctes, c) ==
  IF Mapped(name, c) # {}
  THEN LET new == c.map[CHOOSE old \in Mapped(name, c) : TRUE]
       IN IF new = "" /\ (name \in c.tables \/ Prefixed(c.prefix, name) \in c.tables) THEN name
          ELSE Prefixed(new, Tail(name))
  ELSE IF allowPrefix /\ name \notin ctes /\ PrefixRequired(name, c) THEN Prefixed(c.prefix, name)
  ELSE name

MatchParen(s, i) ==
  LET open(j) == Cardinality({l \in i .. j : s[l] = Punct("(")})
      shut(j) == Cardinality({l \in i .. j : s[l] = Punct(")")})
      ends == {j \in i .. Len(s) : open(j) = shut(j)}
  IN IF ends = {} THEN 0 ELSE CHOOSE j \in ends : \A l \in ends : j <= l

RECURSIVE CTENames(_, _), SkipWords(_, _, _)
SkipWords(s, i, words) == IF i # 0 /\ s[i] \in words THEN SkipWords(s, NextSig(s, i), words) ELSE i

\* cteModeCollect: the names WITH defines, from the token i on.
CTENames(s, i) ==
  LET n == SkipWords(s, i, {Kw("recursive")})
      as == IF n = 0 THEN 0 ELSE NextSig(s, n)
      p == IF as = 0 THEN 0 ELSE SkipWords(s, NextSig(s, as), {Kw("not"), Kw("materialized")})
      end == IF p = 0 THEN 0 ELSE MatchParen(s, p)
      comma == IF end = 0 THEN 0 ELSE NextSig(s, end)
  IN IF n = 0 \/ s[n].k # "word" \/ ~Is(s, as, Kw("as")) \/ ~Is(s, p, Punct("(")) THEN {}
     ELSE {s[n].t} \union (IF Is(s, comma, Punct(",")) THEN CTENames(s, NextSig(s, comma)) ELSE {})

ClauseBreakWords ==
  {"where", "on", "set", "select", "group", "having", "order", "limit", "values", "union", "and", "or", "by", "as",
   "distinct", "when", "then", "else", "end", "case", "in", "exists", "like", "not", "null", "is", "returning",
   "offset", "fetch", "for", "using", "left", "right", "inner", "outer", "cross", "full", "natural"}
Modifiers == {"if", "not", "exists", "only", "lateral"}

\* The name a schema at token i qualifies, if there is one: its token and
\* whether there is a dot at all.
Qualified(s, i) ==
  LET dot == NextSig(s, i)
      name == {k \in {NextSig(s, dot)} : Is(s, dot, Punct(".")) /\ k # 0 /\ s[k].k \in Identifiers}
  IN [dot |-> Is(s, dot, Punct(".")), at |-> IF name = {} THEN i ELSE CHOOSE k \in name : TRUE]

\* A reserved name, or a function of a FROM list.
Aside(st, s, i, reserved) == s[i].t \in reserved \/ (st.from /\ NextIsLParen(s, i))
DefaultSchemas == {<<"public">>, <<"main">>}

\* The table behind token i is renamed; of a foreign schema only by the map.
Named(st, s, i, q, c) ==
  LET default == q.at = i \/ s[i].t \in DefaultSchemas
      after == [st EXCEPT !.expect = FALSE, !.comma = TRUE, !.resume = q.at + 1,
                          !.to = ~st.byTo /\ (@ \/ st.rename), !.rename = @ /\ ~st.byTo, !.byTo = FALSE]
  IN IF \/ q.dot /\ (q.at = i \/ Aside(st, s, q.at, c.reserved))
        \/ ~default /\ Mapped(s[q.at].t, c) = {}
     THEN after
     ELSE [after EXCEPT !.out[q.at].t = ApplyToken(@, default, st.ctes, c)]

\* A token where a table is expected.
AtTable(st, s, i, c) ==
  IF s[i].k = "word" /\ Head(s[i].t) \in Modifiers THEN st
  ELSE IF Aside(st, s, i, c.reserved) THEN [st EXCEPT !.expect = FALSE, !.comma = TRUE]
  ELSE Named(st, s, i, Qualified(s, i), c)

\* A word elsewhere: it may make a table the next thing to expect.
AtWord(st, s, i) ==
  LET w == Head(s[i].t)
      plain == [st EXCEPT !.comma = FALSE]
  IN CASE w \in {"from", "join", "using"} -> [plain EXCEPT !.expect = TRUE, !.from = TRUE]
       [] w \in {"into", "update", "table"} \/ (w = "on" /\ st.index) \/ (w = "to" /\ st.to) ->
            [st EXCEPT !.expect = TRUE, !.from = FALSE, !.comma = @ /\ w \in {"on", "to"},
                       !.index = @ /\ w # "on", !.to = @ /\ w # "to", !.byTo = @ \/ w = "to"]
       [] w = "index" -> [plain EXCEPT !.index = TRUE]
       [] w = "rename" -> [plain EXCEPT !.rename = TRUE]
       [] w = "with" -> [plain EXCEPT !.ctes = @ \union CTENames(s, NextSig(s, i))]
       [] w \in ClauseBreakWords \union {"on", "to"} -> plain
       [] OTHER -> st

RewriteStep(st, s, i, c) ==
  LET t == s[i] IN
  IF i < st.resume THEN st
  ELSE CASE t.k \in Identifiers /\ st.expect -> AtTable(st, s, i, c)
         [] t.k = "word" /\ ~st.expect -> AtWord(st, s, i)
         [] t \in {Punct("("), Punct(")")} -> [st EXCEPT !.expect = FALSE, !.comma = FALSE]
         [] t = Punct(",") /\ st.comma -> [st EXCEPT !.expect = TRUE]
         [] OTHER -> st

RECURSIVE RewriteFrom(_, _, _, _)
RewriteFrom(i, st, s, c) == IF i > Len(s) THEN st ELSE RewriteFrom(i + 1, RewriteStep(st, s, i, c), s, c)

Expecting(src) ==
  [out |-> src, expect |-> FALSE, comma |-> FALSE, from |-> FALSE, ctes |-> {}, index |-> FALSE,
   rename |-> FALSE, to |-> FALSE, byTo |-> FALSE, resume |-> 1]

\* rewriteSQLTablesWithMap: c holds the prefix, the prefix map, the known tables
\* (none if they are not known) and the dialect's reserved names.
RewriteSQLTables(src, c) ==
  IF c.prefix = "" /\ c.map = <<>> THEN src
  ELSE RewriteFrom(1, Expecting(src), TokenizeSQL(src), c).out

\* A token where extractTableNamesFromSQL expects a table.
Listed(st, s, i, q, reserved) ==
  IF q.at # i THEN s[i].t \in DefaultSchemas /\ ~Aside(st, s, q.at, reserved)
  ELSE /\ ~q.dot /\ Head(s[i].t) \notin SystemPrefixes
       /\ ~(s[i].k = "word" /\ Head(s[i].t) \in ClauseBreakWords)
NamesAt(st, s, i, q, reserved) ==
  [st EXCEPT !.expect = FALSE, !.comma = TRUE, !.resume = q.at + 1,
             !.names = IF Listed(st, s, i, q, reserved) THEN Append(@, s[q.at].t) ELSE @]

NameStep(st, s, i, reserved) ==
  LET t == s[i]
      w == IF t.k = "word" THEN Head(t.t) ELSE "" IN
  IF i < st.resume \/ (st.expect /\ w \in Modifiers) THEN st
  ELSE CASE t.k \in Identifiers /\ st.expect ->
              IF Aside(st, s, i, reserved) THEN [st EXCEPT !.expect = FALSE, !.comma = TRUE]
              ELSE NamesAt(st, s, i, Qualified(s, i), reserved)
         [] w \in {"from", "join", "using", "into", "update", "table"} /\ ~st.expect ->
              [st EXCEPT !.expect = TRUE, !.comma = FALSE, !.from = w \in {"from", "join", "using"}]
         [] w \in ClauseBreakWords /\ ~st.expect -> [st EXCEPT !.comma = FALSE]
         [] t \in {Punct("("), Punct(")")} -> [st EXCEPT !.expect = FALSE, !.comma = FALSE]
         [] t = Punct(",") /\ st.comma -> [st EXCEPT !.expect = TRUE]
         [] OTHER -> st

RECURSIVE NamesFrom(_, _, _, _)
NamesFrom(i, st, s, reserved) == IF i > Len(s) THEN st.names ELSE NamesFrom(i + 1, NameStep(st, s, i, reserved), s, reserved)

\* extractTableNamesFromSQL: the tables whose structures type the columns of a result.
ExtractTableNames(src, reserved) ==
  NamesFrom(1, [names |-> <<>>, expect |-> FALSE, comma |-> FALSE, from |-> FALSE, resume |-> 1],
            TokenizeSQL(src), reserved)

-----------------------------------------------------------------------------
\* jsonb's ?, ?| and ?&: a "?" between two operands is taken for an operator.
IsJSONQuestionOp(s, i) ==
  LET near(js) == IF js = {} THEN {} ELSE {s[CHOOSE j \in js : \A l \in js : (j < i => l <= j) /\ (j > i => j <= l)]}
      prev == near({j \in 1 .. i - 1 : s[j].k \notin Spaces})
      next == near({j \in i + 1 .. Len(s) : s[j].k \notin Spaces})
      operand(t) == t.k \in {"word", "string", "dollar", "quoted"}
  IN \/ Is(s, i + 1, Punct("|")) \/ Is(s, i + 1, Punct("&"))
     \/ /\ \E t \in prev : operand(t) \/ t.k = "backtick" \/ t = Punct(")")
        /\ \E t \in next : operand(t)

EveryQuestion(s, i, style) == s[i] \in {Punct("?"), Tok("string", <<"?">>)}

\* The placeholders: "#" opens a comment where "?" is the database's own style.
Questions(s, i, style) ==
  /\ s[i] = Punct("?")
  /\ ~(style = "question" /\ InHash(s, i))
  /\ ~IsJSONQuestionOp(s, i)

\* rewritePlaceholders: numbered from 1 in the order of the text.
FormatPrepareSQL(s, style) ==
  [i \in DOMAIN s |-> IF style # "question" /\ Questions(s, i, style)
                      THEN NumberOf(Cardinality({j \in 1 .. i : Questions(s, j, style)})) ELSE s[i]]

-----------------------------------------------------------------------------
\* The arguments between two brackets, blank ones left out.
CallArgs(s, open, shut) ==
  LET depth(j) == Cardinality({l \in open .. j : s[l] = Punct("(")}) - Cardinality({l \in open .. j : s[l] = Punct(")")})
      cuts == {open, shut} \union {j \in open .. shut : s[j] = Punct(",") /\ depth(j) = 1}
      ends == SetToSortSeq(cuts, <)
      arg(i) == LET part == SubSeq(s, ends[i] + 1, ends[i + 1] - 1)
                    solid == {j \in DOMAIN part : part[j].k \notin Spaces}
                IN SubSeq(part, 1 + Cardinality({j \in DOMAIN part : \A l \in solid : j < l}),
                          Len(part) - Cardinality({j \in DOMAIN part : \A l \in solid : j > l}))
  IN SelectSeq([i \in 1 .. Len(ends) - 1 |-> arg(i)], LAMBDA a : a # <<>>)

MysqlToPgFormats == ("%Y" :> "YYYY") @@ ("%m" :> "MM") @@ ("%d" :> "DD") @@ ("%H" :> "HH24") @@ ("%i" :> "MI")
                    @@ ("%s" :> "SS") @@ ("%T" :> "HH24:MI:SS")
ConvertDateFormatLiteral(lit) ==
  [lit EXCEPT !.t = [i \in DOMAIN @ |-> IF @[i] \in DOMAIN MysqlToPgFormats THEN MysqlToPgFormats[@[i]] ELSE @[i]]]

ConcatOp == <<Punct("|"), Punct("|")>>
Comma == Tok("string", <<",">>)

Position(args) ==
  <<Kw("position"), Punct("("), Comma>> \o ConcatOp \o args[1] \o ConcatOp \o <<Comma, Blank, Kw("in"), Blank, Comma>>
  \o ConcatOp \o args[2] \o ConcatOp \o <<Comma, Punct(")")>>

RECURSIVE RewriteMySqlCompat(_)
RewriteCall(s, shut, args) ==
  CASE s[1] = Kw("find_in_set") /\ Len(args) = 2 ->
         Position([i \in 1 .. 2 |-> RewriteMySqlCompat(args[i])]) \o RewriteMySqlCompat(SubSeq(s, shut + 1, Len(s)))
    [] s[1] = Kw("date_format") /\ Len(args) = 2 /\ Len(args[2]) = 1 /\ args[2][1].k = "string" ->
         <<Kw("to_char"), Punct("(")>> \o RewriteMySqlCompat(args[1])
         \o <<Punct(","), Blank, ConvertDateFormatLiteral(args[2][1]), Punct(")")>>
         \o RewriteMySqlCompat(SubSeq(s, shut + 1, Len(s)))
    [] OTHER -> <<s[1]>> \o RewriteMySqlCompat(Tail(s))

\* A word and the bracket behind it; a call without its end stays as it is.
RewriteWordAt(s, open, shut) ==
  IF s[1] = Kw("ifnull") THEN <<Kw("coalesce")>> \o RewriteMySqlCompat(SubSeq(s, open, Len(s)))
  ELSE RewriteCall(s, shut, IF shut = 0 THEN <<>> ELSE CallArgs(s, open, shut))

\* MySQL's functions and quotes in the words of PostgreSQL; strings stay as they are.
RewriteMySqlCompat(s) ==
  IF s = <<>> THEN <<>>
  ELSE IF s[1].k = "backtick" THEN <<[s[1] EXCEPT !.k = "quoted"]>> \o RewriteMySqlCompat(Tail(s))
  ELSE IF s[1] \in {Kw("ifnull"), Kw("find_in_set"), Kw("date_format")} /\ NextIsLParen(s, 1)
       THEN RewriteWordAt(s, NextSig(s, 1), MatchParen(s, NextSig(s, 1)))
  ELSE <<s[1]>> \o RewriteMySqlCompat(Tail(s))

\* What ExecContext and QueryContext make of the statement with its tables in
\* place; the functions are rewritten for PostgreSQL alone, when that is on.
ForDriver(s, style, compat) == FormatPrepareSQL(IF compat THEN RewriteMySqlCompat(s) ELSE s, style)

-----------------------------------------------------------------------------
\* Brackets open before token i; one that closes none is ignored.
Depth(s, i) ==
  FoldLeft(LAMBDA d, t : IF t = Punct("(") THEN d + 1 ELSE IF t = Punct(")") /\ d > 0 THEN d - 1 ELSE d,
           0, SubSeq(s, 1, i - 1))

\* keyword is a sequence of words.  This scanner knows no dollar quotes and no "#".
MatchKeywordAt(s, i, keyword) ==
  LET rest == SelectSeq(SubSeq(s, i, Len(s)), LAMBDA t : t.k \notin Spaces)
  IN /\ s[i].k \in {"word", "dollar"} /\ s[i].t = <<keyword[1]>>
     /\ Len(rest) >= Len(keyword)
     /\ \A j \in DOMAIN keyword : rest[j].k \in {"word", "dollar"} /\ rest[j].t = <<keyword[j]>>

\* The first token of the first such clause outside every bracket, 0 if none.
TopLevelClausePos(s, keywords) ==
  LET hits == {i \in DOMAIN s : (\E k \in keywords : MatchKeywordAt(s, i, k)) /\ Depth(s, i) = 0}
  IN IF hits = {} THEN 0 ELSE CHOOSE i \in hits : \A j \in hits : i <= j

TrimRight(s) ==
  LET solid == {i \in DOMAIN s : s[i].k \notin Spaces /\ s[i] # Punct(";")}
  IN SubSeq(s, 1, IF solid = {} THEN 0 ELSE CHOOSE i \in solid : \A j \in solid : j <= i)

StripTopLevelTailClauses(s, keywords) ==
  LET pos == TopLevelClausePos(s, keywords) IN IF pos = 0 THEN s ELSE TrimRight(SubSeq(s, 1, pos - 1))

PageClauses == {<<"limit">>, <<"offset">>}
CountTailKeywords == PageClauses \union
  {<<"order", "by">>, <<"returning">>, <<"for", "update">>, <<"for", "share">>,
   <<"for", "no", "key", "update">>, <<"for", "key", "share">>}

ApplyPagination(s, limit, offset) ==
  IF limit <= 0 THEN s
  ELSE StripTopLevelTailClauses(TrimRight(s), PageClauses)
       \o <<Blank, Kw("limit"), Blank, NumberOf(limit)>>
       \o (IF offset > 0 THEN <<Blank, Kw("offset"), Blank, NumberOf(offset)>> ELSE <<>>)

Offset(page) == IF page.num <= 1 THEN 0 ELSE (page.num - 1) * page.size

\* SELECT ... FROM at the top level becomes SELECT COUNT(*) FROM.
BuildCountSQL(s) ==
  LET q == StripTopLevelTailClauses(TrimRight(s), CountTailKeywords)
      select == TopLevelClausePos(q, {<<"select">>})
      from == TopLevelClausePos(q, {<<"from">>})
  IN IF select = 0 \/ from < select THEN q
     ELSE SubSeq(q, 1, select) \o <<Blank, Kw("count(*)"), Blank>> \o SubSeq(q, from, Len(q))

OrNext == [or |-> TRUE]
\* The conditions of a wrapper as the calls that build them: a condition of
\* Eq, In..., an empty In, Or for the next one, a nested wrapper.
RECURSIVE ConditionSQL(_)
ConditionSQL(calls) ==
  LET sqlOf(call) == IF "nested" \notin DOMAIN call THEN call.sql
                     ELSE LET sub == ConditionSQL(call.nested)
                          IN IF sub = <<>> THEN <<>> ELSE <<Punct("(")>> \o sub \o <<Punct(")")>>
      add(w, call) ==
        IF call = OrNext THEN [w EXCEPT !.nextOr = TRUE]
        ELSE LET text == sqlOf(call)
             IN IF text = <<>> THEN w
                ELSE [nextOr |-> FALSE,
                      sql |-> IF w.sql = <<>> THEN text
                              ELSE w.sql \o <<Blank, IF w.nextOr THEN Kw("or") ELSE Kw("and"), Blank>> \o text]
  IN FoldLeft(add, [nextOr |-> FALSE, sql |-> <<>>], calls).sql

In(col, vals) ==
  [sql |-> IF vals = <<>> THEN <<Kw("1=0")>>
           ELSE <<col, Blank, Kw("in"), Blank, Punct("(")>>
                \o [i \in 1 .. 2 * Len(vals) - 1 |-> IF i % 2 = 1 THEN vals[(i + 1) \div 2] ELSE Punct(",")] \o <<Punct(")")>>]

\* The wrapper's regular expressions know no strings: they see a string as its
\* words and blanks between two delimiters.
Delimiter == Punct("'")
Opened(s) ==
  FlattenSeq([i \in DOMAIN s |->
    IF s[i].k # "string" THEN <<s[i]>>
    ELSE <<Delimiter>> \o [j \in DOMAIN s[i].t |-> IF s[i].t[j] = " " THEN Blank ELSE Kw(s[i].t[j])] \o <<Delimiter>>])
\* What the delimiters enclose in the end is a string, whatever it was.
Closed(s) ==
  FoldLeft(LAMBDA st, t :
             CASE t = Delimiter -> [text |-> IF st.inside THEN Append(st.text, Tok("string", st.t)) ELSE st.text,
                                    inside |-> ~st.inside, t |-> <<>>]
               [] t # Delimiter /\ st.inside -> [st EXCEPT !.t = @ \o (IF t.k \in Spaces THEN <<" ">> ELSE t.t)]
               [] OTHER -> [st EXCEPT !.text = Append(@, t)],
           [text |-> <<>>, inside |-> FALSE, t |-> <<>>], s).text

\* A keyword with a blank before it, between its words and behind it.
FoundAt(s, i, keyword) ==
  /\ i > 1 /\ s[i - 1].k \in Spaces /\ s[i] = Kw(keyword[1])
  /\ \E j \in i .. Len(s) - 1 :
       /\ s[j].k \notin Spaces /\ s[j + 1].k \in Spaces
       /\ SelectSeq(SubSeq(s, i, j), LAMBDA t : t.k \notin Spaces) = [n \in DOMAIN keyword |-> Kw(keyword[n])]

\* applyQueryWrapper: the condition goes before the tail, w's own clauses after
\* it.  Neither the tail nor the WHERE is told from one inside a bracket or a string.
WrapperTail == {<<"group", "by">>, <<"having">>, <<"order", "by">>, <<"limit">>, <<"offset">>, <<"for", "update">>}
SplitWrapperTail(s) ==
  LET tails == {i \in DOMAIN s : \E k \in WrapperTail : FoundAt(s, i, k)}
      cut == IF tails = {} THEN Len(s) + 1 ELSE CHOOSE i \in tails : \A j \in tails : i <= j
  IN [core |-> SubSeq(s, 1, cut - 1), tail |-> SubSeq(s, cut, Len(s))]

TrimBlanks(s) ==
  LET solid == {i \in DOMAIN s : s[i].k \notin Spaces}
  IN SubSeq(s, 1, IF solid = {} THEN 0 ELSE CHOOSE i \in solid : \A j \in solid : j <= i)

Joined(parts) == FoldLeft(LAMBDA out, p : IF p = <<>> THEN out ELSE IF out = <<>> THEN p ELSE out \o <<Blank>> \o p, <<>>, parts)

ApplyQueryWrapper(s, w) ==
  LET parts == SplitWrapperTail(Opened(s))
      given == ConditionSQL(w.calls)
      joiner == IF \E i \in DOMAIN parts.core : FoundAt(parts.core, i, <<"where">>) THEN Kw("and") ELSE Kw("where")
      cond == IF given = <<>> THEN <<>> ELSE <<joiner, Blank, Punct("(")>> \o given \o <<Punct(")")>>
  IN IF given \o w.clause \o w.last = <<>> THEN s
     ELSE Closed(Joined(<<TrimBlanks(parts.core), cond, TrimBlanks(parts.tail), w.clause, w.last>>))
=============================================================================
