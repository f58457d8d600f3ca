-------------------------------- MODULE IfTest --------------------------------
(***************************************************************************)
(* The tests of <if> and <when> (types/sqlfragment/if_expr.go and if.go).  *)
(* A test is a sequence of lexemes.  It is compiled to an expression by    *)
(* recursive descent; a test the grammar refuses falls back to the older   *)
(* reading, a list of conditions cut at each "and" and matched against     *)
(* five patterns.  A parse returns the expression and the lexemes left, or *)
(* fails; an evaluation returns a value or an error.                       *)
(***************************************************************************)
EXTENDS Params

Word(w) == [word |-> w]      \* an identifier without dots, or an operator's name
Path(p) == [path |-> p]      \* a dotted identifier
Sym(s) == [sym |-> s]
Number(n) == [number |-> n]
Quote(s) == [quote |-> s]

Const(v) == [const |-> v]
Ref(p) == [ref |-> p, length |-> FALSE]
Length(p) == [ref |-> p, length |-> TRUE]
Not(e) == [not |-> e]
Neg(e) == [neg |-> e]
Binary(op, l, r) == [op |-> op, left |-> l, right |-> r]

IfWordOperator ==
  [and |-> "and", or |-> "or", not |-> "not", eq |-> "==", neq |-> "!=", ne |-> "!=",
   lt |-> "<", lte |-> "<=", le |-> "<=", gt |-> ">", gte |-> ">=", ge |-> ">="]
Symbols == {"==", "!=", ">=", "<=", "&&", "||", ">", "<", "!", "+", "-", "*", "/", "%", "(", ")"}
Same == ("&&" :> "and") @@ ("||" :> "or") @@ ("!" :> "not")

\* Words that are operators become operators, whatever their case; a symbol
\* outside the list (a single "=", "?") makes the whole test fail.
Token(x) ==
  IF "word" \in DOMAIN x /\ Lower(x.word) \in DOMAIN IfWordOperator
  THEN Sym(IfWordOperator[Lower(x.word)])
  ELSE IF "sym" \in DOMAIN x /\ x.sym \in DOMAIN Same THEN Sym(Same[x.sym]) ELSE x
Tokenizes(src) == \A i \in DOMAIN src : "sym" \in DOMAIN src[i] => src[i].sym \in Symbols

Fails == [ok |-> FALSE]
Parsed(e, rest) == [ok |-> TRUE, e |-> e, rest |-> rest]
At(ts, ops) == ts # <<>> /\ "sym" \in DOMAIN Head(ts) /\ Head(ts).sym \in ops

OrLevel == 1
AndLevel == 2
AddLevel == 3
MulLevel == 4
Ops == <<{"or"}, {"and"}, {"+", "-"}, {"*", "/", "%"}>>
Comparisons == {"==", "!=", ">", ">=", "<", "<="}

RECURSIVE ParseBinary(_, _), Operand(_, _), Loop(_, _), ParseUnary(_), ParseNeg(_), ParsePrimary(_)

ParsePrimary(ts) ==
  IF ts = <<>> THEN Fails
  ELSE LET t == Head(ts)  rest == Tail(ts) IN
    IF "number" \in DOMAIN t THEN Parsed(Const(Num(t.number)), rest)
    ELSE IF "quote" \in DOMAIN t THEN Parsed(Const(Str(t.quote)), rest)
    ELSE IF At(ts, {"("})
         THEN LET inner == ParseBinary(OrLevel, rest)
              IN IF inner.ok /\ At(inner.rest, {")"})
                 THEN Parsed(inner.e, Tail(inner.rest)) ELSE Fails
    ELSE IF "path" \in DOMAIN t
         THEN Parsed(IF Last(t.path) \in {"length", "size"} THEN Length(Front(t.path)) ELSE Ref(t.path), rest)
    ELSE IF "word" \in DOMAIN t
         THEN Parsed(CASE Lower(t.word) \in {"null", "nil"} -> Const(Nil)
                       [] Lower(t.word) = "true" -> Const(Bool(TRUE))
                       [] Lower(t.word) = "false" -> Const(Bool(FALSE))
                       [] OTHER -> Ref(<<t.word>>), rest)
    ELSE Fails

ParseNeg(ts) ==
  IF At(ts, {"-"})
  THEN LET inner == ParseNeg(Tail(ts)) IN IF inner.ok THEN Parsed(Neg(inner.e), inner.rest) ELSE Fails
  ELSE ParsePrimary(ts)

\* At most one comparison: what follows a second one is left over.
ParseComparison(ts) ==
  LET left == ParseBinary(AddLevel, ts) IN
  IF ~left.ok \/ ~At(left.rest, Comparisons) THEN left
  ELSE LET right == ParseBinary(AddLevel, Tail(left.rest))
       IN IF right.ok THEN Parsed(Binary(Head(left.rest).sym, left.e, right.e), right.rest) ELSE Fails

ParseUnary(ts) ==
  IF At(ts, {"not"})
  THEN LET inner == ParseUnary(Tail(ts)) IN IF inner.ok THEN Parsed(Not(inner.e), inner.rest) ELSE Fails
  ELSE ParseComparison(ts)

Operand(level, ts) ==
  CASE level = OrLevel -> ParseBinary(AndLevel, ts)
    [] level = AndLevel -> ParseUnary(ts)
    [] level = AddLevel -> ParseBinary(MulLevel, ts)
    [] level = MulLevel -> ParseNeg(ts)

LoopRight(level, left) ==
  IF ~left.ok \/ ~At(left.rest, Ops[level]) THEN left
  ELSE LET right == ParseBinary(level, Tail(left.rest))
       IN IF right.ok THEN Parsed(Binary(Head(left.rest).sym, left.e, right.e), right.rest) ELSE Fails

\* Operators of one level associate to the left.
Loop(level, left) ==
  IF ~left.ok \/ ~At(left.rest, Ops[level]) THEN left
  ELSE LET right == Operand(level, Tail(left.rest))
       IN IF right.ok
          THEN Loop(level, Parsed(Binary(Head(left.rest).sym, left.e, right.e), right.rest))
          ELSE Fails

ParseBinary(level, ts) == Loop(level, Operand(level, ts))

ParseIfExpr(src) ==
  LET p == IF Tokenizes(src) THEN ParseBinary(OrLevel, [i \in DOMAIN src |-> Token(src[i])]) ELSE Fails
  IN IF p.ok /\ p.rest = <<>> THEN p ELSE Fails

-----------------------------------------------------------------------------
Error == [err |-> TRUE]

Truthy(v) ==
  CASE Is(v, "nil") -> FALSE
    [] Is(v, "bool") -> v.bool
    [] Is(v, "num") -> v.num # 0
    [] OTHER -> ValidValue(v)

RECURSIVE LessText(_, _)
LessText(s, t) ==
  t # <<>> /\ (s = <<>> \/ Head(s) < Head(t) \/ (Head(s) = Head(t) /\ LessText(Tail(s), Tail(t))))

Ordered(op, less, equal) ==
  CASE op = "==" -> equal
    [] op = "!=" -> ~equal
    [] op = "<" -> less
    [] op = "<=" -> less \/ equal
    [] op = ">" -> ~less /\ ~equal
    [] op = ">=" -> ~less

\* Two strings compare as text, two numbers (or numeric strings) as numbers,
\* and anything else, nil included, only for equality.
IfCompare(op, l, r) ==
  LET nils == Is(l, "nil") \/ Is(r, "nil")
      ln == Numeric(l)  rn == Numeric(r)
      equality == op \in {"==", "!="}
  IN IF ~nils /\ Is(l, "str") /\ Is(r, "str") THEN Ordered(op, LessText(l.str, r.str), l = r)
     ELSE IF ~nils /\ ln # {} /\ rn # {}
          THEN \E a \in ln, b \in rn : Ordered(op, a < b, a = b)
     ELSE equality /\ ((l = r) <=> (op = "=="))

\* A comparison with the literal null or '' asks whether the value is empty.
NullishCompare(v, op) == (op = "!=") <=> ValidValue(v)
IsNullishConst(e) == "const" \in DOMAIN e /\ e.const \in {Nil, Str(<<>>)}

Abs(n) == IF n < 0 THEN -n ELSE n
Rem(a, b) == IF a < 0 THEN -(Abs(a) % Abs(b)) ELSE a % Abs(b)
Quo(a, b) == IF (a < 0) = (b < 0) THEN Abs(a) \div Abs(b) ELSE -(Abs(a) \div Abs(b))

\* The inputs divide without a fraction.
Arith(op, l, r) ==
  LET ln == Numeric(l)  rn == Numeric(r) IN
  IF op = "+" /\ (Is(l, "str") \/ Is(r, "str")) THEN Str(Sprint(l) \o Sprint(r))
  ELSE IF ln = {} \/ rn = {} \/ (op \in {"/", "%"} /\ rn = {0}) THEN Error
  ELSE LET a == CHOOSE n \in ln : TRUE  b == CHOOSE n \in rn : TRUE IN
       Num(CASE op = "+" -> a + b
             [] op = "-" -> a - b
             [] op = "*" -> a * b
             [] op = "/" -> Quo(a, b)
             [] op = "%" -> Rem(a, b))

LengthOf(v) ==
  CASE Is(v, "str") -> Len(v.str)
    [] Is(v, "slice") -> Len(v.slice)
    [] Is(v, "map") -> Cardinality(DOMAIN v.map)
    [] OTHER -> 0

RECURSIVE Eval(_, _)
\* and, or stop at the first operand that decides; every other operator
\* evaluates both sides, and an error of either is the result.
Eval(e, m) ==
  CASE "const" \in DOMAIN e -> e.const
    [] "ref" \in DOMAIN e -> LET v == OrNil(LookupParam(m, e.ref))
                             IN IF e.length THEN Num(LengthOf(v)) ELSE v
    [] "not" \in DOMAIN e -> LET v == Eval(e.not, m)
                             IN IF v = Error THEN Error ELSE Bool(~Truthy(v))
    [] "neg" \in DOMAIN e -> LET v == Eval(e.neg, m)
                             IN IF v = Error \/ Numeric(v) = {} THEN Error
                                ELSE Num(-(CHOOSE n \in Numeric(v) : TRUE))
    [] "op" \in DOMAIN e ->
         LET l == Eval(e.left, m) IN
         IF l = Error THEN Error
         ELSE IF e.op = "and" /\ ~Truthy(l) THEN Bool(FALSE)
         ELSE IF e.op = "or" /\ Truthy(l) THEN Bool(TRUE)
         ELSE LET r == Eval(e.right, m) IN
              IF r = Error THEN Error
              ELSE IF e.op \in {"and", "or"} THEN Bool(Truthy(r))
              ELSE IF e.op \notin Comparisons THEN Arith(e.op, l, r)
              ELSE IF e.op \in {"==", "!="} /\ IsNullishConst(e.right) THEN Bool(NullishCompare(l, e.op))
              ELSE IF e.op \in {"==", "!="} /\ IsNullishConst(e.left) THEN Bool(NullishCompare(r, e.op))
              ELSE Bool(IfCompare(e.op, l, r))

RECURSIVE Fields(_)
Fields(e) ==
  CASE "const" \in DOMAIN e -> {}
    [] "ref" \in DOMAIN e -> {e.ref}
    [] "not" \in DOMAIN e -> Fields(e.not)
    [] "neg" \in DOMAIN e -> Fields(e.neg)
    [] OTHER -> Fields(e.left) \union Fields(e.right)

-----------------------------------------------------------------------------
\* The older reading.  An item between two "and"s is matched in this order; the
\* null and empty tests check the item's first name.
Name(x) == "word" \in DOMAIN x \/ "path" \in DOMAIN x \/ "number" \in DOMAIN x
PathOf(x) == IF "word" \in DOMAIN x THEN <<x.word>> ELSE IF "path" \in DOMAIN x THEN x.path ELSE <<"number">>
Cond(name, check, op, lit) == [name |-> name, check |-> check, op |-> op, lit |-> lit]
Unknown == [unsupported |-> TRUE]

\* The text is cut at these three letters wherever they stand: in a word, in a
\* segment of a name, in a string.  The words of the inputs with what is left
\* of them; a string of the inputs holds the letters once at most, and its two
\* parts match no pattern.
AndCuts == ("and" :> <<"", "">>) @@ ("AND" :> <<"", "">>) @@ ("brand" :> <<"br", "">>)
           @@ ("android" :> <<"", "roid">>) @@ ("standard" :> <<"st", "ard">>)
AndLetters == <<11, 24, 14>>
Broken == [broken |-> TRUE]

CutName(name) ==
  FoldLeft(LAMBDA cut, part :
             LET left == IF part \in DOMAIN AndCuts THEN AndCuts[part] ELSE <<part>>
             IN Front(cut) \o <<Append(Last(cut), left[1])>> \o [i \in 1 .. Len(left) - 1 |-> <<left[i + 1]>>],
           <<<<>>>>, name)
NamePiece(name) == IF name = <<"">> THEN <<>> ELSE IF Len(name) = 1 THEN <<Word(name[1])>> ELSE <<Path(name)>>

\* The pieces of a lexeme, each a sequence of lexemes: one if it is not cut.
Pieces(x) ==
  CASE "word" \in DOMAIN x -> LET cut == CutName(<<x.word>>) IN [i \in DOMAIN cut |-> NamePiece(cut[i])]
    [] "path" \in DOMAIN x -> LET cut == CutName(x.path) IN [i \in DOMAIN cut |-> NamePiece(cut[i])]
    [] "quote" \in DOMAIN x /\ (\E i \in 1 .. Len(x.quote) - 2 : SubSeq(x.quote, i, i + 2) = AndLetters) ->
         <<<<Broken>>, <<Broken>>>>
    [] OTHER -> <<<<x>>>>

Split(src) ==
  FoldLeft(LAMBDA items, x : LET cut == Pieces(x)
                             IN Append(Front(items), Last(items) \o cut[1]) \o Tail(cut),
           <<<<>>>>, src)

IfCondition(item) ==
  LET Triples == {i \in DOMAIN item : i + 2 <= Len(item) /\ Name(item[i]) /\ "sym" \in DOMAIN item[i + 1]}
      Of(kind, ops) == {i \in Triples : kind \in DOMAIN item[i + 2] /\ item[i + 1].sym \in ops}
      nulls == {i \in Of("word", {"!="}) : item[i + 2].word = "null"}
      empties == {i \in Of("quote", {"!="}) : item[i + 2].quote = <<>>}
      texts == Of("quote", {"==", "!="})
      numbers == Of("number", Comparisons)
      First(S) == CHOOSE i \in S : \A j \in S : i <= j
      names == {i \in DOMAIN item : Name(item[i])}
  IN IF names = {} THEN Unknown
     ELSE LET name == PathOf(item[First(names)]) IN
       IF nulls # {} THEN Cond(name, "null", "!=", Nil)
       ELSE IF empties # {} THEN Cond(name, "empty", "!=", Nil)
       ELSE IF texts # {}
            THEN LET i == First(texts) IN Cond(PathOf(item[i]), "text", item[i + 1].sym, Str(item[i + 2].quote))
       ELSE IF numbers # {}
            THEN LET i == First(numbers) IN Cond(PathOf(item[i]), "number", item[i + 1].sym, Num(item[i + 2].number))
       ELSE IF Len(item) = 1 THEN Cond(name, "bool", "", Nil)
       ELSE Unknown

ParseIfTestConditions(src) ==
  LET items == SelectSeq(Split(src), LAMBDA i : i # <<>>)
  IN [i \in DOMAIN items |-> IfCondition(items[i])]

CheckValue(c, m) ==
  LET long == c.check = "number" /\ Len(c.name) > 1 /\ Last(c.name) = "length"
      found == LookupParam(m, IF long THEN Front(c.name) ELSE c.name)
  IN \E v \in found :
       /\ ~Is(v, "nil")
       /\ CASE c.check = "bool" -> Is(v, "bool") /\ v.bool
            [] c.check = "text" -> Is(v, "str") /\ Ordered(c.op, FALSE, v = c.lit)
            [] c.check = "number" ->
                 LET n == IF long
                          THEN IF Is(v, "str") \/ Is(v, "slice") \/ Is(v, "map") THEN {LengthOf(v)} ELSE {}
                          ELSE Numeric(v)
                 IN \E k \in n : Ordered(c.op, k < c.lit.num, k = c.lit.num)
            [] OTHER -> ValidValue(v)

\* A single identifier passes for the boolean true only; an error is false.
CheckExpr(src, e, m) ==
  LET v == Eval(e, m)
      bare == Len(src) = 1 /\ Name(src[1]) /\ PathOf(src[1]) \notin {<<"true">>, <<"false">>}
  IN IF v = Error THEN FALSE ELSE IF bare THEN v = Bool(TRUE) ELSE Truthy(v)

CheckLegacy(src, m, strict) ==
  LET cs == ParseIfTestConditions(src)
      known == SelectSeq(cs, LAMBDA c : c # Unknown)
  IN /\ ~(strict /\ known = <<>> /\ cs # <<>>)
     /\ \A i \in DOMAIN known : CheckValue(known[i], m)

CheckConditions(src, m, strict) ==
  LET p == ParseIfExpr(src) IN IF p.ok THEN CheckExpr(src, p.e, m) ELSE CheckLegacy(src, m, strict)
=============================================================================
