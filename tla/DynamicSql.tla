------------------------------ MODULE DynamicSql ------------------------------
(***************************************************************************)
(* Dynamic SQL (types/sqlfragment): the nodes a statement's body is parsed *)
(* into and what they render.  A text is a sequence of tokens, blanks      *)
(* among them, so that two words without a Space between them are one word *)
(* to the database.  A rendering is the text, the values bound to its      *)
(* marks and the parameter map, which <bind> changes for what follows.     *)
(* A mark keeps the value it stands for.  A string holds the text of a     *)
(* placeholder as one character.  ctx is the call: the map,                *)
(* the one scalar or the slice it was given, or nothing; whether values    *)
(* are bound to marks (Prepare) or written into the text (Generate); and   *)
(* whether tests are strict.                                               *)
(***************************************************************************)
EXTENDS IfTest

Space == [space |-> TRUE]
W(w) == [w |-> w]
Slot(name) == [slot |-> name, raw |-> FALSE]  \* #{name}
RawSlot(name) == [slot |-> name, raw |-> TRUE]  \* ${name}
Mark(v) == [mark |-> v]
Inline(v) == [inline |-> v]
RawText(v) == [rawtext |-> v]
Panic == [panic |-> TRUE]
IsSlot(t) == "slot" \in DOMAIN t
IsMark(t) == "mark" \in DOMAIN t

Ctx(mode, m, v, inline, strict) == [mode |-> mode, m |-> m, v |-> v, inline |-> inline, strict |-> strict]
Rendering(text, vals, m) == [text |-> text, vals |-> vals, m |-> m]
Nothing(ctx) == Rendering(<<>>, <<>>, ctx.m)

\* What strings.TrimSpace takes for empty.
BlankToken(t) ==
  CASE "space" \in DOMAIN t -> TRUE
    [] "rawtext" \in DOMAIN t -> t.rawtext = Str(<<>>)
    [] "inline" \in DOMAIN t -> ~Formats(t.inline)
    [] OTHER -> FALSE
Blank(text) == \A i \in DOMAIN text : BlankToken(text[i])

TrimLeft(text) ==
  LET solid == {i \in DOMAIN text : ~BlankToken(text[i])}
  IN IF solid = {} THEN <<>> ELSE SubSeq(text, CHOOSE i \in solid : \A j \in solid : i <= j, Len(text))
TrimSpace(text) == Reverse(TrimLeft(Reverse(TrimLeft(text))))

Starts(text, words, needsBlank) ==
  /\ text # <<>> /\ Head(text) \in {W(w) : w \in words}
  /\ needsBlank => Len(text) > 1 /\ BlankToken(text[2])

AndOrKept(text) == TrimSpace(text)

\* One leading AND or OR that a blank follows.
TrimLeadingAndOr(text) ==
  LET t == TrimLeft(text) IN TrimSpace(IF Starts(t, {"and", "or"}, TRUE) THEN Tail(t) ELSE t)

RECURSIVE DropCommas(_)
DropCommas(text) == IF Starts(text, {","}, FALSE) THEN DropCommas(Tail(text)) ELSE text
\* The run of commas at either end.
TrimSetCommas(text) ==
  LET front == TrimSpace(DropCommas(TrimLeft(text)))
  IN TrimSpace(Reverse(DropCommas(Reverse(front))))

\* What a tail that is the end of a word, and not all of it, leaves of the words
\* of the inputs.
Stems == (<<"color", "or">> :> "col")
Ending(t, tails) == {w \in tails : "w" \in DOMAIN t /\ <<t.w, w>> \in DOMAIN Stems}
WithoutTail(e, tails) ==
  IF Starts(e, tails, FALSE) THEN Tail(e)
  ELSE IF e = <<>> \/ Ending(Head(e), tails) = {} THEN e
  ELSE <<W(Stems[<<Head(e).w, CHOOSE w \in Ending(Head(e), tails) : TRUE>>])>> \o Tail(e)

\* <trim>: one of the words heads at the start, if a blank or nothing follows
\* it, one of tails at the end, even of a word, then the prefix and the suffix.
WrapBody(n, body) ==
  LET b == TrimLeft(body)
      headless == IF Starts(b, n.heads, Len(b) > 1) THEN Tail(b) ELSE body
      content == TrimSpace(Reverse(WithoutTail(TrimLeft(Reverse(headless)), n.tails)))
  IN IF content = <<>> THEN <<>>
     ELSE (IF n.prefix = "" THEN <<>> ELSE <<W(n.prefix), Space>>) \o content
          \o (IF n.suffix = "" THEN <<>> ELSE <<Space, W(n.suffix)>>)

-----------------------------------------------------------------------------
ValuesOfAll(text, found) == FlattenSeq([i \in DOMAIN text |->
  IF IsSlot(text[i]) /\ ~text[i].raw THEN <<OrNil(found[i])>> ELSE <<>>])

ValuesOf(text, found) == FlattenSeq([i \in DOMAIN text |->
  IF IsSlot(text[i]) /\ ~text[i].raw /\ found[i] # {} THEN <<OrNil(found[i])>> ELSE <<>>])

\* The characters of a value that stand for the text of a placeholder.
Placeholders == (40 :> Slot(<<"a">>)) @@ (41 :> Slot(<<"b">>))
HoldsPlaceholder(v) == Is(v, "str") /\ ToSet(v.str) \intersect DOMAIN Placeholders # {}

\* A value as it is written into the text, the placeholders in it among its tokens.
Written(v, As(_)) ==
  IF ~HoldsPlaceholder(v) THEN <<As(v)>>
  ELSE [i \in DOMAIN v.str |-> IF v.str[i] \in DOMAIN Placeholders THEN Placeholders[v.str[i]] ELSE As(Str(<<v.str[i]>>))]

Substitute(text, slot, by) == FlattenSeq([i \in DOMAIN text |-> IF text[i] = slot THEN by ELSE <<text[i]>>])

\* The placeholders of the text, one after another, become marks (or values)
\* where their parameters are found; one that is not found stays.  A value
\* written by then is part of the text, so that a placeholder in it is
\* replaced if its turn is still to come.
RenderText(n, ctx) ==
  LET found == [i \in DOMAIN n.text |->
                 IF ~IsSlot(n.text[i]) THEN {}
                 ELSE IF ctx.mode = "param" THEN {ctx.v} ELSE LookupParam(ctx.m, n.text[i].slot)]
      Put(i) == IF n.text[i].raw THEN Written(OrNil(found[i]), RawText)
                ELSE IF ctx.inline THEN Written(OrNil(found[i]), Inline) ELSE <<Mark(OrNil(found[i]))>>
      text == FoldLeft(LAMBDA t, i : IF found[i] = {} THEN t ELSE Substitute(t, n.text[i], Put(i)),
                       n.text, [i \in DOMAIN n.text |-> i])
  IN IF ctx.mode = "slice" /\ (\E i \in DOMAIN n.text : IsSlot(n.text[i])) THEN Rendering(<<Panic>>, <<>>, ctx.m)
     ELSE IF ctx.mode \in {"slice", "none"} THEN Rendering(n.text, <<>>, ctx.m)
     ELSE Rendering(text, IF ctx.inline THEN <<>> ELSE ValuesOf(n.text, found), ctx.m)

\* <bind>: one operand keeps its type; several numbers are added, anything
\* else is joined as text, nil as nothing.
BindValue(terms, m) ==
  LET value == [i \in DOMAIN terms |->
                 IF "ref" \in DOMAIN terms[i] THEN OrNil(LookupParam(m, terms[i].ref)) ELSE terms[i].const]
  IN IF Len(terms) = 1 THEN value[1]
     ELSE IF \A i \in DOMAIN terms : Is(value[i], "num")
          THEN Num(FoldLeft(LAMBDA s, v : s + v.num, 0, value))
     ELSE Str(FlattenSeq([i \in DOMAIN value |-> Sprint(value[i])]))

Bind(n, ctx) ==
  LET v == BindValue(n.terms, ctx.m)
  IN IF ctx.mode = "map"
     THEN Rendering(<<>>, <<>>, (n.name :> v) @@ (BuildKey(n.name) :> v) @@ ctx.m)
     ELSE Nothing(ctx)

\* The map of one turn of <foreach>: a name of the outer map hides the index,
\* the item hides the outer map; an item that is itself a slice is not bound.
BuildParams(n, index, item, m) ==
  LET outer == m @@ (BuildKey(n.index) :> Str(Digits[index]))
      own == BuildKey(n.item) :> item
      fields == IF ~Is(item, "struct") THEN <<>>
                ELSE [k \in {BuildKey(n.item \o <<f>>) : f \in DOMAIN item.struct} |->
                       item.struct[CHOOSE f \in DOMAIN item.struct : BuildKey(n.item \o <<f>>) = k]]
  IN IF Is(item, "slice") THEN outer ELSE own @@ fields @@ outer

RECURSIVE Render(_, _)

Add(acc, before, r) == Rendering(acc.text \o before \o r.text, acc.vals \o r.vals, r.m)
With(ctx, m) == [ctx EXCEPT !.m = m]

\* A blank before every child: statements, <if>, <include>, <otherwise>.
Spaced(kids, ctx) ==
  FoldLeft(LAMBDA acc, k : Add(acc, <<Space>>, Render(k, With(ctx, acc.m))), Nothing(ctx), kids)

\* <where>, <set>, <trim>: a child that renders blank is left out, its values too.
Container(kids, ctx) ==
  FoldLeft(LAMBDA acc, k :
             LET r == Render(k, With(ctx, acc.m))
             IN IF Blank(r.text) THEN [acc EXCEPT !.m = r.m] ELSE Add(acc, <<Space>>, r),
           Nothing(ctx), kids)

\* The body of <foreach>: nothing between the children.
Glued(kids, ctx) ==
  FoldLeft(LAMBDA acc, k : Add(acc, <<>>, Render(k, With(ctx, acc.m))), Nothing(ctx), kids)

LoopEach(n, items, ctx) ==
  LET Turn(acc, i) ==
        LET r == Glued(n.kids, With([ctx EXCEPT !.mode = "map"], BuildParams(n, i - 1, items[i], ctx.m)))
        IN Rendering(acc.text \o <<Space>> \o r.text \o (IF i < Len(items) THEN n.sep ELSE <<>>),
                     acc.vals \o r.vals, ctx.m)
      all == FoldLeft(Turn, Rendering(<<Space>> \o n.open, <<>>, ctx.m), [i \in DOMAIN items |-> i])
  IN IF items = <<>> THEN Nothing(ctx) ELSE [all EXCEPT !.text = @ \o n.close]

\* The collection is looked up by its whole key only; nil ends in a panic.
Foreach(n, ctx) ==
  LET key == BuildKey(n.coll) IN
  CASE ctx.mode = "slice" -> LoopEach(n, ctx.v.slice, With(ctx, <<>>))
    [] ctx.mode = "map" /\ key \in DOMAIN ctx.m ->
         IF Is(ctx.m[key], "nil") THEN Rendering(<<Panic>>, <<>>, ctx.m)
         ELSE IF Is(ctx.m[key], "slice") THEN LoopEach(n, ctx.m[key].slice, ctx) ELSE Nothing(ctx)
    [] OTHER -> Nothing(ctx)

\* With a slice only text (as it stands), <include> and <foreach> are rendered.
IfSlice(n, ctx) ==
  LET Child(k) == CASE k.tag = "text" -> Rendering(k.text, <<>>, ctx.m)
                    [] k.tag \in {"include", "foreach"} -> Render(k, ctx)
                    [] OTHER -> Nothing(ctx)
  IN IF ctx.v.slice = <<>> THEN Nothing(ctx)
     ELSE FoldLeft(LAMBDA acc, k : Add(acc, <<Space>>, Child(k)), Nothing(ctx), n.kids)

RenderIf(n, ctx) ==
  CASE ctx.mode = "map" -> IF CheckConditions(n.test, ctx.m, ctx.strict) THEN Spaced(n.kids, ctx) ELSE Nothing(ctx)
    [] ctx.mode = "param" -> Spaced(n.kids, ctx)
    [] ctx.mode = "slice" -> IfSlice(n, ctx)
    [] OTHER -> Nothing(ctx)

\* The first <when> whose test holds, else <otherwise>; with no map to test,
\* <otherwise>.
RenderChoose(n, ctx) ==
  LET holds == {i \in DOMAIN n.whens : ctx.mode = "map" /\ CheckConditions(n.whens[i].test, ctx.m, ctx.strict)}
  IN IF ctx.mode = "slice" THEN Nothing(ctx)
     ELSE IF holds = {} THEN Spaced(n.otherwise, ctx)
     ELSE RenderIf(n.whens[CHOOSE i \in holds : \A j \in holds : i <= j], ctx)

\* A fragment of plain text is written as it stands, placeholders and all.
RenderInclude(n, ctx) == IF n.kids = <<>> THEN Rendering(n.text, <<>>, ctx.m) ELSE Spaced(n.kids, ctx)

RenderWhere(n, ctx) ==
  LET body == Container(n.kids, ctx)
  IN IF Blank(body.text) THEN Nothing(With(ctx, body.m))
     ELSE [body EXCEPT !.text = <<W("where"), Space>> \o TrimLeadingAndOr(@)]

RenderSet(n, ctx) ==
  LET body == Container(n.kids, ctx)
      content == TrimSetCommas(body.text)
  IN IF content = <<>> THEN Nothing(With(ctx, body.m))
     ELSE [body EXCEPT !.text = <<W("set"), Space>> \o content]

RenderTrim(n, ctx) ==
  LET body == Container(n.kids, ctx)
  IN IF Blank(body.text) THEN Nothing(With(ctx, body.m)) ELSE [body EXCEPT !.text = WrapBody(n, @)]

Render(n, ctx) ==
  CASE n.tag = "text" -> RenderText(n, ctx)
    [] n.tag = "if" -> RenderIf(n, ctx)
    [] n.tag = "choose" -> RenderChoose(n, ctx)
    [] n.tag = "where" -> RenderWhere(n, ctx)
    [] n.tag = "set" -> RenderSet(n, ctx)
    [] n.tag = "trim" -> RenderTrim(n, ctx)
    [] n.tag = "foreach" -> Foreach(n, ctx)
    [] n.tag = "include" -> RenderInclude(n, ctx)
    [] n.tag = "bind" -> Bind(n, ctx)
    [] OTHER -> Nothing(ctx)

-----------------------------------------------------------------------------
\* What is collected from a body, each name once, in the order it first occurs.
Distinct(names) ==
  FoldLeft(LAMBDA out, x : IF \E i \in DOMAIN out : BuildKey(out[i]) = BuildKey(x) THEN out ELSE Append(out, x),
           <<>>, names)

Children(n) ==
  CASE n.tag = "choose" -> n.whens \o n.otherwise
    [] n.tag \in {"text", "bind", "unsupported"} -> <<>>
    [] OTHER -> n.kids

RECURSIVE Walk(_), CollectSlots(_), CollectIfTestFields(_), ContainsForEach(_)
Walk(items) == FlattenSeq([i \in DOMAIN items |-> <<items[i]>> \o Walk(Children(items[i]))])

SlotsOfText(text) == LET slots == SelectSeq(text, IsSlot) IN [i \in DOMAIN slots |-> slots[i].slot]

\* The placeholders that every call renders: none of <if>, <choose>, <foreach>.
CollectSlots(n) ==
  CASE n.tag = "text" -> SlotsOfText(n.text)
    [] n.tag \in {"where", "set", "trim", "include"} -> FlattenSeq([i \in DOMAIN n.kids |-> CollectSlots(n.kids[i])])
    [] OTHER -> <<>>

CollectSqlSlots(items) == Distinct(FlattenSeq([i \in DOMAIN items |-> CollectSlots(items[i])]))
CertainSlots(items) == CollectSqlSlots(items)
CollectAllSqlSlots(items) ==
  LET nodes == Walk(items) IN Distinct(FlattenSeq([i \in DOMAIN nodes |-> CollectSlots(nodes[i])]))

ContainsForEach(items) ==
  \E i \in DOMAIN items : items[i].tag = "foreach" \/ ContainsForEach(Children(items[i]))

Binds(items) == SelectSeq(Walk(items), LAMBDA n : n.tag = "bind")
CollectBoundNames(items) == LET bs == Binds(items) IN Distinct([i \in DOMAIN bs |-> bs[i].name])
BindRefs(n) ==
  LET refs == SelectSeq(n.terms, LAMBDA t : "ref" \in DOMAIN t) IN [i \in DOMAIN refs |-> refs[i].ref]
CollectBindRefs(items) ==
  LET bs == Binds(items) IN Distinct(FlattenSeq([i \in DOMAIN bs |-> BindRefs(bs[i])]))

\* A test's names by their first segment; params is any map.
IfTestExprFieldNames(test) ==
  LET p == ParseIfExpr(test)
      cs == SelectSeq(ParseIfTestConditions(test), LAMBDA c : c # Unknown)
  IN IF p.ok THEN {<<f[1]>> : f \in Fields(p.e)} \ {<<"params">>}
     ELSE {c.name : c \in {d \in ToSet(cs) : d.name[1] # "params"}}

CollectIfTestFields(n) ==
  CASE n.tag = "if" -> IfTestExprFieldNames(n.test) \union UNION {CollectIfTestFields(k) : k \in ToSet(n.kids)}
    [] n.tag = "choose" -> UNION {CollectIfTestFields(k) : k \in ToSet(Children(n))}
    [] n.tag \in {"where", "set", "trim"} -> UNION {CollectIfTestFields(k) : k \in ToSet(n.kids)}
    [] OTHER -> {}

CollectUnsupportedTags(items) ==
  LET us == SelectSeq(Walk(items), LAMBDA n : n.tag = "unsupported") IN {u.name : u \in ToSet(us)}
CollectUnsupportedIfTests(items) ==
  LET tests == {n.test : n \in {k \in ToSet(Walk(items)) : k.tag = "if"}}
  IN {t \in tests : ~ParseIfExpr(t).ok /\ Unknown \in ToSet(ParseIfTestConditions(t))}

-----------------------------------------------------------------------------
\* ExtractStaticSQL: the text with a mark for each #{name} and the names, of a
\* body of text and of fragments of text; anything else is not static.
RECURSIVE Static(_)
Static(n) ==
  CASE n.tag = "text" \/ (n.tag = "include" /\ n.kids = <<>>) ->
         [ok |-> \A i \in DOMAIN n.text : ~(IsSlot(n.text[i]) /\ n.text[i].raw),
          text |-> [i \in DOMAIN n.text |-> IF IsSlot(n.text[i]) THEN W("?") ELSE n.text[i]],
          names |-> SlotsOfText(n.text)]
    [] n.tag = "include" ->
         LET parts == [i \in DOMAIN n.kids |-> Static(n.kids[i])]
         IN [ok |-> \A i \in DOMAIN parts : parts[i].ok,
             text |-> TrimSpace(FlattenSeq([i \in DOMAIN parts |-> <<Space>> \o parts[i].text])),
             names |-> FlattenSeq([i \in DOMAIN parts |-> parts[i].names])]
    [] OTHER -> [ok |-> FALSE, text |-> <<>>, names |-> <<>>]

ExtractStaticSQL(items) ==
  LET all == Static([tag |-> "include", kids |-> items])
  IN [all EXCEPT !.ok = @ /\ items # <<>> /\ all.text # <<>>]
=============================================================================
