-------------------------------- MODULE Mapper --------------------------------
(***************************************************************************)
(* From a mapper file to the SQL of one call: the XML reader               *)
(* (types/sqlfragment/xml.go, stack.go), the parsers of the tags, a        *)
(* statement with the parameters derived from its placeholders             *)
(* (types/sql_function.go, sql_param.go), and PrepareSQL / GenerateSQL.    *)
(* A parse returns a sequence: the one node, or nothing on an error.       *)
(***************************************************************************)
EXTENDS DynamicSql

\* XML events, and the element they describe.
Open(tag, attrs) == [event |-> "open", tag |-> tag, attrs |-> attrs]
Close == [event |-> "close"]
Chars(text) == [event |-> "chars", text |-> text]
Comment == [event |-> "comment"]
Element(tag, attrs, kids) == [tag |-> tag, attrs |-> attrs, kids |-> kids]
TextElement(text) == [tag |-> "#text", text |-> text]

CommentsKept(events) == events

\* stripXmlComments: a comment becomes one blank of the text around it, so that
\* the text stays in one piece.
StripXmlComments(events) ==
  LET Join(out, e) ==
        LET x == IF e = Comment THEN Chars(<<Space>>) ELSE e
        IN IF x.event = "chars" /\ out # <<>> /\ Last(out).event = "chars"
           THEN Append(Front(out), Chars(Last(out).text \o x.text)) ELSE Append(out, x)
  IN FoldLeft(Join, <<>>, events)

AddKid(e, kid) == [e EXCEPT !.kids = Append(@, kid)]

\* ParseXmlNode: a stack of the elements still open, the innermost first; a
\* closed element goes to the one below it, or is the root.
XmlStep(st, e) ==
  CASE e.event = "open" -> [st EXCEPT !.stack = <<Element(e.tag, e.attrs, <<>>)>> \o @]
    [] e.event = "close" /\ Len(st.stack) > 1 ->
         [st EXCEPT !.stack = <<AddKid(@[2], @[1])>> \o SubSeq(@, 3, Len(@))]
    [] e.event = "close" /\ Len(st.stack) = 1 -> [st EXCEPT !.stack = <<>>, !.root = @ \o st.stack]
    [] e.event = "chars" /\ st.stack # <<>> /\ TrimSpace(e.text) # <<>> ->
         [st EXCEPT !.stack[1] = AddKid(@, TextElement(TrimSpace(e.text)))]
    [] OTHER -> st

\* The root read last; an element that is never closed is an error.
ParseXmlNode(events) ==
  LET end == FoldLeft(XmlStep, [stack |-> <<>>, root |-> <<>>], StripXmlComments(events))
  IN IF end.stack # <<>> \/ end.root = <<>> THEN <<>> ELSE <<Last(end.root)>>

-----------------------------------------------------------------------------
Text(text) == [tag |-> "text", text |-> text]
Attr(x, name, default) == IF name \in DOMAIN x.attrs THEN x.attrs[name] ELSE default

RECURSIVE Parse(_, _)

\* ParseFragments leaves out an element that does not parse.
ParseFragments(xs, sns) == FlattenSeq([i \in DOMAIN xs |-> Parse(xs[i], sns)])

\* <if>, <where> and <set> fail with their first child that does.
AllOrNone(xs, sns, Make(_)) ==
  LET kids == ParseFragments(xs, sns) IN IF Len(kids) = Len(xs) THEN <<Make(kids)>> ELSE <<>>

ParseIf(x, sns) ==
  IF "test" \notin DOMAIN x.attrs \/ x.kids = <<>> THEN <<>>
  ELSE AllOrNone(x.kids, sns, LAMBDA kids : [tag |-> "if", test |-> x.attrs.test, kids |-> kids])

\* Of several <otherwise> the last one counts; there must be one.
ParseChoose(x, sns) ==
  LET ws == SelectSeq(x.kids, LAMBDA k : k.tag = "when")
      os == SelectSeq(x.kids, LAMBDA k : k.tag = "otherwise")
      whens == FlattenSeq([i \in DOMAIN ws |-> ParseIf(ws[i], sns)])
      otherwise == IF os = <<>> THEN <<>> ELSE ParseFragments(Last(os).kids, sns)
  IN IF Len(whens) < Len(ws) \/ otherwise = <<>> THEN <<>>
     ELSE <<[tag |-> "choose", whens |-> whens, otherwise |-> otherwise]>>

ParseForeach(x, sns) ==
  IF "collection" \notin DOMAIN x.attrs \/ x.kids = <<>> THEN <<>>
  ELSE <<[tag |-> "foreach", coll |-> x.attrs.collection, item |-> Attr(x, "item", <<>>),
          index |-> Attr(x, "index", <<>>), open |-> Attr(x, "open", <<>>), close |-> Attr(x, "close", <<>>),
          sep |-> Attr(x, "separator", <<>>), kids |-> ParseFragments(x.kids, sns)]>>

ParseTrim(x, sns) ==
  <<[tag |-> "trim", prefix |-> Attr(x, "prefix", ""), suffix |-> Attr(x, "suffix", ""),
     heads |-> Attr(x, "prefixOverrides", {}), tails |-> Attr(x, "suffixOverrides", {}),
     kids |-> ParseFragments(x.kids, sns)]>>

ParseInclude(x, sns) ==
  IF "refid" \in DOMAIN x.attrs /\ x.attrs.refid \in DOMAIN sns
  THEN <<[tag |-> "include", text |-> sns[x.attrs.refid].text, kids |-> sns[x.attrs.refid].kids]>> ELSE <<>>

\* The operands of <bind> come split; an expression outside the subset is an
\* empty sequence, which the parser refuses.
ParseBind(x) ==
  IF Attr(x, "name", <<>>) = <<>> \/ Attr(x, "value", <<>>) = <<>> THEN <<>>
  ELSE <<[tag |-> "bind", name |-> x.attrs.name, terms |-> x.attrs.value]>>

Parse(x, sns) ==
  CASE x.tag = "#text" -> <<Text(x.text)>>
    [] x.tag = "if" -> ParseIf(x, sns)
    [] x.tag = "choose" -> ParseChoose(x, sns)
    [] x.tag \in {"where", "set"} -> AllOrNone(x.kids, sns, LAMBDA kids : [tag |-> x.tag, kids |-> kids])
    [] x.tag = "trim" -> ParseTrim(x, sns)
    [] x.tag \in {"for", "foreach"} -> ParseForeach(x, sns)
    [] x.tag = "include" -> ParseInclude(x, sns)
    [] x.tag = "bind" -> ParseBind(x)
    [] OTHER -> <<[tag |-> "unsupported", name |-> x.tag]>>

\* <sql>: its text, and its children if it has any tag.  No fragment is known
\* while they parse: an <include> in a <sql> is left out.
ParseSqlElement(x) ==
  LET texts == SelectSeq(x.kids, LAMBDA k : k.tag = "#text")
  IN [text |-> FlattenSeq([i \in DOMAIN texts |-> texts[i].text]),
      kids |-> IF Len(texts) = Len(x.kids) THEN <<>> ELSE ParseFragments(x.kids, <<>>)]

-----------------------------------------------------------------------------
\* parseSqlParamTypeFrom, by the short name of the type.
ParamTypeOf(name) ==
  CASE name \in {"string", "bool", "int", "int64", "long", "float", "double", "time"} -> "base"
    [] name \in {"list", "array", "slice"} -> "slice"
    [] name \in {"map", "hashmap"} -> "map"
    [] OTHER -> "struct"

\* The names of a statement without those its <bind>s make, and with those
\* the <bind>s refer to.
MergeSqlSlots(slots, bound, refs) ==
  LET made == {BuildKey(b) : b \in ToSet(bound)}
  IN Distinct(SelectSeq(slots \o refs, LAMBDA s : BuildKey(s) \notin made))

\* Without a parameterType the placeholders and <foreach> tell whether the
\* statement needs parameters.
ParseSqlFunction(x, sns) ==
  LET items == ParseFragments(x.kids, sns)
      bound == CollectBoundNames(items)
      refs == CollectBindRefs(items)
      slots == MergeSqlSlots(CollectSqlSlots(items), bound, refs)
      declared == "parameterType" \in DOMAIN x.attrs
  IN [items |-> items, slots |-> slots, hasBind |-> bound # <<>>,
      type |-> IF declared THEN ParamTypeOf(x.attrs.parameterType) ELSE "",
      need |-> declared \/ slots # <<>> \/ ContainsForEach(items),
      allSlots |-> MergeSqlSlots(CollectAllSqlSlots(items), bound, refs)]

Scalar(v) == Is(v, "bool") \/ Is(v, "num") \/ Is(v, "str")
ValidParam(f, args) ==
  \/ ~f.need
  \/ Len(args) > 1 /\ \A i \in DOMAIN args : ~Is(args[i], "nil")
  \/ /\ Len(args) <= 1
     /\ CASE f.type = "base" -> args # <<>> /\ (Scalar(args[1]) \/ Is(args[1], "slice"))
          [] f.type \in {"map", "struct"} -> args # <<>> /\ ~Scalar(args[1]) /\ ~Is(args[1], "nil")
          [] f.type = "slice" -> args # <<>> => ~Is(args[1], "nil")
          [] OTHER -> TRUE

EffectiveParamType(f, args) ==
  IF args = <<>> THEN f.type
  ELSE CASE Is(args[1], "slice") -> "slice"
         [] Is(args[1], "map") \/ Is(args[1], "struct") -> "map"
         [] Scalar(args[1]) -> "base"
         [] OTHER -> f.type

\* Several arguments are bound by position to the names of Slots, the rest to
\* arg0, arg1, ...
BuildParamMap(f, args) ==
  LET key(i) == IF i <= Len(f.slots) THEN BuildKey(f.slots[i]) ELSE <<(<<"arg0", "arg1", "arg2">>)[i]>>
  IN FoldLeft(LAMBDA m, i : (key(i) :> args[i]) @@ m, <<>>, [i \in DOMAIN args |-> i])

\* bindParamMap: the map a statement with <bind> is rendered with, if any.
BindParamMap(f, args) ==
  CASE args = <<>> -> {<<>>}
    [] Len(args) > 1 -> {BuildParamMap(f, args)}
    [] Is(args[1], "map") ->
         {[k \in {<<x>> : x \in DOMAIN args[1].map} |-> args[1].map[k[1]]] @@ Convert2Map(args[1])}
    [] Is(args[1], "struct") -> {Convert2Map(args[1])}
    [] Len(f.slots) = 1 -> {f.slots[1] :> args[1]}
    [] OTHER -> {}

\* How a call is rendered: not at all (it is refused), or in one of the modes of
\* DynamicSql.  A statement that derives its need and gets no argument reads
\* args[0] all the same.
Route(f, args) ==
  LET To(mode, m, v) == {[mode |-> mode, m |-> m, v |-> v]}
      kind == EffectiveParamType(f, args)
  IN IF ~ValidParam(f, args) \/ (args # <<>> /\ Is(args[1], "nil")) THEN {}
     ELSE IF f.hasBind
          THEN IF args # <<>> /\ kind = "slice" THEN To("slice", <<>>, args[1])
               ELSE UNION {To("map", m, Nil) : m \in BindParamMap(f, args)}
     ELSE IF ~f.need /\ args = <<>> THEN To("none", <<>>, Nil)
     ELSE IF Len(args) > 1 THEN To("map", BuildParamMap(f, args), Nil)
     ELSE IF kind = "slice" THEN To("slice", <<>>, IF args = <<>> THEN Slice(<<>>) ELSE args[1])
     ELSE IF args = <<>> THEN To("panic", <<>>, Nil)
     ELSE IF kind = "base" THEN To("param", <<>>, args[1])
     ELSE To("map", Convert2Map(args[1]), Nil)

\* PrepareSQL, or GenerateSQL if inline: no rendering, or one.
PrepareSQL(f, args, inline, strict) ==
  {IF how.mode = "panic" THEN Rendering(<<Panic>>, <<>>, <<>>)
   ELSE Spaced(f.items, Ctx(how.mode, how.m, how.v, inline, strict)) : how \in Route(f, args)}
=============================================================================
