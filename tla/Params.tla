-------------------------------- MODULE Params --------------------------------
(***************************************************************************)
(* The values a statement is called with and how they are looked up        *)
(* (types/sqlfragment/helpers.go, types/common.go).  A value is a record   *)
(* whose one field names its Go kind, a string is a sequence of character  *)
(* codes (0..9 the digits, 10 the minus sign, letters from 11), a name is  *)
(* the sequence of its segments between dots, and a number is an integer.  *)
(* What a lookup finds is a set: empty, or the one value found.            *)
(***************************************************************************)
EXTENDS Integers, Sequences, FiniteSets, SequencesExt, TLC

\* The segments that strings.ToLower changes.
LowerOf == [A |-> "a", B |-> "b", Id |-> "id", Name |-> "name", AND |-> "and", NULL |-> "null"]

Nil == [nil |-> TRUE]
Bool(b) == [bool |-> b]
Num(n) == [num |-> n]
Str(s) == [str |-> s]
Slice(s) == [slice |-> s]
Map(f) == [map |-> f]
Struct(f) == [struct |-> f]
Is(v, kind) == kind \in DOMAIN v

Lower(w) == IF w \in DOMAIN LowerOf THEN LowerOf[w] ELSE w
BuildKey(name) == [i \in DOMAIN name |-> Lower(name[i])]
Matching(keys, key) == {k \in keys : Lower(k) = Lower(key)}

\* One step down a dotted name: an exact key or field first; then, of a map any
\* key that differs in case only, and of a struct a field if just one does.
Segment(v, part) ==
  LET f == IF Is(v, "map") THEN v.map ELSE v.struct
      alike == Matching(DOMAIN f, part)
  IN IF ~Is(v, "map") /\ ~Is(v, "struct") THEN {}
     ELSE IF part \in DOMAIN f THEN {f[part]}
     ELSE IF Is(v, "map") /\ Lower(part) \in DOMAIN f THEN {f[Lower(part)]}
     ELSE IF Is(v, "struct") /\ Cardinality(alike) # 1 THEN {}
     ELSE {f[k] : k \in IF alike = {} THEN {} ELSE {CHOOSE k \in alike : TRUE}}

LookupParam(m, name) ==
  LET key == BuildKey(name)
      alike == {k \in DOMAIN m : BuildKey(k) = key}
      Step(found, part) == UNION {Segment(v, part) : v \in found}
  IN IF key \in DOMAIN m THEN {m[key]}
     ELSE IF Len(name) < 2
          THEN IF alike = {} THEN {} ELSE {m[CHOOSE k \in alike : TRUE]}
     ELSE IF <<key[1]>> \notin DOMAIN m THEN {}
     ELSE FoldLeft(Step, {m[<<key[1]>>]}, Tail(name))

\* A missing reference counts as nil.
OrNil(found) == IF found = {} THEN Nil ELSE CHOOSE v \in found : TRUE

ValidValue(v) ==
  CASE Is(v, "nil") -> FALSE
    [] Is(v, "str") -> v.str # <<>>
    [] Is(v, "slice") -> v.slice # <<>>
    [] Is(v, "map") -> DOMAIN v.map # {}
    [] OTHER -> TRUE

\* FormatValue knows no slice, map or struct: it renders them as nothing.
Formats(v) == Is(v, "nil") \/ Is(v, "bool") \/ Is(v, "num") \/ Is(v, "str")

Minus == 10
Digit == 0 .. 9

\* strconv.ParseFloat of a trimmed string of digits.
Decimal(s) == FoldLeft(LAMBDA n, d : 10 * n + d, 0, s)
ParseFloat(s) ==
  LET body == IF s # <<>> /\ s[1] = Minus THEN Tail(s) ELSE s
  IN IF body = <<>> \/ ToSet(body) \ Digit # {} THEN {}
     ELSE {IF body = s THEN Decimal(body) ELSE -Decimal(body)}

\* The number a value stands for (numericValue, ifNumeric): none, or one.
Numeric(v) ==
  CASE Is(v, "num") -> {v.num}
    [] Is(v, "str") -> ParseFloat(v.str)
    [] OTHER -> {}

Digits[n \in Nat] == IF n < 10 THEN <<n>> ELSE Append(Digits[n \div 10], n % 10)

\* fmt.Sprint of a scalar.
Sprint(v) ==
  CASE Is(v, "str") -> v.str
    [] Is(v, "num") -> IF v.num < 0 THEN <<Minus>> \o Digits[-v.num] ELSE Digits[v.num]
    [] Is(v, "bool") -> IF v.bool THEN <<30, 28, 31, 15>> ELSE <<16, 11, 22, 29, 15>>
    [] OTHER -> <<>>

\* convert2Map: the argument of a call as the map a statement is rendered with.
Convert2Map(v) ==
  LET f == IF Is(v, "map") THEN v.map ELSE v.struct
  IN [k \in {<<Lower(x)>> : x \in DOMAIN f} |->
       f[CHOOSE x \in DOMAIN f : Lower(x) = k[1]]]
=============================================================================
