------------------------------ MODULE Expressions ------------------------------
(***************************************************************************)
(* The expression language of `when` and `create_if` (policy/expressions): *)
(* the lexer, the recursive descent parser, the builders of the conditions *)
(* and the serializer that writes a condition as an expression.            *)
(*                                                                         *)
(* A text is the sequence of its pieces, blanks left out: a [sign] (an     *)
(* operator, a bracket or a comma), a [word], a [quoted] string, a         *)
(* [number, decimal, suffix] in hundredths, or a [stray] character, which  *)
(* a quote that is never closed counts as.  A value carries its type as    *)
(* the field of a record, as in PolicyDocument.                            *)
(*                                                                         *)
(* A condition is a record: its kind and the fields of its dataclass, None *)
(* left out, a single language or codec as the list of it, fractions as    *)
(* percentages.                                                            *)
(***************************************************************************)
EXTENDS Integers, Sequences, FiniteSets, TLC, SequencesExt

CONSTANTS
  Folded,     \* the strings that casefold() changes, with what they become
  BareForm,   \* the strings that do not read as one word, with their pieces
  NotAlnum,   \* the strings that are empty or have a character isalnum() refuses
  Escaped,    \* the strings with a backslash, with every backslash doubled
  HasQuote    \* the strings with one double quote

Fold(w) == IF w \in DOMAIN Folded THEN Folded[w] ELSE w
Given(r, key) == key \in DOMAIN r
Mapped(list, Convert(_)) == [i \in DOMAIN list |-> Convert(list[i])]

-----------------------------------------------------------------------------
\* The lexer

SUFFIXES == {"k", "kb", "m", "mb", "g", "gb", "t", "tb"}
OPERATOR_TOKENS == {"==", "!=", "<", "<=", ">", ">=", "in"}

Unscannable(piece) ==
  \/ Given(piece, "stray")
  \/ Given(piece, "number") /\ piece.suffix # "" /\ Fold(piece.suffix) \notin SUFFIXES

\* Keywords are lower-case; "True" is an identifier.
ScanIdentifier(w) ==
  IF w \in {"and", "or", "not", "in"} THEN [type |-> w]
  ELSE IF w \in {"true", "false"} THEN [type |-> "BOOLEAN", value |-> [bool |-> w = "true"]]
  ELSE [type |-> "IDENT", value |-> [str |-> w]]

\* The value of a size is its text: no string of a policy is equal to it.
ScanNumberOrSize(piece) ==
  IF piece.suffix # "" THEN [type |-> "SIZE", value |-> [str |-> ToString(piece)]]
  ELSE [type |-> "NUMBER",
        value |-> IF piece.decimal THEN [float |-> piece.number] ELSE [int |-> piece.number \div 100]]

Scan(piece) ==
  CASE Given(piece, "sign") -> [type |-> piece.sign]
    [] Given(piece, "word") -> ScanIdentifier(piece.word)
    [] Given(piece, "quoted") -> [type |-> "STRING", value |-> [str |-> piece.quoted]]
    [] Given(piece, "number") -> ScanNumberOrSize(piece)

Tokenize(text) == Append(Mapped(text, Scan), [type |-> "EOF"])

-----------------------------------------------------------------------------
\* Values.  A production returns where it stops and what it read, or an error.

MAX_DEPTH == 50

Read(at, value) == [at |-> at, value |-> value]
ParseError == [error |-> "ParseError"]
Failed(r) == Given(r, "error")
Then(r, Continue(_)) == IF Failed(r) THEN r ELSE Continue(r)
Expect(ts, r, type) == IF ts[r.at].type = type THEN Read(r.at + 1, r.value) ELSE ParseError

RECURSIVE ParseValue(_, _), ParseValues(_, _)
ParseValue(ts, at) ==
  IF ts[at].type \in {"STRING", "NUMBER", "SIZE", "BOOLEAN", "IDENT"} THEN Read(at + 1, ts[at].value)
  ELSE IF ts[at].type = "["
       THEN Then(ParseValues(ts, at + 1), LAMBDA r : Expect(ts, Read(r.at, [list |-> r.value]), "]"))
       ELSE ParseError
ParseValues(ts, at) ==
  Then(ParseValue(ts, at), LAMBDA r :
    IF ts[r.at].type # "," THEN Read(r.at, << r.value >>)
    ELSE Then(ParseValues(ts, r.at + 1), LAMBDA rest :
           Read(rest.at, << r.value >> \o rest.value)))

\* An argument is a name, or a name compared with a value.
ParseSingleArg(ts, at) ==
  IF ts[at].type # "IDENT" THEN ParseError
  ELSE IF ts[at + 1].type \notin OPERATOR_TOKENS THEN Read(at + 1, [positional |-> ts[at].value.str])
  ELSE Then(ParseValue(ts, at + 2), LAMBDA r :
         Read(r.at, [name |-> Fold(ts[at].value.str), op |-> ts[at + 1].type, value |-> r.value]))

RECURSIVE ParseArgs(_, _)
ParseArgs(ts, at) ==
  Then(ParseSingleArg(ts, at), LAMBDA r :
    IF ts[r.at].type # "," THEN Read(r.at, << r.value >>)
    ELSE Then(ParseArgs(ts, r.at + 1), LAMBDA rest : Read(rest.at, << r.value >> \o rest.value)))

\* str(value); a list and a float are told from any string of a policy only.
AsText(v) ==
  CASE Given(v, "str") -> v.str
    [] Given(v, "bool") -> IF v.bool THEN "True" ELSE "False"
    [] OTHER -> IF Given(v, "int") THEN ToString(v.int) ELSE ToString(v)

\* The number a string spells, when it reads as one unsigned number.
Spells(w) == w \in DOMAIN BareForm /\ Len(BareForm[w]) = 1 /\ Given(BareForm[w][1], "number")
               /\ BareForm[w][1].suffix = ""

\* int(value), a bool being an int, and float(value) in hundredths.
AsInt(v) ==
  CASE Given(v, "int") -> v
    [] Given(v, "bool") -> [int |-> IF v.bool THEN 1 ELSE 0]
    [] Given(v, "float") -> [int |-> v.float \div 100]
    [] Given(v, "list") -> [error |-> "TypeError"]
    [] Given(v, "str") -> IF Spells(v.str) /\ ~ BareForm[v.str][1].decimal
                          THEN [int |-> BareForm[v.str][1].number \div 100] ELSE [error |-> "ValueError"]
AsFloat(v) ==
  CASE Given(v, "float") -> v
    [] Given(v, "str") -> IF Spells(v.str) THEN [float |-> BareForm[v.str][1].number]
                          ELSE [error |-> "ValueError"]
    [] OTHER -> Then(AsInt(v), LAMBDA n : [float |-> n.int * 100])

-----------------------------------------------------------------------------
\* The builders.  The first argument that raises decides, a later one replaces.

COMPARISON_OPS == [op \in {"==", "<", "<=", ">", ">="} |->
  CASE op = "==" -> "eq" [] op = "<" -> "lt" [] op = "<=" -> "lte" [] op = ">" -> "gt" [] op = ">=" -> "gte"]
METADATA_OPS == ("!=" :> "neq") @@ COMPARISON_OPS

FILTER_ALIASES == [name \in {"lang", "language", "codec", "channels", "height", "width", "default",
                             "forced", "title", "not_commentary"} |->
  CASE name = "lang" -> "language" [] name = "default" -> "is_default" [] name = "forced" -> "is_forced"
    [] OTHER -> name]

Collect(args, Argument(_)) ==
  LET read == Mapped(args, Argument)
      bad == {i \in DOMAIN read : Failed(read[i])}
      Latest(f) == CHOOSE i \in DOMAIN read :
                   read[i].field = f /\ \A j \in DOMAIN read : read[j].field = f => j <= i
  IN  IF bad # {} THEN read[CHOOSE i \in bad : \A j \in bad : i <= j]
      ELSE [f \in {read[i].field : i \in DOMAIN read} |-> read[Latest(f)].value]

Field(f, v) == [field |-> f, value |-> v]
IsTrue(v) == IF Given(v, "bool") THEN v.bool ELSE Fold(AsText(v)) = "true"

TrackFilter(a) ==
  IF a.name \notin DOMAIN FILTER_ALIASES THEN ParseError
  ELSE LET f == FILTER_ALIASES[a.name]
       IN  CASE f \in {"language", "codec"} ->
                  IF a.op = "in" /\ Given(a.value, "list") THEN Field(f, Mapped(a.value.list, AsText))
                  ELSE IF a.op \in {"in", "=="} THEN Field(f, << AsText(a.value) >>) ELSE ParseError
             [] f \in {"channels", "height", "width"} ->
                  IF a.op \notin DOMAIN COMPARISON_OPS THEN ParseError
                  ELSE Then(AsInt(a.value), LAMBDA n :
                         Field(f, IF a.op = "==" THEN n
                                  ELSE [operator |-> COMPARISON_OPS[a.op], value |-> n.int]))
             [] f = "title" ->
                  IF a.op = "==" THEN Field(f, [str |-> AsText(a.value)]) ELSE ParseError
             [] OTHER -> IF a.op = "==" THEN Field(f, IsTrue(a.value)) ELSE ParseError

BuildTrackFilters(named) == Collect(named, TrackFilter)

\* A call: the positional and the named arguments, and the trailing comparison.
IsTrackType(call) ==
  call.positional # << >> /\ Fold(call.positional[1]) \in {"video", "audio", "subtitle", "attachment"}

BuildExists(call) ==
  IF ~ IsTrackType(call) \/ Given(call, "op") THEN ParseError
  ELSE Then(BuildTrackFilters(call.named), LAMBDA f :
         [kind |-> "exists", track_type |-> Fold(call.positional[1]), filters |-> f])

\* isinstance(True, int): `count(audio) >= true` compares with 1.
BuildCount(call) ==
  IF \/ ~ IsTrackType(call) \/ ~ Given(call, "op")
     \/ call.op \notin DOMAIN COMPARISON_OPS
     \/ DOMAIN call.value \cap {"int", "bool"} = {}
  THEN ParseError
  ELSE Then(BuildTrackFilters(call.named), LAMBDA f :
         [kind |-> "count", track_type |-> Fold(call.positional[1]), filters |-> f,
          operator |-> COMPARISON_OPS[call.op], value |-> AsInt(call.value).int])

BuildMultiLanguage(call) ==
  LET Number(f, n) == IF Failed(n) THEN ParseError ELSE Field(f, n)
      Argument(a) ==
        CASE a.op # "==" -> ParseError
          [] a.op = "==" /\ a.name = "threshold" ->
               Then(Number(a.name, AsFloat(a.value)), LAMBDA r : Field(a.name, r.value.float))
          [] a.op = "==" /\ a.name = "track_index" ->
               Then(Number(a.name, AsInt(a.value)), LAMBDA r : Field(a.name, r.value.int))
          [] a.op = "==" /\ a.name = "primary_language" -> Field(a.name, AsText(a.value))
          [] OTHER -> ParseError
  IN  Then(Collect(call.named, Argument), LAMBDA f : f @@ [kind |-> "multi_language", threshold |-> 5])

BuildMetadata(call, condition) ==
  IF ~ Given(call, "op") THEN [operator |-> "exists"] @@ condition
  ELSE IF call.op \notin DOMAIN METADATA_OPS THEN ParseError
  ELSE [operator |-> METADATA_OPS[call.op], value |-> call.value] @@ condition

BuildPlugin(call) ==
  IF Len(call.positional) < 2 THEN ParseError
  ELSE BuildMetadata(call, [kind |-> "plugin_metadata", plugin |-> Fold(call.positional[1]),
                            field |-> Fold(call.positional[2])])

BuildContainerMeta(call) ==
  IF call.positional = << >> THEN ParseError
  ELSE BuildMetadata(call, [kind |-> "container_metadata", field |-> Fold(call.positional[1])])

\* The confidence is converted with float() outside any try.
BuildOriginalDubbed(call) ==
  LET Argument(a) ==
        CASE a.op # "==" -> ParseError
          [] a.op = "==" /\ a.name \in {"lang", "language"} -> Field("language", AsText(a.value))
          [] a.op = "==" /\ a.name \in {"confidence", "min_confidence"} ->
               Then(AsFloat(a.value), LAMBDA x : Field("min_confidence", x.float))
          [] a.op = "==" /\ a.name = "value" ->
               Field(a.name, a.value = [bool |-> TRUE] \/ a.value = [str |-> "true"])
          [] OTHER -> ParseError
  IN  Then(Collect(call.named, Argument), LAMBDA f :
        f @@ [kind |-> call.name, value |-> TRUE, min_confidence |-> 70])

BuildCondition(call) ==
  CASE call.name = "exists" -> BuildExists(call)
    [] call.name = "count" -> BuildCount(call)
    [] call.name = "multi_language" -> BuildMultiLanguage(call)
    [] call.name = "plugin" -> BuildPlugin(call)
    [] call.name = "container_meta" -> BuildContainerMeta(call)
    [] call.name \in {"is_original", "is_dubbed"} -> BuildOriginalDubbed(call)
    [] OTHER -> ParseError

-----------------------------------------------------------------------------
\* The grammar

\* func_or_comparison = IDENT '(' args? ')' (op value)?
ParseFuncOrComparison(ts, at) ==
  LET args == IF ts[at + 1].type # "(" THEN ParseError
              ELSE IF ts[at + 2].type = ")" THEN Read(at + 3, << >>)
              ELSE Then(ParseArgs(ts, at + 2), LAMBDA r : Expect(ts, r, ")"))
      Call(of) == LET read == SelectSeq(of, LAMBDA a : Given(a, "positional"))
                  IN  [name |-> Fold(ts[at].value.str),
                       positional |-> Mapped(read, LAMBDA a : a.positional),
                       named |-> SelectSeq(of, LAMBDA a : Given(a, "name"))]
      Built(to, call) == Then(BuildCondition(call), LAMBDA c : Read(to, c))
  IN  Then(args, LAMBDA r :
        IF ts[r.at].type \notin OPERATOR_TOKENS THEN Built(r.at, Call(r.value))
        ELSE Then(ParseValue(ts, r.at + 1), LAMBDA v :
               Built(v.at, Call(r.value) @@ [op |-> ts[r.at].type, value |-> v.value])))

RECURSIVE ParseOrExpr(_, _, _), ParseNotExpr(_, _, _), AndOperands(_, _, _), OrOperands(_, _, _)

\* A single operand stands for itself.
Joined(op, r) ==
  Then(r, LAMBDA s :
    Read(s.at, IF Len(s.value) = 1 THEN s.value[1] ELSE [kind |-> op, of |-> s.value]))

AndOperands(ts, at, depth) ==
  Then(ParseNotExpr(ts, at, depth), LAMBDA left :
    IF ts[left.at].type # "and" THEN Read(left.at, << left.value >>)
    ELSE Then(AndOperands(ts, left.at + 1, depth), LAMBDA rest :
           Read(rest.at, << left.value >> \o rest.value)))

ParseAndExpr(ts, at, depth) == Joined("and", AndOperands(ts, at, depth))

OrOperands(ts, at, depth) ==
  Then(ParseAndExpr(ts, at, depth), LAMBDA left :
    IF ts[left.at].type # "or" THEN Read(left.at, << left.value >>)
    ELSE Then(OrOperands(ts, left.at + 1, depth), LAMBDA rest :
           Read(rest.at, << left.value >> \o rest.value)))

ParseOrExpr(ts, at, depth) == Joined("or", OrOperands(ts, at, depth))

ParseAtom(ts, at, depth) ==
  CASE ts[at].type = "(" ->
         IF depth = MAX_DEPTH THEN ParseError
         ELSE Then(ParseOrExpr(ts, at + 1, depth + 1), LAMBDA r : Expect(ts, r, ")"))
    [] ts[at].type = "IDENT" -> ParseFuncOrComparison(ts, at)
    [] OTHER -> ParseError

\* Mutant: `not` takes all that `and` joins.
ParseNotExprLoose(ts, at, depth) ==
  IF ts[at].type # "not" THEN ParseAtom(ts, at, depth)
  ELSE Then(ParseAndExpr(ts, at + 1, depth), LAMBDA r :
         Read(r.at, [kind |-> "not", of |-> << r.value >>]))

ParseNotExpr(ts, at, depth) ==
  IF ts[at].type # "not" THEN ParseAtom(ts, at, depth)
  ELSE Then(ParseNotExpr(ts, at + 1, depth), LAMBDA r :
         Read(r.at, [kind |-> "not", of |-> << r.value >>]))

\* parse_expression(): a condition, or the class of what it raises.
Parse(text) ==
  LET ts == Tokenize(text)
  IN  IF text = << >> THEN ParseError
      ELSE IF \E i \in DOMAIN text : Unscannable(text[i]) THEN [error |-> "LexError"]
      ELSE Then(ParseOrExpr(ts, 1, 0), LAMBDA r :
             IF ts[r.at].type = "EOF" THEN [condition |-> r.value] ELSE ParseError)

-----------------------------------------------------------------------------
(***************************************************************************)
(* The serializer.  The lexer ends a string at its first quote: what is    *)
(* escaped is not read back, and a quote in a string leaves one open.      *)
(***************************************************************************)
Sign(s) == << [sign |-> s] >>
Word(w) == << [word |-> w] >>
Bare(w) == IF w \in DOMAIN BareForm THEN BareForm[w] ELSE Word(w)
Quoted(w) == IF w \in HasQuote THEN << [stray |-> w] >> ELSE << [quoted |-> w] >>
Escape(w) == IF w \in DOMAIN Escaped THEN Escaped[w] ELSE w
Number(n) == (IF n < 0 THEN << [stray |-> "-"] >> ELSE << >>)
               \o << [number |-> 100 * (IF n < 0 THEN -n ELSE n), decimal |-> FALSE, suffix |-> ""] >>
Fraction(n) == << [number |-> n, decimal |-> TRUE, suffix |-> ""] >>
Bool(b) == Word(IF b THEN "true" ELSE "false")

QuoteFilterVal(w) == IF w \in NotAlnum THEN Quoted(Escape(w)) ELSE Bare(w)
FormatValue(v) ==
  CASE Given(v, "str") -> QuoteFilterVal(v.str)
    [] Given(v, "bool") -> Bool(v.bool)
    [] Given(v, "int") -> Number(v.int)
    [] Given(v, "float") -> Fraction(v.float)

Interposed(parts, between) ==
  FlattenSeq([i \in DOMAIN parts |-> (IF i = 1 THEN << >> ELSE between) \o parts[i]])
CallOf(name, args) == Word(name) \o Sign("(") \o Interposed(args, Sign(",")) \o Sign(")")

OpOf(operator) == Sign(CHOOSE op \in DOMAIN METADATA_OPS : METADATA_OPS[op] = operator)
Equals(name, text) == Word(name) \o Sign("==") \o text

SerializeIntOrComparison(name, n) ==
  IF Given(n, "int") THEN Equals(name, Number(n.int))
  ELSE Word(name) \o OpOf(n.operator) \o Number(n.value)

\* A single language or codec, or the list of several; a title by whatever
\* string it is matched with.
SerializeFilters(f) ==
  LET Part(key, Text(_)) == IF Given(f, key) THEN << Text(f[key]) >> ELSE << >>
      OneOrList(name, ws) ==
        IF Len(ws) = 1 THEN Equals(name, QuoteFilterVal(ws[1]))
        ELSE Word(name) \o Sign("in") \o Sign("[")
               \o Interposed(Mapped(ws, QuoteFilterVal), Sign(",")) \o Sign("]")
  IN  Part("language", LAMBDA ws : OneOrList("lang", ws))
      \o Part("codec", LAMBDA ws : OneOrList("codec", ws))
      \o Part("channels", LAMBDA n : SerializeIntOrComparison("channels", n))
      \o Part("height", LAMBDA n : SerializeIntOrComparison("height", n))
      \o Part("width", LAMBDA n : SerializeIntOrComparison("width", n))
      \o Part("is_default", LAMBDA b : Equals("default", Bool(b)))
      \o Part("is_forced", LAMBDA b : Equals("forced", Bool(b)))
      \o Part("title", LAMBDA t : Equals("title", Quoted(t[CHOOSE k \in DOMAIN t : TRUE])))
      \o Part("not_commentary", LAMBDA b : Equals("not_commentary", Bool(b)))

SerializeMultiLanguage(c) ==
  CallOf("multi_language",
    (IF Given(c, "track_index") THEN << Equals("track_index", Number(c.track_index)) >> ELSE << >>)
    \o (IF c.threshold # 5 THEN << Equals("threshold", Fraction(c.threshold)) >> ELSE << >>)
    \o (IF Given(c, "primary_language") THEN << Equals("primary_language", Bare(c.primary_language)) >>
        ELSE << >>))

SerializeOriginalOrDubbed(c) ==
  CallOf(c.kind,
    (IF c.value THEN << >> ELSE << Equals("value", Bool(FALSE)) >>)
    \o (IF c.min_confidence # 70 THEN << Equals("confidence", Fraction(c.min_confidence)) >> ELSE << >>)
    \o (IF Given(c, "language") THEN << Equals("lang", Bare(c.language)) >> ELSE << >>))

SerializeMetadata(c, base) ==
  IF c.operator = "exists" THEN base ELSE base \o OpOf(c.operator) \o FormatValue(c.value)

\* Parentheses for an `or` below anything that binds tighter, and for an `and`
\* below `not`; a disjunction directly in a disjunction goes without.
RECURSIVE SerializeIn(_, _)
SerializeIn(c, parent) ==
  LET Operands == Mapped(c.of, LAMBDA x : SerializeIn(x, c.kind))
      Enclosed(text, when) == IF when THEN Sign("(") \o text \o Sign(")") ELSE text
      Arguments == << Word(c.track_type) >> \o SerializeFilters(c.filters)
  IN  CASE c.kind = "or" -> Enclosed(Interposed(Operands, Word("or")), parent \in {"and", "not"})
        [] c.kind = "and" -> Enclosed(Interposed(Operands, Word("and")), parent = "not")
        [] c.kind = "not" -> Word("not") \o Operands[1]
        [] c.kind = "exists" -> CallOf("exists", Arguments)
        [] c.kind = "count" -> CallOf("count", Arguments) \o OpOf(c.operator) \o Number(c.value)
        [] c.kind = "multi_language" -> SerializeMultiLanguage(c)
        [] c.kind \in {"is_original", "is_dubbed"} -> SerializeOriginalOrDubbed(c)
        [] c.kind = "plugin_metadata" ->
             SerializeMetadata(c, CallOf("plugin", << Bare(c.plugin), Bare(c.field) >>))
        [] c.kind = "container_metadata" ->
             SerializeMetadata(c, CallOf("container_meta", << Bare(c.field) >>))

Serialize(c) == SerializeIn(c, "top")

-----------------------------------------------------------------------------
(***************************************************************************)
(* What the serializer can say.  Not: a title matched by part or regex, a  *)
(* metadata match by "contains" (which raises), a negative number, a list  *)
(* of no language, a connective directly inside its like, and a string     *)
(* that the lexer takes for something else.                                *)
(***************************************************************************)
KEYWORDS == {"and", "or", "not", "in", "true", "false"}
Scannable(w) == w \notin HasQuote \cup DOMAIN Escaped \cup KEYWORDS
BareWord(w) == Scannable(w) /\ w \notin DOMAIN BareForm \cup NotAlnum
ReadAsString(w) == Scannable(w) /\ (w \in DOMAIN BareForm => w \in NotAlnum)

SpellableFilters(f) ==
  /\ \A k \in {"language", "codec"} \cap DOMAIN f :
       f[k] # << >> /\ \A i \in DOMAIN f[k] : ReadAsString(f[k][i])
  /\ \A k \in {"channels", "width", "height"} \cap DOMAIN f :
       (IF Given(f[k], "int") THEN f[k].int ELSE f[k].value) >= 0
  /\ Given(f, "title") => Given(f.title, "str") /\ f.title.str \notin HasQuote

RECURSIVE Spellable(_)
Spellable(c) ==
  CASE c.kind \in {"and", "or", "not"} ->
         \A i \in DOMAIN c.of : Spellable(c.of[i]) /\ (c.kind = c.of[i].kind => c.kind = "not")
    [] c.kind = "exists" -> SpellableFilters(c.filters)
    [] c.kind = "count" -> c.value >= 0 /\ SpellableFilters(c.filters)
    [] c.kind = "multi_language" ->
         /\ Given(c, "track_index") => c.track_index >= 0
         /\ Given(c, "primary_language") => BareWord(c.primary_language)
    [] c.kind \in {"is_original", "is_dubbed"} -> Given(c, "language") => BareWord(c.language)
    [] c.kind \in {"plugin_metadata", "container_metadata"} ->
         /\ BareWord(c.field) /\ (Given(c, "plugin") => BareWord(c.plugin))
         /\ c.operator # "contains" /\ (c.operator = "exists" => ~ Given(c, "value"))
         /\ c.operator # "exists" =>
              /\ Given(c.value, "str") => ReadAsString(c.value.str)
              /\ Given(c.value, "int") => c.value.int >= 0

=============================================================================
