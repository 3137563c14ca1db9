---------------------------- MODULE MCHotReload -----------------------------
(***************************************************************************)
(* Streams that overlap in filters, in a mirror and with eleven tokens;    *)
(* rules for each of the loader's decisions; conditions of every operator  *)
(* on messages with and without the fields they ask for.                   *)
(***************************************************************************)
EXTENDS RuleEvaluation, TLC

Symmetry == Permutations(BucketKeys)

Long == [i \in 1..11 |-> "x"]

Stream(subjects, mirror, memory) ==
  [subjects |-> subjects, mirror |-> mirror, sources |-> {}, memory |-> memory, system |-> FALSE]

MCStreams == <<Stream({<<"a", ">">>}, {}, FALSE), Stream({<<"a", "*">>, Long}, {}, FALSE),
               Stream({<<"a", "b", ">">>, Append(Long, ">")}, {}, FALSE),
               Stream({}, {<<"a", "b">>}, TRUE)>>
MCSubjects == {<<"a", "b">>, <<"a", "*">>, <<"a", ">">>, Long}
MCMessages == {<<"a", "b">>, <<"a", "c">>, <<"a", "b", "c">>, <<"a", "b", "c", "d">>,
               Long, Append(Long, "y")}
MCWords(token) == <<token>>

-----------------------------------------------------------------------------
\* Texts and their values.
MCParseInt(s) == CASE s = "21" -> {21} [] s = "0" -> {0} [] s = "-1" -> {-1} [] OTHER -> {}
MCParseFloat(s) == CASE s = "21" -> {210} [] s = "21.0" -> {210} [] s = "21.5" -> {215}
                     [] s = "0" -> {0} [] s = "-1" -> {-10} [] OTHER -> {}
MCParseBool(s) == CASE s = "true" -> {TRUE} [] s \in {"false", "0"} -> {FALSE} [] OTHER -> {}
MCParseDuration(s) == IF s = "10s" THEN {100} ELSE {}
MCParseTime(s) == {}
MCText(v) == CASE v[1] \in {"str", "json"} -> v[2]
               [] v[1] = "int" -> ToString(v[2] \div 10)
               [] v[1] = "float" -> IF v[2] % 10 = 0 THEN ToString(v[2] \div 10)
                                    ELSE ToString(v[2] \div 10) \o "." \o ToString(v[2] % 10)
               [] v[1] = "bool" -> IF v[2] THEN "true" ELSE "false"
               [] OTHER -> ToString(v[2])
MCInText(s, t) == s \in {"", t} \/ (s = "21" /\ t \in {"21.0", "21.5"})
MCSystem == [k \in {"@time.hour"} |-> <<"int", 210>>]
MCNow == 300

Field(path) == [literal |-> FALSE, at |-> "", path |-> path, padded |-> FALSE, nested |-> FALSE]
Root(path) == [Field(path) EXCEPT !.at = "@msg"]
Literal(v) == [literal |-> TRUE, value |-> v]
Empty == [operator |-> "and", items |-> <<>>, groups |-> <<>>]
Condition(field, op, value) ==
  [field |-> field, operator |-> op, value |-> value, conditions |-> Empty]
Each(field, op, cs) == [Condition(field, op, Literal(Nil)) EXCEPT !.conditions = cs]
AllOf(items, groups) == [operator |-> "and", items |-> items, groups |-> groups]
AnyOf(items, groups) == [operator |-> "or", items |-> items, groups |-> groups]

T == Field(<<"t">>)
Value == [Field(<<"@value">>) EXCEPT !.at = "@"]
Literals == {Nil, <<"int", 210>>, <<"float", 215>>, <<"bool", TRUE>>, Str("21"), Str("21.0"),
             Str("true"), Str("false"), Str("10s"), Arr(<<Str("21"), <<"bool", TRUE>>>>),
             Arr(<<Str("false"), Str("x")>>)}
Operators == {"eq", "neq", "gt", "lte", "contains", "not_contains", "in", "not_in", "recent"}

OneCondition ==
  {AllOf(<<Condition(T, op, v)>>, <<>>) :
     op \in Operators, v \in {Literal(l) : l \in Literals} \cup {Field(<<"u">>)}}
  \cup {AllOf(<<Condition(f, op, Literal(Nil))>>, <<>>) :
          op \in {"exists", "not_exists"},
          f \in {T, [T EXCEPT !.padded = TRUE], Field(<<"tags", "-1">>), Field(<<"", "t">>),
                 [Field(<<"t", "{u}">>) EXCEPT !.nested = TRUE],
                 [Field(<<"@time.hour">>) EXCEPT !.at = "@system"]}}

IsT == Condition(T, "eq", Field(<<"u">>))
Hot == Condition(Value, "eq", Root(<<"u">>))
Trees ==
  OneCondition \cup {Empty}
  \cup {AllOf(<<Each(Field(<<"tags">>), op, cs)>>, <<>>) :
          op \in ArrayOperators,
          cs \in {AllOf(<<Hot>>, <<>>), AnyOf(<<Hot, Condition(Value, "neq", Root(<<"u">>))>>, <<>>),
                  AllOf(<<Condition(Field(<<"t">>), "exists", Literal(Nil))>>, <<>>)}}
  \cup {AllOf(<<IsT>>, <<AnyOf(<<Condition(Field(<<"tags">>), "contains", T)>>, <<Empty>>)>>),
        AnyOf(<<IsT>>, <<AllOf(<<Condition(T, "exists", Literal(Nil))>>,
                           <<AnyOf(<<Condition(Field(<<"u">>), "in", Field(<<"tags">>))>>, <<>>)>>)>>)}

Quoted == [mode |-> "template", to |-> "v", value |-> T, quoted |-> TRUE, forEach |-> {}, filter |-> Empty]
ForEach(how, filter) ==
  [Quoted EXCEPT !.mode = how, !.value = [T EXCEPT !.path = <<"@value">>, !.at = "@"],
                 !.quoted = FALSE, !.forEach = {Field(<<"tags">>)}, !.filter = filter]
Actions ==
  {[Quoted EXCEPT !.mode = how, !.quoted = q] :
     how \in {"passthrough", "merge", "template"}, q \in BOOLEAN}
  \cup {ForEach(how, filter) :
          how \in {"passthrough", "merge", "template"},
          filter \in {Empty, AllOf(<<Hot>>, <<>>),
                      AllOf(<<Condition(Root(<<"u">>), "exists", Literal(Nil))>>, <<>>)}}

\* A rule for webhooks, which needs no stream.
Webhook(when, action) ==
  [def |-> [PlainRule EXCEPT !.triggers = {"http"}], when |-> when, action |-> action]
MCMessageRules == {Webhook(t, Quoted) : t \in Trees} \cup {Webhook(Empty, a) : a \in Actions}

Scalars == {<<"json", "21">>, <<"json", "21.0">>, <<"json", "21.5">>, Str("21"), Str("true"),
            <<"bool", TRUE>>, <<"bool", FALSE>>}
Tags == Arr(<<<<"json", "21">>, Str("x"), <<"bool", TRUE>>>>)

\* The texts of compound values, and what can be read back from a text.
RECURSIVE MCMarshalJSON(_)
MCMarshalJSON(v) ==
  LET joined(texts) ==
        FoldLeft(LAMBDA all, text : IF all = "" THEN text ELSE all \o "," \o text, "", texts)
      member(k) == "\"" \o k \o "\":" \o MCMarshalJSON(v[2][k])
  IN CASE v = Nil -> "null"
       [] v[1] = "str" -> "\"" \o v[2] \o "\""
       [] IsArr(v) -> "[" \o joined([i \in DOMAIN v[2] |-> MCMarshalJSON(v[2][i])]) \o "]"
       [] IsObj(v) -> LET keys == SetToSeq(DOMAIN v[2])
                      IN "{" \o joined([i \in DOMAIN keys |-> member(keys[i])]) \o "}"
       [] OTHER -> MCText(v)
MCParseJSON(s) ==
  {<<"float", n>> : n \in MCParseFloat(s)}
  \cup {v \in {<<"bool", TRUE>>, <<"bool", FALSE>>, Tags, Arr(<<>>)} : MCMarshalJSON(v) = s}

Body(t, u) == Obj([k \in {"t", "u", "tags"} |-> CASE k = "t" -> t [] k = "u" -> u [] k = "tags" -> Tags])
Without2(v) == Obj([k \in {"t"} |-> v])
JSON(v) == [kind |-> "json", body |-> v]
MCPayloads ==
  {JSON(Body(t, u)) : t \in Scalars, u \in {<<"json", "21">>, Str("x")}}
  \cup {JSON(Without2(v)) : v \in {Nil, <<"json", "21">>, Arr(<<>>), Tags}}
  \cup {JSON(Obj([k \in {"tags"} |-> Arr([i \in 1..4 |-> Nil])])), JSON(Arr(<<Nil>>)),
        JSON(Obj([k \in {"tags"} |-> Arr(<<Obj([j \in {"t", "w"} |-> Str("x")]), Str("21")>>)]))}
  \cup {[kind |-> "form", body |-> [k \in {"t", "tags", "u"} |->
           CASE k = "t" -> <<"21">> [] k = "tags" -> <<"21", "x">> [] k = "u" -> <<>>]],
        [kind |-> "empty", body |-> 0], [kind |-> "badForm", body |-> 0],
        [kind |-> "binary", body |-> 0], [kind |-> "text", body |-> "x"]}

-----------------------------------------------------------------------------
Rule(def) == [def |-> def, when |-> Empty, action |-> Quoted]
MCSubjectRules == {Rule([PlainRule EXCEPT !.subject = s]) : s \in MCSubjects}

Kinds ==
  {[PlainRule EXCEPT !.triggers = t, !.mode = m, !.reply = re, !.queue = q, !.actions = a,
                     !.request = rq, !.timeout = rq, !.triggerThrottle = tt, !.actionThrottle = at] :
     t \in {{"nats"}, {"http"}, {"schedule"}}, m \in {"", "jetstream", "core"}, re \in BOOLEAN,
     q \in BOOLEAN, a \in {{"nats"}, {"http"}, {"respond"}}, rq \in BOOLEAN,
     tt \in {"none", "leading", "trailing"}, at \in {"none", "leading", "trailing"}}
Marked ==
  {[PlainRule EXCEPT !.triggers = {t}, !.mode = IF t = "nats" THEN "core" ELSE "", !.actions = {a},
                     !.forEach = (a # "respond"), !.actionDebounce = d, !.marks = {<<mark, at>>}] :
     t \in {"http", "nats"}, a \in {"nats", "http", "respond"}, d \in {"none", "trailing"},
     mark \in Marks,
     at \in {"trigger.subject", "trigger.path", "trigger.hmac", "condition.field", "condition.value",
             "action.subject", "action.url", "action.payload", "action.headers", "action.filter",
             "action.debounce", "action.method"}}
MCLoaderRules ==
  {Rule(r) : r \in {k \in Kinds \cup Marked : Writable(k)} \cup
     {[PlainRule EXCEPT !.triggers = {"nats", "http"}], [PlainRule EXCEPT !.actions = {}],
      [PlainRule EXCEPT !.bothPayloads = TRUE], [PlainRule EXCEPT !.timeout = TRUE],
      [PlainRule EXCEPT !.triggerThrottle = "leading", !.triggerDebounce = "leading"],
      [PlainRule EXCEPT !.triggerDebounce = "leading"]}}
MCSamples == MCLoaderRules \cup MCMessageRules
=============================================================================
