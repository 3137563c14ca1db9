----------------------------- MODULE Conditions -----------------------------
(***************************************************************************)
(* internal/rule: what a message looks like to a rule (context.go,         *)
(* json_traversal.go), when its conditions hold (evaluator.go,             *)
(* condition_resolver.go) and which actions a forEach makes of it          *)
(* (processor.go).                                                         *)
(*                                                                         *)
(* A value is tagged with its Go type: nil, str, json (a json.Number, by   *)
(* its text), int and float (a number of a rule, in tenths), bool, arr and *)
(* obj.  What may fail yields a set with at most one member.               *)
(*                                                                         *)
(* An operand is a literal, or a template [at, path, padded, nested]: a    *)
(* field of the current element (at = ""), of the root message ("@msg"),   *)
(* of the wrapper ("@") or a system field ("@system").  A padded template  *)
(* has white space around its braces; a nested one has braces inside.      *)
(***************************************************************************)
EXTENDS Integers, Sequences, SequencesExt

CONSTANTS ParseInt(_), ParseFloat(_), ParseBool(_),  \* strconv, on texts
          ParseDuration(_), ParseTime(_),            \* time
          Text(_),                                   \* fmt's %v of a value
          InText(_, _),                              \* strings.Contains
          ParseJSON(_), MarshalJSON(_),              \* encoding/json, to and from texts
          MaxIterations                              \* forEach.maxIterations, 0 for none

ClockSkew == 50

Nil == <<"nil">>
Str(s) == <<"str", s>>
Obj(f) == <<"obj", f>>
Arr(s) == <<"arr", s>>
IsObj(v) == v[1] = "obj"
IsArr(v) == v[1] = "arr"

-----------------------------------------------------------------------------
\* The message.

\* wrapIfNeeded
wrapIfNeeded(v) ==
  IF IsObj(v) THEN v ELSE Obj([k \in {IF IsArr(v) THEN "@items" ELSE "@value"} |-> v])

\* ensureObject
ensureObject(v) == IF IsObj(v) THEN v ELSE Obj([k \in {"@value"} |-> v])

\* decodeForm: fields are texts, and a repeated one is an array.
decodeForm(fields) ==
  Obj([k \in DOMAIN fields |->
         CASE Len(fields[k]) = 0 -> Str("")
           [] Len(fields[k]) = 1 -> Str(fields[k][1])
           [] OTHER -> Arr([i \in DOMAIN fields[k] |-> Str(fields[k][i])])])

\* NewEvaluationContext's decoding.  A body that is no JSON is text; only one
\* that is not UTF-8, or a malformed form, is refused.
Decode(payload) ==
  CASE payload.kind = "empty" -> {wrapIfNeeded(Nil)}
    [] payload.kind = "form" -> {decodeForm(payload.body)}
    [] payload.kind \in {"badForm", "binary"} -> {}
    [] payload.kind = "text" -> {wrapIfNeeded(Str(payload.body))}
    [] payload.kind = "json" -> {wrapIfNeeded(payload.body)}

\* EvaluationContext; the system fields are looked up by name.
Context(payload, msg, system, now) ==
  [raw |-> payload, msg |-> msg, root |-> msg, system |-> system, now |-> now]

\* WithElement
WithElement(ctx, v) == [ctx EXCEPT !.msg = v]

\* parseArrayIndex and the bounds check: -1 is the last.
parseArrayIndex(segment, length) ==
  {i \in {IF n < 0 THEN length + n ELSE n : n \in ParseInt(segment)} : i \in 0..(length - 1)}

\* traverseSegment
traverseSegment(v, segment) ==
  CASE IsObj(v) -> {v[2][k] : k \in {segment} \cap DOMAIN v[2]}
    [] IsArr(v) -> {v[2][i + 1] : i \in parseArrayIndex(segment, Len(v[2]))}
    [] OTHER -> {}

\* TraversePath
RECURSIVE TraversePath(_, _)
TraversePath(v, path) ==
  IF path = <<>> THEN {v}
  ELSE IF Head(path) = "" THEN {}
  ELSE UNION {TraversePath(w, Tail(path)) : w \in traverseSegment(v, Head(path))}

\* ResolveValue and resolveSystemField.
ResolveValue(ctx, o) ==
  CASE o.at = "@msg" -> TraversePath(ctx.root, o.path)
    [] o.at = "@system" -> {ctx.system[k] : k \in {o.path[1]} \cap DOMAIN ctx.system}
    [] OTHER -> TraversePath(ctx.msg, o.path)

\* resolveConditionValue: white space makes a template a literal.
resolveConditionValue(o, ctx) ==
  IF o.literal THEN {o.value}
  ELSE IF o.padded THEN {Str("padded")}
  ELSE ResolveValue(ctx, o)

\* Mutant: the path worked out at load time is followed from the root.
FastFromRoot(o, ctx) ==
  IF ~o.literal /\ o.at = "" THEN TraversePath(ctx.root, o.path)
  ELSE resolveConditionValue(o, ctx)

\* resolveConditionValueFast on what precomputeTemplatePath has prepared.
resolveConditionValueFast(o, ctx) ==
  CASE ~o.literal /\ o.at = "" /\ ~o.nested -> TraversePath(ctx.msg, o.path)
    [] ~o.literal /\ o.at # "" -> ResolveValue(ctx, o)
    [] OTHER -> resolveConditionValue(o, ctx)

\* Only LoadRules calls PrepareConditions.
Resolve(o, ctx, prepared) ==
  IF prepared THEN resolveConditionValueFast(o, ctx) ELSE resolveConditionValue(o, ctx)

-----------------------------------------------------------------------------
\* The comparisons.

\* normalizeNumber
normalizeNumber(v) ==
  IF v[1] # "json" THEN v
  ELSE IF ParseInt(v[2]) # {} THEN <<"int", 10 * CHOOSE n \in ParseInt(v[2]) : TRUE>>
  ELSE IF ParseFloat(v[2]) # {} THEN <<"float", CHOOSE n \in ParseFloat(v[2]) : TRUE>>
  ELSE Str(v[2])

\* Mutant: a text equals texts only.
TextEqualOnly(x, y) == y = x

\* compareValues on a text: the other side's text decides.
TextEqual(x, y) == x[2] = (IF y[1] = "str" THEN y[2] ELSE Text(y))

\* compareValues for "eq".  The left side's type decides.
Equal(a, b) ==
  LET x == normalizeNumber(a)
      y == normalizeNumber(b)
  IN CASE Nil \in {a, b} -> a = b
       [] x[1] = "str" -> TextEqual(x, y)
       [] x[1] = "int" -> \/ y[1] \in {"int", "float"} /\ x[2] = y[2]
                          \/ y[1] = "str" /\ x[2] \in {10 * n : n \in ParseInt(y[2])}
       [] x[1] = "float" -> \/ y[1] \in {"int", "float"} /\ x[2] = y[2]
                            \/ y[1] = "str" /\ x[2] \in ParseFloat(y[2])
       [] x[1] = "bool" -> \/ y = x
                           \/ y[1] = "str" /\ x[2] \in ParseBool(y[2])
       [] OTHER -> Text(x) = Text(y)

\* compareContains
compareContains(a, b) ==
  IF IsArr(a) THEN \E i \in DOMAIN a[2] : Equal(a[2][i], b)
  ELSE InText(IF b = Nil THEN "" ELSE Text(b), Text(a))

\* compareIn
compareIn(a, b) == IsArr(b) /\ \E i \in DOMAIN b[2] : Equal(a, b[2][i])

\* toFloat
toFloat(v) == CASE v[1] \in {"int", "float"} -> {v[2]}
                [] v[1] \in {"json", "str"} -> ParseFloat(v[2])
                [] OTHER -> {}

\* compareNumeric
compareNumeric(a, b, op) ==
  \E x \in toFloat(a), y \in toFloat(b) :
    CASE op = "gt" -> x > y [] op = "lt" -> x < y
      [] op = "gte" -> x >= y [] op = "lte" -> x <= y

\* compareRecent and parseTimestamp: a number is a time, a text must be one.
compareRecent(a, b, now) ==
  /\ b[1] = "str"
  /\ \E limit \in ParseDuration(b[2]),
        time \in IF a[1] = "str" THEN ParseTime(a[2]) ELSE toFloat(a) :
       now - time \in (-ClockSkew)..limit

Compare(a, op, b, ctx) ==
  CASE op = "eq" -> Equal(a, b)
    [] op = "neq" -> ~Equal(a, b)
    [] op \in {"gt", "lt", "gte", "lte"} -> compareNumeric(a, b, op)
    [] op = "contains" -> compareContains(a, b)
    [] op = "not_contains" -> ~compareContains(a, b)
    [] op = "in" -> compareIn(a, b)
    [] op = "not_in" -> ~compareIn(a, b)
    [] op = "recent" -> compareRecent(a, b, ctx.now)

ArrayOperators == {"any", "all", "none"}

\* Mutant: a value that cannot be resolved is nil.
RightOrNil(c, ctx, prepared) ==
  LET found == Resolve(c.value, ctx, prepared) IN IF found = {} THEN {Nil} ELSE found

\* The right side; without it no comparison holds.
Right(c, ctx, prepared) == Resolve(c.value, ctx, prepared)

RECURSIVE Evaluate(_, _, _)

\* evaluateArrayCondition: "all" of no element does not hold.
evaluateArrayCondition(v, c, ctx, prepared) ==
  LET holds(i) == Evaluate(c.conditions, WithElement(ctx, ensureObject(v[2][i])), prepared)
  IN /\ IsArr(v)
     /\ CASE c.operator = "any" -> \E i \in DOMAIN v[2] : holds(i)
          [] c.operator = "all" -> v[2] # <<>> /\ \A i \in DOMAIN v[2] : holds(i)
          [] c.operator = "none" -> \A i \in DOMAIN v[2] : ~holds(i)

\* evaluateCondition: absence, or nil, satisfies not_exists and nothing else.
evaluateCondition(c, ctx, prepared) ==
  LET left == Resolve(c.field, ctx, prepared) \ {Nil}
  IN CASE c.operator = "exists" -> left # {}
       [] c.operator = "not_exists" -> left = {}
       [] c.operator \in ArrayOperators ->
            \E v \in left : evaluateArrayCondition(v, c, ctx, prepared)
       [] OTHER -> \E v \in left, w \in Right(c, ctx, prepared) : Compare(v, c.operator, w, ctx)

\* Evaluate, evaluateAND, evaluateOR: an empty group holds, whatever it says.
Evaluate(cs, ctx, prepared) ==
  LET item(i) == evaluateCondition(cs.items[i], ctx, prepared)
      group(i) == Evaluate(cs.groups[i], ctx, prepared)
  IN \/ cs.items = <<>> /\ cs.groups = <<>>
     \/ /\ cs.operator = "and"
        /\ \A i \in DOMAIN cs.items : item(i)
        /\ \A i \in DOMAIN cs.groups : group(i)
     \/ /\ cs.operator = "or"
        /\ (\E i \in DOMAIN cs.items : item(i)) \/ (\E i \in DOMAIN cs.groups : group(i))

-----------------------------------------------------------------------------
\* The actions.  An action says how its payload is made: passthrough, merge
\* or template.  Its payload is one field (`to') with a value, which is a
\* scalar and a plain template; merge lays it over the message.

\* convertToString
convertToString(v) ==
  CASE v = Nil -> "" [] IsArr(v) \/ IsObj(v) -> MarshalJSON(v) [] OTHER -> Text(v)

\* TemplateEngine.Execute: what does not resolve is empty.
Execute(o, ctx) ==
  LET found == IF o.literal THEN {o.value} ELSE ResolveValue(ctx, o)
  IN IF found = {} THEN "" ELSE convertToString(CHOOSE v \in found : TRUE)

\* applyMerge: the rendered overlay must be JSON.
Overlay(action, ctx) ==
  LET text == Execute(action.value, ctx)
  IN {Obj([k \in {action.to} |-> v]) :
        v \in IF action.quoted THEN {Str(text)} ELSE ParseJSON(text)}

\* deepMerge
RECURSIVE deepMerge(_, _)
deepMerge(base, overlay) ==
  Obj([k \in DOMAIN base[2] \cup DOMAIN overlay[2] |->
         IF k \notin DOMAIN overlay[2] THEN base[2][k]
         ELSE IF k \in DOMAIN base[2] /\ IsObj(base[2][k]) /\ IsObj(overlay[2][k])
         THEN deepMerge(base[2][k], overlay[2][k])
         ELSE overlay[2][k]])

\* The payload of an element's action; the empty set is an error.
Payload(action, ctx) ==
  CASE action.mode = "passthrough" -> {ctx.msg}
    [] action.mode = "merge" -> {deepMerge(ctx.msg, o) : o \in Overlay(action, ctx)}
    [] action.mode = "template" -> {Str(Execute(action.value, ctx))}

\* resolvePayload: without forEach the message itself is passed through.
resolvePayload(action, ctx) ==
  IF action.mode = "passthrough" THEN {<<"raw", ctx.raw>>} ELSE Payload(action, ctx)

\* extractForEachArray
extractForEachArray(o, ctx) ==
  LET allowed(w) == IsArr(w) /\ (MaxIterations = 0 \/ Len(w[2]) <= MaxIterations)
  IN {v[2] : v \in {w \in ResolveValue(ctx, o) : allowed(w)}}

\* Mutant: an element that fails ends the loop with an error.
ForEachOrNothing(action, items, ctx, prepared) ==
  LET element(i) == WithElement(ctx, ensureObject(items[i]))
      kept == {i \in DOMAIN items : Evaluate(action.filter, element(i), prepared)}
  IN IF \E i \in kept : Payload(action, element(i)) = {} THEN <<>>
     ELSE FlattenSeq([i \in DOMAIN items |->
            IF i \in kept THEN SetToSeq(Payload(action, element(i))) ELSE <<>>])

\* processActionForEach: an element that fails is left out, alone.
processActionForEach(action, items, ctx, prepared) ==
  LET element(i) == WithElement(ctx, ensureObject(items[i]))
      kept == {i \in DOMAIN items : Evaluate(action.filter, element(i), prepared)}
  IN FlattenSeq([i \in DOMAIN items |->
       IF i \in kept THEN SetToSeq(Payload(action, element(i))) ELSE <<>>])

\* processAction, as the payloads of the actions it makes.  A payload that
\* cannot be made, or an array that cannot be had, is an error and no action.
processAction(action, ctx, prepared) ==
  IF action.forEach = {} THEN SetToSeq(resolvePayload(action, ctx))
  ELSE FlattenSeq(SetToSeq({processActionForEach(action, items, ctx, prepared) :
         items \in UNION {extractForEachArray(o, ctx) : o \in action.forEach}}))
=============================================================================
