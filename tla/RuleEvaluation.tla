--------------------------- MODULE RuleEvaluation ---------------------------
(***************************************************************************)
(* The life of a rule: it comes into effect (HotReload), and messages are  *)
(* evaluated by it (Conditions).  Beside what the loader looks at, a rule  *)
(* has conditions (when) and an action.                                    *)
(***************************************************************************)
EXTENDS HotReload, Conditions

CONSTANTS MessageRules, \* the samples that messages are sent to
          Payloads,     \* payloads of messages and requests
          System, Now,  \* system fields of the context, and its time
          Nothing

ASSUME MessageRulesAssumption == MessageRules \subseteq Samples

VARIABLE out  \* the last message, and what came of it

vars == <<hotVars, out>>

Init == HotInit /\ out = Nothing

\* Only LoadRules prepares conditions.
Prepared == mode = "file"

\* evaluateRules for one rule: the payloads of its actions.
Outcome(r, payload, prepared) ==
  {LET ctx == Context(payload, msg, System, Now)
   IN IF Evaluate(r.when, ctx, prepared)
      THEN [fired |-> TRUE, actions |-> processAction(r.action, ctx, prepared)]
      ELSE [fired |-> FALSE, actions |-> <<>>] : msg \in Decode(payload)}

\* A message reaches a rule in effect; a malformed one has no outcome.
Message(k, payload) ==
  /\ out = Nothing
  /\ rules[k] \in MessageRules
  /\ out' = [rule |-> rules[k], payload |-> payload, outcome |-> Outcome(rules[k], payload, Prepared)]
  /\ UNCHANGED hotVars

Next ==
  \/ HotNext /\ UNCHANGED out
  \/ \E k \in BucketKeys, p \in Payloads : Message(k, p)

Spec == Init /\ [][Next]_vars

-----------------------------------------------------------------------------
\* The conditions of a tree, nested ones included.
RECURSIVE AllConditions(_)
AllConditions(cs) ==
  LET items == {cs.items[i] : i \in DOMAIN cs.items}
  IN items \cup UNION {AllConditions(cs.groups[i]) : i \in DOMAIN cs.groups}
           \cup UNION {AllConditions(c.conditions) : c \in {d \in items : d.operator \in ArrayOperators}}

Operands(cs) == UNION {{c.field, c.value} : c \in AllConditions(cs)}
Templates(cs) == {o \in Operands(cs) : ~o.literal}

\* A rule does the same in a file, where its conditions are prepared, as in
\* the bucket, where they are not (processor.go, LoadRules;
\* condition_resolver.go), unless a template has white space around it.
Portable ==
  out # Nothing =>
    \/ \E o \in Templates(out.rule.when) \cup Templates(out.rule.action.filter) : o.padded
    \/ out.outcome = Outcome(out.rule, out.payload, ~Prepared)

IsMessage == out # Nothing /\ out.payload.kind = "json" /\ IsObj(out.payload.body)

Without(v, field) == Obj([k \in DOMAIN v[2] \ {field} |-> v[2][k]])
Fires(body) == \E o \in Outcome(out.rule, [kind |-> "json", body |-> body], Prepared) : o.fired

\* Conditions fail closed: a field that is missing from a message never
\* makes a rule fire, unless the rule asks for absence (not_exists) or for
\* elements that do not match (none) (evaluator.go, evaluateCondition).
FailsClosed ==
  (IsMessage /\ \A c \in AllConditions(out.rule.when) : c.operator \notin {"not_exists", "none"}) =>
    \A field \in DOMAIN out.payload.body[2] :
      Fires(Without(out.payload.body, field)) => Fires(out.payload.body)

\* A message as a form would carry it.
FormText(v) == IF IsArr(v) THEN [i \in DOMAIN v[2] |-> Text(v[2][i])] ELSE <<Text(v)>>
AsForm(body) == [kind |-> "form", body |-> [k \in DOMAIN body[2] |-> FormText(body[2][k])]]

Scalar(v) == v[1] \notin {"nil", "arr", "obj"} /\ Text(normalizeNumber(v)) = Text(v)
FormLike(body) ==
  \A k \in DOMAIN body[2] :
    \/ Scalar(body[2][k])
    \/ IsArr(body[2][k]) /\ Len(body[2][k][2]) > 1
       /\ \A i \in DOMAIN body[2][k][2] : Scalar(body[2][k][2][i])

\* A literal text that is written as Go writes the value it stands for.
Canonical(v) ==
  LET written(w) == w[1] = "str" => /\ \A n \in ParseFloat(w[2]) : Text(<<"float", n>>) = w[2]
                                    /\ \A b \in ParseBool(w[2]) : Text(<<"bool", b>>) = w[2]
  IN IF IsArr(v) THEN \A i \in DOMAIN v[2] : written(v[2][i]) ELSE written(v)

\* Conditions hold of a form exactly when they hold of the same JSON message
\* (context.go, decodeForm), as long as numbers and literals are written the
\* way Go prints them; a number is a time for recent only in JSON.
FormLikeJSON ==
  (IsMessage /\ FormLike(out.payload.body)
     /\ \A c \in AllConditions(out.rule.when) :
          /\ c.operator # "recent"
          /\ c.value.literal => Canonical(c.value.value)) =>
    \A o \in Outcome(out.rule, AsForm(out.payload.body), Prepared) :
      o.fired <=> Fires(out.payload.body)

\* A message whose forEach array has one element.
OneElement(body, field, v) == Obj([body[2] EXCEPT ![field] = Arr(<<v>>)])

\* Each element of a forEach is dealt with as if it were alone: a filter, a
\* failure or a merge of one never touches another's action, and a filter
\* that asks about the root message (@msg) means the same for all of them
\* (processor.go, processActionForEach; context.go, WithElement).
ForEachPerElement ==
  (IsMessage /\ out.outcome # {} /\ \E o \in out.outcome : o.fired) =>
    \A array \in {f \in out.rule.action.forEach : f.at = "" /\ Len(f.path) = 1} :
      LET action == out.rule.action
          body == out.payload.body
          field == array.path[1]
          made == UNION {{o.actions} : o \in out.outcome}
          root == Context(out.payload, body, System, Now)
          alone(v) ==
            processAction(action, Context(out.payload, OneElement(body, field, v), System, Now), Prepared)
      IN \A items \in extractForEachArray(array, root) :
           /\ made = {FlattenSeq([i \in DOMAIN items |-> alone(items[i])])}
           /\ (action.mode # "merge" /\ \A o \in Templates(action.filter) : o.at = "@msg")
                => \A acts \in made :
                     Len(acts) = IF Evaluate(action.filter, root, Prepared) THEN Len(items) ELSE 0
           /\ action.mode = "merge" =>
                \A acts \in made : \A i \in DOMAIN acts :
                  \E j \in DOMAIN items :
                    LET v == ensureObject(items[j])
                    IN \A k \in DOMAIN v[2] \ {action.to} :
                         k \in DOMAIN acts[i][2] /\ acts[i][2][k] = v[2][k]
=============================================================================
