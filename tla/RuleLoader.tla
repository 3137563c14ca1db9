----------------------------- MODULE RuleLoader -----------------------------
(***************************************************************************)
(* internal/rule/loader.go: which rules are loaded.  ParseAndValidateYAML  *)
(* folds the deprecated debounce blocks, expands or refuses environment    *)
(* variables, and validates what is then there; the first error rejects    *)
(* the whole source.                                                       *)
(*                                                                         *)
(* A rule says which triggers and actions it has and how they are set; of  *)
(* its texts only the marks matter: mark <<k, at>> says that the text at   *)
(* place "at" holds an environment reference (env: set, unset), is empty,  *)
(* malformed, or has a malformed KV or random reference.                   *)
(***************************************************************************)
EXTENDS Sequences, FiniteSets

Marks == {"env", "unset", "empty", "syntax", "kv", "random"}
Places ==
  {"trigger.subject", "trigger.path", "trigger.method", "trigger.hmac", "trigger.schedule",
   "trigger.throttle", "trigger.debounce", "condition.field", "condition.value",
   "action.subject", "action.mode", "action.timeout", "action.url", "action.method", "action.retry",
   "action.publishResponse", "action.statusCode", "action.payload", "action.headers",
   "action.forEach", "action.filter", "action.throttle", "action.debounce"}

\* A rule with a NATS trigger and a NATS action, both by JetStream.
PlainRule ==
  [triggers |-> {"nats"}, subject |-> <<"a", "b">>, mode |-> "", reply |-> FALSE, queue |-> FALSE,
   triggerThrottle |-> "none", triggerDebounce |-> "none",
   actions |-> {"nats"}, request |-> FALSE, timeout |-> FALSE,
   bothPayloads |-> FALSE, forEach |-> FALSE,
   actionThrottle |-> "none", actionDebounce |-> "none", marks |-> {}]

\* What YAML can say: every combination of blocks, with texts of any kind ...
Throttles == {"none", "leading", "trailing", "other"}
RuleSources ==
  [triggers : SUBSET {"nats", "http", "schedule"}, subject : Seq(STRING), mode : STRING,
   reply : BOOLEAN, queue : BOOLEAN, triggerThrottle : Throttles, triggerDebounce : Throttles,
   actions : SUBSET {"nats", "http", "respond"}, request : BOOLEAN, timeout : BOOLEAN,
   bothPayloads : BOOLEAN, forEach : BOOLEAN,
   actionThrottle : Throttles, actionDebounce : Throttles, marks : SUBSET (Marks \X Places)]

\* ... where the blocks it has have a field for it.
Writable(r) ==
  /\ "nats" \notin r.triggers => r.mode = "" /\ ~r.reply /\ ~r.queue
  /\ r.triggers \cap {"nats", "http"} = {} => r.triggerThrottle = "none" /\ r.triggerDebounce = "none"
  /\ "nats" \notin r.actions => ~r.request /\ ~r.timeout
  /\ r.actions \cap {"nats", "http"} = {} => r.actionThrottle = "none" /\ r.actionDebounce = "none"

IsCore(r) == r.reply \/ r.mode = "core"
JetStreamRule(r) == "nats" \in r.triggers /\ ~IsCore(r)

-----------------------------------------------------------------------------
\* normalizeThrottle's fold: the block moves to its new name with its texts.
BothBlocks(r) ==
  \/ r.triggerThrottle # "none" /\ r.triggerDebounce # "none"
  \/ r.actionThrottle # "none" /\ r.actionDebounce # "none"
Moved(at) == CASE at = "trigger.debounce" -> "trigger.throttle"
               [] at = "action.debounce" -> "action.throttle"
               [] OTHER -> at
normalizeThrottle(r) ==
  LET fold(throttle, debounce) == IF debounce = "none" THEN throttle ELSE debounce
  IN [r EXCEPT !.triggerThrottle = fold(@, r.triggerDebounce), !.triggerDebounce = "none",
               !.actionThrottle = fold(@, r.actionDebounce), !.actionDebounce = "none",
               !.marks = {<<m[1], Moved(m[2])>> : m \in @}]

\* The places the expand functions walk; those of a respond action are not
\* among them.
Expanded(r) ==
  {"trigger.throttle", "trigger.hmac", "trigger.schedule", "condition.field", "condition.value"}
  \cup (IF r.actions \cap {"nats", "http"} = {} THEN {}
        ELSE {"action.subject", "action.url", "action.method", "action.payload",
              "action.headers", "action.forEach", "action.filter", "action.throttle"})

References(r) == {m \in r.marks : m[1] \in {"env", "unset"} /\ m[2] \in Expanded(r)}

\* expandEnvVarsInString: a variable that is not set leaves an empty text.
Expand(r) ==
  [r EXCEPT !.marks = (@ \ References(r)) \cup
                      {<<"empty", m[2]>> : m \in {n \in References(r) : n[1] = "unset"}}]

-----------------------------------------------------------------------------
Has(r, kinds, places) == \E m \in r.marks : m[1] \in kinds /\ m[2] \in places

\* validateKVFieldsInTemplate, for the texts at some places.
ValidKVFields(r, places) == ~Has(r, {"kv"}, places)

\* validateThrottleConfig: the window is a positive duration, and a trigger's
\* throttle cannot hold a message.
ValidThrottle(r, mode, at, allowTrailing) ==
  mode # "none" =>
    /\ ~Has(r, {"empty", "syntax"}, {at})
    /\ mode \in {"leading"} \cup (IF allowTrailing THEN {"trailing"} ELSE {})
    /\ ValidKVFields(r, {at})

\* validateNoTriggerTemplate, which refuses any brace, validateWildcardPattern
\* and ValidatePathPattern.
ValidPattern(r, at) == ~Has(r, Marks, {at})

\* validateHMACConfig: an empty secret is left to the gate, which fails closed.
ValidHMAC(r) == ~Has(r, {"syntax"}, {"trigger.hmac"}) /\ ValidKVFields(r, {"trigger.hmac"})

\* validateScheduleTrigger
ValidSchedule(r) == ~Has(r, {"empty", "syntax"}, {"trigger.schedule"})

\* validateTrigger
ValidTrigger(r) ==
  /\ Cardinality(r.triggers) = 1
  /\ "nats" \in r.triggers =>
       /\ ValidPattern(r, "trigger.subject")
       /\ r.mode \in {"", "jetstream", "core"}
       /\ ~(r.reply /\ r.mode = "jetstream")
       /\ r.queue => IsCore(r)
  /\ "http" \in r.triggers =>
       /\ ValidPattern(r, "trigger.path")
       /\ ~Has(r, {"syntax"}, {"trigger.method"})
       /\ ValidHMAC(r)
  /\ "schedule" \in r.triggers => ValidSchedule(r)
  /\ "schedule" \notin r.triggers =>
       ValidThrottle(r, r.triggerThrottle, "trigger.throttle", FALSE)

\* validateConditions with its field checks, on a tree's texts at a place;
\* the right sides are not looked at.
ValidConditions(r, at) == ~Has(r, {"empty", "syntax"}, {at}) /\ ValidKVFields(r, {at})

\* validateForEachConfig; a filter is looked at only together with a forEach,
\* and an empty one is none.
ValidForEach(r) ==
  r.forEach /\ ~Has(r, {"empty"}, {"action.forEach"}) =>
    ~Has(r, {"syntax"}, {"action.forEach"}) /\ ValidConditions(r, "action.filter")

\* What the three kinds of action have in common; a header needs a name.
ValidContent(r) ==
  /\ ~r.bothPayloads
  /\ ValidKVFields(r, {"action.payload", "action.headers"})
  /\ ~Has(r, {"syntax"}, {"action.headers"})

\* validateNATSAction
ValidNATSAction(r) ==
  /\ ValidContent(r) /\ ValidForEach(r)
  /\ ~Has(r, {"empty"}, {"action.subject"}) /\ ValidKVFields(r, {"action.subject"})
  /\ ~Has(r, {"syntax"}, {"action.mode"})
  /\ ValidThrottle(r, r.actionThrottle, "action.throttle", TRUE)
  /\ ~(r.request /\ r.actionThrottle = "trailing")
  /\ r.timeout => r.request /\ ~Has(r, {"syntax"}, {"action.timeout"})

\* validateHTTPAction
ValidHTTPAction(r) ==
  /\ ValidContent(r) /\ ValidForEach(r)
  /\ ~Has(r, {"empty"}, {"action.url", "action.method", "action.publishResponse"})
  /\ ~Has(r, {"syntax"}, {"action.url", "action.method", "action.retry"})
  /\ ValidKVFields(r, {"action.url", "action.publishResponse"})
  /\ ValidThrottle(r, r.actionThrottle, "action.throttle", TRUE)

\* validateRespondAction
ValidRespondAction(r) == ValidContent(r) /\ ~Has(r, {"syntax"}, {"action.statusCode"})

\* validateAction
ValidAction(r) ==
  /\ Cardinality(r.actions) = 1
  /\ "nats" \in r.actions => ValidNATSAction(r)
  /\ "http" \in r.actions => ValidHTTPAction(r)
  /\ "respond" \in r.actions => ValidRespondAction(r)

\* Mutant: a respond action is accepted with any NATS trigger.
CompatibleAnyReply(r) ==
  /\ "respond" \in r.actions => r.triggers \cap {"http", "nats"} # {}
  /\ ("nats" \in r.triggers /\ r.reply) => "respond" \in r.actions
  /\ ("nats" \in r.actions /\ r.request) => "http" \in r.triggers

\* validateTriggerActionCompatibility
Compatible(r) ==
  LET natsReply == "nats" \in r.triggers /\ r.reply IN
  /\ "respond" \in r.actions => "http" \in r.triggers \/ natsReply
  /\ natsReply => "respond" \in r.actions
  /\ ("nats" \in r.actions /\ r.request) => "http" \in r.triggers

\* validateRule
validateRule(r) ==
  /\ ValidTrigger(r) /\ ValidAction(r) /\ Compatible(r)
  /\ ValidConditions(r, "condition.field")

\* validateRandomCalls, which walks every text there is.
ValidRandomCalls(r) == \A m \in r.marks : m[1] # "random"

\* ParseAndValidateYAML: the rule as loaded, or none.  A loader for the rule
\* bucket has allowEnv off (DisallowEnv).
ParseAndValidate(r, allowEnv) ==
  LET folded == normalizeThrottle(r)
      expanded == Expand(folded)
  IN IF BothBlocks(r) \/ (~allowEnv /\ References(folded) # {})
          \/ ~validateRule(expanded) \/ ~ValidRandomCalls(expanded)
     THEN {} ELSE {expanded}

-----------------------------------------------------------------------------
\* Where a loaded rule's actions are executed: the layer of its trigger.
Layer(r) == IF "schedule" \in r.triggers THEN "scheduler"
            ELSE IF "http" \in r.triggers THEN "inbound"
            ELSE IF IsCore(r) THEN "responder" ELSE "jetstream"

\* getActionThrottle and IsTrailing: a respond action has no throttle.
Deferred(r) == "respond" \notin r.actions /\ r.actionThrottle = "trailing"

\* What the layer does with an action it is handed now, or by its coalescer:
\* SubscriptionManager.executeAction, the responder's handler and
\* executeSideEffect, the inbound server's worker, handleSync and
\* executeDeferred, executeScheduleRule and executeDeferred of the scheduler.
\* The NATS layers have an HTTP executor if the gateway feature is among those
\* that are on, the scheduler has its own.
Features == {"router", "gateway", "scheduler"}
Executes(layer, r, on) ==
  \/ "nats" \in r.actions /\ (r.request => layer = "inbound" /\ ~Deferred(r))
  \/ "http" \in r.actions /\ (layer = "scheduler" \/ (layer # "inbound" /\ "gateway" \in on))
  \/ "respond" \in r.actions /\ (layer = "inbound" \/ (layer = "responder" /\ r.reply))

\* The documented ways in which a loaded rule that fires does nothing: the
\* inbound server skips HTTP actions (docs/02-gateway.md:16), and so does a
\* NATS layer without the gateway feature (docs/12-observability.md:71).
Skipped(r, on) == "http" \in r.actions /\ (Layer(r) = "inbound" \/ "gateway" \notin on)

\* Every rule that is loaded has its effect where its layer runs, with any
\* features on: the layer of its trigger executes its action unless the docs
\* say it is skipped, a caller who waits is answered, and the throttle it asks
\* for is the one it gets.  (A layer whose feature is off receives nothing.)
Servable(r) ==
  /\ \A on \in SUBSET Features : Executes(Layer(r), r, on) \/ Skipped(r, on)
  /\ r.reply /\ "nats" \in r.triggers => "respond" \in r.actions
  /\ r.triggerThrottle # "trailing"
=============================================================================
