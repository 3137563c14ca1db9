----------------------------- MODULE HotReload ------------------------------
(***************************************************************************)
(* How a rule comes into effect: it is loaded (RuleLoader), and its        *)
(* subject is given a stream and a consumer (StreamResolver).  Rules come  *)
(* from files at startup, or from the bucket while the router runs and     *)
(* operators create and delete streams.  The watch, the callbacks and the  *)
(* rule index are the subject of RuleKVManager and Processor.              *)
(*                                                                         *)
(* A rule is what the loader looks at (def) and what evaluation looks at   *)
(* (RuleEvaluation).                                                       *)
(***************************************************************************)
EXTENDS StreamResolver, RuleLoader

CONSTANTS BucketKeys,   \* keys of the rule bucket
          SubjectRules, \* rules that differ in their subject
          Samples,      \* rules that differ in anything else
          NoRule

\* Rules are what the YAML types can hold, and Subjects their subjects.
ASSUME RuleAssumption ==
  \A r \in SubjectRules \cup Samples :
    /\ "def" \in DOMAIN r
    /\ r.def \in RuleSources /\ Writable(r.def)
    /\ r.def.subject \in Subjects

VARIABLES mode,   \* where rules come from: "file" or "kv"
          rules   \* RuleKVManager.currentRules, or the loaded rules

hotVars == <<streamVars, mode, rules>>

JetStreamSubjects(r) == IF r = NoRule THEN {}
                        ELSE IF JetStreamRule(r.def) THEN {r.def.subject} ELSE {}

HotInit ==
  /\ StreamInit
  /\ mode \in {"file", "kv"}
  /\ rules = [k \in BucketKeys |-> NoRule]

\* Bound: a sample is put into a fresh system with the first stream, as its
\* last change, since neither the loader nor a message looks at the streams.
Budget(r) ==
  /\ start = Idle
  /\ changes < MaxChanges
  /\ \/ /\ changes = 0 /\ server = {1}
        /\ r \in Samples
        /\ changes' = MaxChanges
     \/ /\ r \in SubjectRules
        /\ changes' = changes + 1

\* The rule as the loader returns it.
Parsed(r) == {[r EXCEPT !.def = d] : d \in ParseAndValidate(r.def, mode = "file")}

\* A rule of a file, at startup: ValidateSubjects, then the consumer.
Load(k, r) ==
  /\ mode = "file"
  /\ rules[k] = NoRule
  /\ Budget(r)
  /\ \E loaded \in Parsed(r) :
       /\ \A s \in JetStreamSubjects(loaded) : HasStream(known, s)
       /\ rules' = [rules EXCEPT ![k] = loaded]
       /\ start' \in {Starts(s) : s \in JetStreamSubjects(loaded)}
                       \cup (IF JetStreamSubjects(loaded) = {} THEN {Idle} ELSE {})
  /\ UNCHANGED <<server, durable, moved, known, consumers, subs, failed, mode>>

\* handleRulePut of a value the loader refuses: the key keeps its rules.
PutInvalid(k, r) ==
  /\ mode = "kv"
  /\ Budget(r)
  /\ Parsed(r) = {}
  /\ UNCHANGED <<server, durable, moved, known, consumers, subs, start, failed, mode, rules>>

\* handleRulePut: the refreshed streams decide; a subject that the key did
\* not have before is subscribed to.  The subscription of one that it no
\* longer has stays.
Put(k, r) ==
  /\ mode = "kv"
  /\ Budget(r)
  /\ \E loaded \in Parsed(r) :
       /\ known' \in Refreshed
       /\ IF \A s \in JetStreamSubjects(loaded) : HasStream(known', s)
          THEN /\ rules' = [rules EXCEPT ![k] = loaded]
               /\ LET new == JetStreamSubjects(loaded) \ JetStreamSubjects(rules[k])
                  IN start' \in IF new = {} THEN {Idle} ELSE {Starts(s) : s \in new}
          ELSE UNCHANGED <<rules, start>>
  /\ UNCHANGED <<server, durable, moved, consumers, subs, failed, mode>>

\* handleRuleDelete, RemoveSubscription: the durable consumer stays, and so
\* does the broker's note of it.
Delete(k) ==
  LET needed == UNION {JetStreamSubjects(rules[j]) : j \in BucketKeys \ {k}}
  IN /\ mode = "kv"
     /\ rules[k] # NoRule
     /\ Budget(rules[k])
     /\ rules' = [rules EXCEPT ![k] = NoRule]
     /\ subs' = [s \in Subjects |->
                   IF s \in JetStreamSubjects(rules[k]) \ needed THEN 0 ELSE subs[s]]
     /\ UNCHANGED <<server, durable, moved, known, consumers, start, failed, mode>>

HotNext ==
  \/ StreamStep /\ UNCHANGED <<mode, rules>>
  \/ \E k \in BucketKeys :
       \/ changes < MaxChanges /\ \E r \in SubjectRules \cup Samples :
                                    Load(k, r) \/ Put(k, r) \/ PutInvalid(k, r)
       \/ Delete(k)

HotSpec == HotInit /\ [][HotNext]_hotVars

-----------------------------------------------------------------------------
\* A rule that is in effect can have its effect: the layer that serves its
\* trigger executes its action, with the two documented exceptions for HTTP
\* actions and no other, whatever features are on (loader.go,
\* ParseAndValidateYAML, decides; subscription.go, responder.go, server.go and
\* scheduler.go execute).
LoadedIsServable ==
  \A k \in BucketKeys : rules[k] # NoRule => Servable(rules[k].def)
=============================================================================
