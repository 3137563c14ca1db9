----------------------------- MODULE Processor ------------------------------
(***************************************************************************)
(* internal/rule/processor.go and index.go: which rules an input reaches,  *)
(* under which throttle keys, while ReplaceKVRuleSet changes the rules.    *)
(*                                                                         *)
(* A member of Rules is one parsed Rule object.  RuleKVManager parses a    *)
(* key again on every put, so an object that has left the set never comes  *)
(* back.  Inputs are messages, requests and ticks of the scheduler; each   *)
(* is handled once by every subscription it reaches (redelivery is the     *)
(* subject of SubscriptionManager).                                        *)
(*                                                                         *)
(* An open window is a member of `open' and ends at any time; when it ends *)
(* is the subject of ThrottleManager.                                      *)
(***************************************************************************)
EXTENDS PatternMatcher, FiniteSets

CONSTANTS Rules,        \* Rule objects
          Def,          \* what each rule says, see RuleDefs
          FileRules,    \* the rules loaded from files, in load order
          KVRules,      \* the rules that come through the KV bucket
          Inputs,       \* messages, requests and ticks
          In,           \* what each input is, see InputDefs
          Malformed,    \* inputs with no evaluation context (invalid payload)
          Workers,      \* goroutines that process inputs
          MaxReplaces,  \* bound on changes of the KV rules
          None          \* no rule set, no job, no rule

\* One trigger per rule (loader.go).  `at' is the trigger's subject or path;
\* a schedule has none.  `throttle' tells whether the trigger is throttled,
\* `action' how the action is, and `keyed' whether the throttles name a key
\* of their own instead of the subject or path.
RuleDefs == [kind : {"nats", "http", "schedule"}, core : BOOLEAN, method : {"", "POST"},
             throttle : BOOLEAN, action : {"plain", "leading", "trailing"}, keyed : BOOLEAN]

ASSUME DefAssumption ==
  \A r \in Rules :
    /\ [f \in DOMAIN Def[r] \ {"at"} |-> Def[r][f]] \in RuleDefs
    /\ Def[r].kind = "nats" => Def[r].at \in Seq(STRING) /\ ValidTokens(Def[r].at)
    /\ Def[r].kind = "http" => ValidTokens(Def[r].at.segments)
    /\ Def[r].kind = "schedule" => ~Def[r].throttle

\* The `key' of an input stands for its subject or path as a whole.  The
\* server delivers no message whose subject has an empty token (external).
ASSUME InAssumption ==
  \A i \in Inputs :
    /\ In[i].kind \in {"nats", "http", "schedule"} /\ In[i].key \in STRING
    /\ In[i].kind = "nats" => In[i].at \in Seq(STRING) /\ NoEmptyToken(In[i].at)

ASSUME FileRulesAssumption ==
  /\ FileRules \in Seq(Rules)
  /\ \A i, j \in 1..Len(FileRules) : FileRules[i] = FileRules[j] => i = j

ASSUME KVRulesAssumption == KVRules \subseteq Rules
ASSUME NoneAssumption == None \notin Rules

VARIABLES kvMode,     \* kv.rules.enabled
          kvRuleSet,  \* p.kvRuleSet: None before the first Store
          incoming,   \* the set ReplaceKVRuleSet is numbering, or None
          replaces,   \* how many sets have come
          index,      \* Rule.index
          kvRuleSeq,  \* p.kvRuleSeq
          jobs,       \* the schedule rules the scheduler has registered
          job,        \* per worker, the input in hand and what remains to do
          open,       \* throttle keys whose window is open
          owners,     \* history: which rules have used which throttle key
          handled,    \* history: which subscription has delivered which input
          seen,       \* history: which rules an input was evaluated by
          fired       \* history: how often an input fired a rule

vars == <<kvMode, kvRuleSet, incoming, replaces, index, kvRuleSeq, jobs, job,
          open, owners, handled, seen, fired>>

Loaded == IF kvMode THEN {} ELSE {FileRules[i] : i \in 1..Len(FileRules)}

Stored == IF kvRuleSet = None THEN {} ELSE kvRuleSet

\* Rule.index as LoadRules sets it: the position, from zero.
Position(r) == (CHOOSE i \in 1..Len(FileRules) : FileRules[i] = r) - 1

\* NewProcessor, and LoadRules unless the rules come from KV.
Init ==
  /\ kvMode \in BOOLEAN
  /\ kvRuleSet = None
  /\ incoming = None
  /\ replaces = 0
  /\ index = [r \in Rules |-> IF r \in Loaded THEN Position(r) ELSE 0]
  /\ kvRuleSeq = 0
  /\ jobs = {r \in Loaded : Def[r].kind = "schedule"}
  /\ job = [w \in Workers |-> None]
  /\ open = {}
  /\ owners = {}
  /\ handled = {}
  /\ seen = {}
  /\ fired = [x \in Inputs \X Rules |-> 0]

-----------------------------------------------------------------------------
\* Mutant: every rule of the set is numbered anew, as it once was.
ReplaceRenumbers ==
  /\ kvMode /\ incoming = None
  /\ replaces < MaxReplaces
  /\ \E set \in SUBSET {r \in KVRules : r \in Stored \/ index[r] = 0} :
       /\ incoming' = set
       /\ index' = [r \in Rules |-> IF r \in set THEN 0 ELSE index[r]]
  /\ kvRuleSeq' = 0
  /\ replaces' = replaces + 1
  /\ UNCHANGED <<kvMode, kvRuleSet, jobs, job, open, owners, handled, seen, fired>>

\* RuleKVManager hands over a new set: rules it already had, and rules it has
\* just parsed.
Replace ==
  /\ kvMode /\ incoming = None
  /\ replaces < MaxReplaces
  /\ \E set \in SUBSET {r \in KVRules : r \in Stored \/ index[r] = 0} : incoming' = set
  /\ replaces' = replaces + 1
  /\ UNCHANGED <<kvMode, kvRuleSet, index, kvRuleSeq, jobs, job, open, owners, handled, seen, fired>>

\* number: each rule without an index gets the next one, in map order.
Number(r) ==
  /\ incoming # None /\ r \in incoming
  /\ index[r] = 0
  /\ kvRuleSeq' = kvRuleSeq + 1
  /\ index' = [index EXCEPT ![r] = kvRuleSeq']
  /\ UNCHANGED <<kvMode, kvRuleSet, incoming, replaces, jobs, job, open, owners, handled, seen, fired>>

\* Mutant: the set is stored before its rules are numbered.
NumberedNone == TRUE

Numbered == \A r \in incoming : index[r] # 0

\* The atomic swap, once every rule has its number.
Store ==
  /\ incoming # None
  /\ Numbered
  /\ kvRuleSet' = incoming
  /\ incoming' = None
  /\ UNCHANGED <<kvMode, replaces, index, kvRuleSeq, jobs, job, open, owners, handled, seen, fired>>

ScheduleRules ==
  {r \in IF kvRuleSet # None THEN kvRuleSet ELSE Loaded : Def[r].kind = "schedule"}

\* The scheduler registers the schedule rules anew, some time after a change.
RebuildJobs ==
  /\ jobs # ScheduleRules
  /\ jobs' = ScheduleRules
  /\ UNCHANGED <<kvMode, kvRuleSet, incoming, replaces, index, kvRuleSeq, job, open, owners, handled, seen, fired>>

-----------------------------------------------------------------------------
\* Mutant: a transport evaluates the rules of both.
OwnRulesAll(rules, core) == rules

\* JetStreamRuleFilter and CoreRuleFilter
OwnRules(rules, core) == {r \in rules : Def[r].core = core}

NATSRules(rules) == {r \in rules : Def[r].kind = "nats"}

\* Index.Add and FindAllMatchingTokenized: exact subjects by lookup, the
\* others by their matchers.
FindAllMatching(subject) == {r \in NATSRules(Loaded) : MatchTokens(Def[r].at, subject)}

\* ProcessForSubscription and processNATSFiltered: the rules one subscription
\* evaluates.  KV rules are found by the subscription's subject; there is no
\* fallback when none of those belong to the transport.
RulesFor(core, trigger, subject) ==
  LET own == {r \in NATSRules(Stored) : Def[r].at = trigger}
  IN OwnRules(IF own = {} THEN FindAllMatching(subject) ELSE own, core)

\* findHTTPRules: file rules and KV rules, exact and wildcard, by path and
\* then by method.
findHTTPRules(path, method) ==
  {r \in Loaded \cup Stored :
     /\ Def[r].kind = "http"
     /\ MatchPath(Def[r].at, path)
     /\ Def[r].method \in {"", method}}

\* The subjects a transport subscribes to.  In file mode jetStreamSubjects
\* and the responder derive them from the loaded rules; in KV mode they
\* follow the rules with some delay, so a subscription may outlive its rules.
Subscriptions(core) ==
  {Def[r].at : r \in {q \in NATSRules(IF kvMode THEN KVRules ELSE Loaded) : Def[q].core = core}}

\* A worker starts on an input that came `via' a subscription, with the rules
\* it finds.  NewEvaluationContext refuses a malformed payload.
Take(w, i, via, rules) ==
  /\ job[w] = None
  /\ <<via, i>> \notin handled
  /\ handled' = handled \cup {<<via, i>>}
  /\ LET todo == IF i \in Malformed THEN {} ELSE rules IN
     /\ job' = [job EXCEPT ![w] = IF todo = {} THEN None
                                  ELSE [input |-> i, todo |-> todo, at |-> None]]
     /\ seen' = seen \cup ({i} \X todo)
  /\ UNCHANGED <<kvMode, kvRuleSet, incoming, replaces, index, kvRuleSeq, jobs, open, owners, fired>>

ProcessNATS(w, i) ==
  /\ In[i].kind = "nats"
  /\ \E core \in BOOLEAN : \E s \in Subscriptions(core) :
       /\ ServerDelivers(s, In[i].at)
       /\ Take(w, i, <<core, s>>, RulesFor(core, s, In[i].at))

ProcessHTTP(w, i) ==
  /\ In[i].kind = "http"
  /\ Take(w, i, <<FALSE, <<>>>>, findHTTPRules(In[i].at, In[i].method))

\* A cron job runs the rule it captured, which may have been replaced since.
ProcessSchedule(w, i) ==
  /\ In[i].kind = "schedule"
  /\ \E r \in jobs : Take(w, i, <<FALSE, <<>>>>, {r})

-----------------------------------------------------------------------------
\* evaluateRules, rule by rule.  Rules of one input are taken in any order:
\* theirs is load order for files and map order for KV.

\* resolveThrottleKey and ThrottleKey
ThrottleKey(phase, r, i) ==
  <<phase, index[r], IF Def[r].keyed \/ Def[r].kind = "schedule" THEN "" ELSE In[i].key>>

Done(w, r) ==
  LET rest == job[w].todo \ {r} IN
  job' = [job EXCEPT ![w] = IF rest = {} THEN None ELSE [@ EXCEPT !.todo = rest, !.at = None]]

\* The trigger throttle: Allow suppresses the rule, or opens a window.
TriggerThrottle(w, r) ==
  /\ job[w] # None /\ job[w].at = None /\ r \in job[w].todo
  /\ LET key == ThrottleKey("t", r, job[w].input) IN
     IF Def[r].throttle
     THEN /\ owners' = owners \cup {<<key, r>>}
          /\ open' = open \cup {key}
          /\ IF key \in open THEN Done(w, r) ELSE job' = [job EXCEPT ![w].at = r]
     ELSE job' = [job EXCEPT ![w].at = r] /\ UNCHANGED <<owners, open>>
  /\ UNCHANGED <<kvMode, kvRuleSet, incoming, replaces, index, kvRuleSeq, jobs, handled, seen, fired>>

\* The conditions do not hold.
Unmatched(w) ==
  /\ job[w] # None /\ job[w].at # None
  /\ Done(w, job[w].at)
  /\ UNCHANGED <<kvMode, kvRuleSet, incoming, replaces, index, kvRuleSeq, jobs, open, owners, handled, seen, fired>>

\* What processAction may come to: a template, header or merge fails, or the
\* forEach finds no array or too long a one ("error"); every element of the
\* forEach is filtered out or fails ("none"); or there are actions.
processAction == {"error", "none", "actions"}

\* The conditions hold.  A leading action throttle suppresses the action or
\* opens a window; a trailing one names the batch by its key.  The actions
\* fire at once or as one deferred batch.  Without actions nothing fires, but
\* the window stays open.
Matched(w) ==
  /\ job[w] # None /\ job[w].at # None
  /\ LET r == job[w].at
         i == job[w].input
         key == ThrottleKey("a", r, i) IN
     /\ Done(w, r)
     /\ owners' = IF Def[r].action = "plain" THEN owners ELSE owners \cup {<<key, r>>}
     /\ open' = IF Def[r].action = "leading" THEN open \cup {key} ELSE open
     /\ \E outcome \in processAction :
          IF outcome = "actions" /\ (Def[r].action = "leading" => key \notin open)
          THEN fired' = [fired EXCEPT ![<<i, r>>] = @ + 1]
          ELSE UNCHANGED fired
  /\ UNCHANGED <<kvMode, kvRuleSet, incoming, replaces, index, kvRuleSeq, jobs, handled, seen>>

\* A window ends.
WindowEnds(key) ==
  /\ open' = open \ {key}
  /\ UNCHANGED <<kvMode, kvRuleSet, incoming, replaces, index, kvRuleSeq, jobs, job, owners, handled, seen, fired>>

Next ==
  \/ Replace \/ Store \/ RebuildJobs
  \/ \E r \in Rules : Number(r)
  \/ \E w \in Workers :
       \/ \E i \in Inputs : ProcessNATS(w, i) \/ ProcessHTTP(w, i) \/ ProcessSchedule(w, i)
       \/ \E r \in Rules : TriggerThrottle(w, r)
       \/ Unmatched(w) \/ Matched(w)
  \/ \E key \in open : WindowEnds(key)

Spec == Init /\ [][Next]_vars

-----------------------------------------------------------------------------
ThrottleKeys == {"t", "a"} \X Nat \X ({""} \cup {In[i].key : i \in Inputs})

TypeOK ==
  /\ kvMode \in BOOLEAN
  /\ kvRuleSet \in {None} \cup SUBSET Rules
  /\ incoming \in {None} \cup SUBSET Rules
  /\ replaces \in Nat
  /\ index \in [Rules -> Nat]
  /\ kvRuleSeq \in Nat
  /\ jobs \in SUBSET Rules
  /\ job \in [Workers -> [input : Inputs, todo : SUBSET Rules, at : Rules \cup {None}] \cup {None}]
  /\ open \subseteq ThrottleKeys
  /\ owners \subseteq ThrottleKeys \X Rules
  /\ seen \subseteq Inputs \X Rules
  /\ fired \in [Inputs \X Rules -> Nat]

\* A rule whose index is its own: zero is also the first rule of the files.
Known(r) == IF kvMode THEN index[r] # 0 ELSE r \in Loaded

\* No two rules have the same index, and the next one is unused.  Only KV
\* mode numbers rules while inputs are processed.
IndexesDistinct ==
  /\ incoming # None => kvMode
  /\ kvMode => \A r \in Rules : index[r] <= kvRuleSeq
  /\ \A r, q \in Rules : Known(r) /\ Known(q) /\ index[r] = index[q] => r = q

\* Whatever a worker or the scheduler can evaluate has its index.
VisibleKnown ==
  /\ \A r \in Stored \cup jobs : Known(r)
  /\ \A w \in Workers : job[w] # None =>
       (\A r \in job[w].todo : Known(r)) /\ (job[w].at # None => Known(job[w].at))

\* The keys in use carry the present index of their rule.
OwnersKnown == \A x \in owners : x[1][2] = index[x[2]] /\ Known(x[2])

\* The inductive invariant behind KeyOwned (processor.go:524-541).
IndInv == TypeOK /\ IndexesDistinct /\ VisibleKnown /\ OwnersKnown

\* Throttle state stays with the rule that created it: no key is ever used by
\* two rules, so a window never suppresses another rule's action and a
\* trailing batch never replaces another rule's (processor.go:525-533).
KeyOwned == \A x, y \in owners : x[1] = y[1] => x[2] = y[2]

\* "wrote to rules that workers were still reading" (processor.go:530): once
\* a rule has its number, it keeps it.
IndexStable == [][\A r \in Rules : index[r] # 0 => index'[r] = index[r]]_vars

\* A message fires a rule at most once per subscription of the rule's own
\* transport that it reaches, and with KV rules at most once: deliveries on a
\* shared or overlapping subject do not double-fire (processor.go:583-587).
FireBound ==
  \A i \in Inputs, r \in Rules :
    fired[<<i, r>>] <=
      IF kvMode \/ In[i].kind # "nats" THEN 1
      ELSE Cardinality({s \in Subscriptions(Def[r].core) : ServerDelivers(s, In[i].at)})

\* In file mode the index never misses a rule that its own subscription has a
\* message for (index.go:148-190).
OwnDeliverySees ==
  ~kvMode =>
    \A d \in handled : In[d[2]].kind = "nats" /\ d[2] \notin Malformed =>
      \A r \in OwnRules(NATSRules(Loaded), d[1][1]) :
        Def[r].at = d[1][2] => <<d[2], r>> \in seen

-----------------------------------------------------------------------------
\* CHANGELOG.md:152: a subject covered by both transports "fires each rule
\* exactly once on its own transport".
FiresOnce == \A i \in Inputs, r \in Rules : fired[<<i, r>>] <= 1
=============================================================================
