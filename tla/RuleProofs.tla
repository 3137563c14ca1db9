---------------------------- MODULE RuleProofs ------------------------------
(***************************************************************************)
(* The life of a rule, for any rules, streams, inputs and workers.         *)
(*                                                                         *)
(* Processor: a throttle key belongs to one rule for ever, a message fires *)
(* a rule no more often than it was delivered for it, and no rule misses a *)
(* message of its own subscription.                                        *)
(*                                                                         *)
(* ThrottleManager: the throttle the Processor owns (p.throttle) is right  *)
(* for any keys, windows and sweep interval.                               *)
(*                                                                         *)
(* HotReload: what the loader lets into effect can have its effect, its    *)
(* subject is given a stream that covers it, and its consumer is its own.  *)
(***************************************************************************)
EXTENDS Processor, ThrottleManager, HotReload,
        FiniteSetTheorems, SequenceTheorems, WellFoundedInduction, TLAPS

\* LoadRules gives the rules of the files different indexes (processor.go:311-313).
LEMMA PositionsDistinct ==
  ASSUME NEW r \in {FileRules[i] : i \in 1..Len(FileRules)},
         NEW q \in {FileRules[i] : i \in 1..Len(FileRules)},
         Position(r) = Position(q)
  PROVE  r = q /\ Position(r) \in Nat
<1>1. PICK i \in 1..Len(FileRules) : FileRules[i] = r OBVIOUS
<1>2. PICK j \in 1..Len(FileRules) : FileRules[j] = q OBVIOUS
<1> DEFINE ri == CHOOSE k \in 1..Len(FileRules) : FileRules[k] = r
           qi == CHOOSE k \in 1..Len(FileRules) : FileRules[k] = q
<1>3. ri \in 1..Len(FileRules) /\ FileRules[ri] = r BY <1>1
<1>4. qi \in 1..Len(FileRules) /\ FileRules[qi] = q BY <1>2
<1>5. Len(FileRules) \in Nat BY FileRulesAssumption
<1>6. Position(r) = ri - 1 /\ Position(q) = qi - 1 BY DEF Position
<1> HIDE DEF ri, qi
<1>7. ri - 1 = qi - 1 BY <1>6, Zenon
<1>8. ri \in Int /\ qi \in Int /\ ri - 1 \in Nat BY <1>3, <1>4, <1>5
<1>9. ri = qi BY <1>7, <1>8
<1> QED BY <1>3, <1>4, <1>6, <1>8, <1>9

\* Processing starts in a state of the inductive invariant (NewProcessor and
\* LoadRules, processor.go:247-381).
LEMMA InitIndInv == Init => IndInv
<1> SUFFICES ASSUME Init PROVE IndInv OBVIOUS
<1> DEFINE F == {FileRules[i] : i \in 1..Len(FileRules)}
<1>1. F \subseteq Rules BY FileRulesAssumption
<1>2. \A r \in F : Position(r) \in Nat BY PositionsDistinct
<1>3. Loaded \subseteq Rules /\ \A r \in Loaded : r \in F BY <1>1 DEF Loaded
<1> HIDE DEF F
<1>4. TypeOK
  <2>1. index \in [Rules -> Nat] BY <1>2, <1>3 DEF Init
  <2> QED BY <2>1, <1>3 DEF Init, TypeOK
<1>5. IndexesDistinct
  <2>1. CASE kvMode BY <2>1 DEF Init, IndexesDistinct, Known, Loaded
  <2>2. CASE ~kvMode
    <3>1. \A r, q \in Loaded : Position(r) = Position(q) => r = q
      BY PositionsDistinct DEF Loaded
    <3>2. \A r \in Loaded : index[r] = Position(r) BY <1>3 DEF Init
    <3> QED BY <2>2, <3>1, <3>2 DEF Init, IndexesDistinct, Known
  <2> QED BY <2>1, <2>2
<1>6. VisibleKnown
  BY <1>3 DEF Init, VisibleKnown, Known, Stored, Loaded
<1>7. OwnersKnown BY DEF Init, OwnersKnown
<1> QED BY <1>4, <1>5, <1>6, <1>7 DEF IndInv

-----------------------------------------------------------------------------
\* A rule keeps its index unless ReplaceKVRuleSet numbers it for the first time.
LEMMA KnownStays ==
  ASSUME IndInv, UNCHANGED <<kvMode, index>>
  PROVE  Loaded' = Loaded /\ \A r \in Rules : Known(r)' = Known(r)
BY DEF Known, Loaded

\* The rules in force are numbered, whichever mode they came in.
LEMMA InForce ==
  ASSUME IndInv
  PROVE  /\ Loaded \subseteq Rules /\ Stored \subseteq Rules
         /\ \A r \in Loaded \cup Stored : Known(r)
<1>1. Loaded \subseteq Rules BY FileRulesAssumption DEF Loaded
<1>2. Stored \subseteq Rules BY DEF IndInv, TypeOK, Stored
<1>3. \A r \in Loaded : Known(r) BY DEF Known, Loaded
<1> QED BY <1>1, <1>2, <1>3 DEF IndInv, VisibleKnown

\* Finishing with a rule leaves the worker with fewer of the rules it had.
LEMMA DoneKeeps ==
  ASSUME IndInv, NEW w \in Workers, job[w] # None, NEW r \in Rules, Done(w, r),
         UNCHANGED <<kvMode, index>>
  PROVE  /\ job' \in [Workers -> [input : Inputs, todo : SUBSET Rules, at : Rules \cup {None}] \cup {None}]
         /\ \A v \in Workers : job'[v] # None =>
              /\ \A q \in job'[v].todo : Known(q)
              /\ job'[v].at # None => Known(job'[v].at)
<1>1. job \in [Workers -> [input : Inputs, todo : SUBSET Rules, at : Rules \cup {None}] \cup {None}]
  BY DEF IndInv, TypeOK
<1>2. job[w] \in [input : Inputs, todo : SUBSET Rules, at : Rules \cup {None}] BY <1>1
<1> DEFINE rest == job[w].todo \ {r}
           left == IF rest = {} THEN None ELSE [job[w] EXCEPT !.todo = rest, !.at = None]
<1>3. job' = [job EXCEPT ![w] = left] BY <1>1 DEF Done
<1>4. /\ left \in [input : Inputs, todo : SUBSET Rules, at : Rules \cup {None}] \cup {None}
      /\ left # None => left.todo = rest /\ left.at = None
  BY <1>2
<1>5. \A q \in rest : Known(q) BY DEF IndInv, VisibleKnown
<1> HIDE DEF rest, left
<1>6. job'[w] = left /\ \A v \in Workers : v # w => job'[v] = job[v] BY <1>1, <1>3
<1> QED BY <1>1, <1>3, <1>4, <1>5, <1>6 DEF IndInv, VisibleKnown

\* A key carries the index of the rule it is built for (processor.go:896 and
\* 919).
LEMMA KeyOf ==
  ASSUME IndInv, NEW r \in Rules, NEW i \in Inputs, NEW p \in {"t", "a"}
  PROVE  ThrottleKey(p, r, i) \in ThrottleKeys /\ ThrottleKey(p, r, i)[2] = index[r]
BY DEF IndInv, TypeOK, ThrottleKey, ThrottleKeys

\* Whatever rules an input finds are in force.
LEMMA FoundInForce ==
  ASSUME NEW core, NEW trigger, NEW subject, NEW path, NEW method
  PROVE  /\ RulesFor(core, trigger, subject) \subseteq Loaded \cup Stored
         /\ findHTTPRules(path, method) \subseteq Loaded \cup Stored
BY DEF RulesFor, OwnRules, FindAllMatching, NATSRules, findHTTPRules

\* A worker takes rules that are in force.
LEMMA TakeKeeps ==
  ASSUME IndInv, NEW w \in Workers, NEW i \in Inputs, NEW via, NEW found,
         found \subseteq Rules, \A r \in found : Known(r),
         Take(w, i, via, found)
  PROVE  IndInv'
<1> DEFINE todo == IF i \in Malformed THEN {} ELSE found
           new == IF todo = {} THEN None ELSE [input |-> i, todo |-> todo, at |-> None]
<1>1. job' = [job EXCEPT ![w] = new] /\ seen' = seen \cup ({i} \X todo) BY DEF Take
<1>2. UNCHANGED <<kvMode, kvRuleSet, incoming, replaces, index, kvRuleSeq, jobs, open, owners, fired>>
  BY DEF Take
<1>3. /\ new \in [input : Inputs, todo : SUBSET Rules, at : Rules \cup {None}] \cup {None}
      /\ new # None => new.todo = todo /\ new.at = None
  OBVIOUS
<1>4. todo \subseteq Rules /\ \A r \in todo : Known(r) OBVIOUS
<1> HIDE DEF todo, new
<1>5. job \in [Workers -> [input : Inputs, todo : SUBSET Rules, at : Rules \cup {None}] \cup {None}]
  BY DEF IndInv, TypeOK
<1>6. job'[w] = new /\ \A v \in Workers : v # w => job'[v] = job[v] BY <1>1, <1>5
<1>7. job' \in [Workers -> [input : Inputs, todo : SUBSET Rules, at : Rules \cup {None}] \cup {None}]
  BY <1>1, <1>3, <1>5
<1>8. TypeOK' BY <1>1, <1>2, <1>4, <1>7 DEF IndInv, TypeOK, ThrottleKeys
<1>9. \A r \in Rules : Known(r)' = Known(r) BY <1>2, KnownStays
<1>10. IndexesDistinct' BY <1>2, <1>9 DEF IndInv, IndexesDistinct
<1>11. VisibleKnown'
  <2>1. Stored' = Stored BY <1>2 DEF Stored
  <2>2. \A r \in (Stored \cup jobs)' : Known(r)'
    BY <1>2, <1>9, <2>1, InForce DEF IndInv, VisibleKnown, TypeOK
  <2>3. ASSUME NEW v \in Workers, job'[v] # None
        PROVE  (\A r \in job'[v].todo : Known(r)') /\ (job'[v].at # None => Known(job[v].at)')
    <3>1. CASE v = w BY <1>3, <1>4, <1>6, <1>9, <2>3, <3>1
    <3>2. CASE v # w
      <4>1. job'[v] = job[v] BY <1>6, <3>2
      <4>2. /\ \A r \in job[v].todo : r \in Rules /\ Known(r)
            /\ job[v].at # None => job[v].at \in Rules /\ Known(job[v].at)
        BY <1>5, <2>3, <4>1 DEF IndInv, VisibleKnown
      <4> QED BY <1>9, <4>1, <4>2
    <3> QED BY <3>1, <3>2
  <2> QED BY <2>2, <2>3 DEF VisibleKnown
<1>12. OwnersKnown'
  BY <1>2, <1>9 DEF IndInv, OwnersKnown, TypeOK, ThrottleKeys
<1> QED BY <1>8, <1>10, <1>11, <1>12 DEF IndInv

\* A worker's step on a rule keeps the invariant if what it does to its job
\* and to the keys is in order.
LEMMA WorkKeeps ==
  ASSUME IndInv,
         job' \in [Workers -> [input : Inputs, todo : SUBSET Rules, at : Rules \cup {None}] \cup {None}],
         \A v \in Workers : job'[v] # None =>
              /\ \A q \in job'[v].todo : Known(q)
              /\ job'[v].at # None => Known(job'[v].at),
         open' \subseteq ThrottleKeys,
         NEW r \in Rules, NEW key \in ThrottleKeys, key[2] = index[r], Known(r),
         owners' \subseteq owners \cup {<<key, r>>},
         fired' \in [Inputs \X Rules -> Nat],
         UNCHANGED <<kvMode, kvRuleSet, incoming, replaces, index, kvRuleSeq, jobs, seen>>
  PROVE  IndInv'
<1>1. \A q \in Rules : Known(q)' = Known(q) BY KnownStays
<1>2. TypeOK'
  <2>1. ThrottleKeys' = ThrottleKeys BY DEF ThrottleKeys
  <2>2. owners' \subseteq ThrottleKeys \X Rules BY DEF IndInv, TypeOK
  <2> QED BY <2>1, <2>2 DEF IndInv, TypeOK
<1>3. IndexesDistinct' BY <1>1 DEF IndInv, IndexesDistinct
<1>4. VisibleKnown'
  <2>1. Stored' = Stored BY DEF Stored
  <2>2. \A q \in (Stored \cup jobs)' : Known(q)'
    BY <1>1, <2>1, InForce DEF IndInv, VisibleKnown, TypeOK
  <2>3. ASSUME NEW v \in Workers, job'[v] # None
        PROVE  (\A q \in job'[v].todo : Known(q)') /\ (job'[v].at # None => Known(job[v].at)')
    <3>1. job'[v] \in [input : Inputs, todo : SUBSET Rules, at : Rules \cup {None}] BY <2>3
    <3>2. (\A q \in job'[v].todo : Known(q)) /\ (job'[v].at # None => Known(job'[v].at)) BY <2>3
    <3>3. job'[v].todo \subseteq Rules /\ (job'[v].at # None => job'[v].at \in Rules) BY <3>1
    <3> QED BY <1>1, <3>2, <3>3
  <2> QED BY <2>2, <2>3 DEF VisibleKnown
<1>5. OwnersKnown'
  <2>1. ASSUME NEW x \in owners' PROVE x[1][2] = index'[x[2]] /\ Known(x[2])'
    <3>1. CASE x \in owners
      <4>1. x[2] \in Rules BY <3>1 DEF IndInv, TypeOK
      <4> QED BY <1>1, <3>1, <4>1 DEF IndInv, OwnersKnown
    <3>2. CASE x = <<key, r>> BY <1>1, <3>2
    <3> QED BY <2>1, <3>1, <3>2
  <2> QED BY <2>1 DEF OwnersKnown
<1> QED BY <1>2, <1>3, <1>4, <1>5 DEF IndInv

-----------------------------------------------------------------------------
\* Every step of a worker keeps the invariant (evaluateRules,
\* processor.go:884-996).
LEMMA TriggerThrottleKeeps ==
  ASSUME IndInv, NEW w \in Workers, NEW r \in Rules, TriggerThrottle(w, r)
  PROVE  IndInv'
<1> DEFINE J == [input : Inputs, todo : SUBSET Rules, at : Rules \cup {None}]
           key == ThrottleKey("t", r, job[w].input)
<1>1. job \in [Workers -> J \cup {None}] /\ job[w] \in J /\ job[w] # None
  BY DEF IndInv, TypeOK, TriggerThrottle
<1>2. key \in ThrottleKeys /\ key[2] = index[r] BY <1>1, KeyOf
<1>3. r \in job[w].todo /\ Known(r) BY <1>1 DEF IndInv, VisibleKnown, TriggerThrottle
<1>4. UNCHANGED <<kvMode, kvRuleSet, incoming, replaces, index, kvRuleSeq, jobs, seen, fired>>
  BY DEF TriggerThrottle
<1>5. fired' \in [Inputs \X Rules -> Nat] /\ open \subseteq ThrottleKeys BY <1>4 DEF IndInv, TypeOK
<1>6. owners' \subseteq owners \cup {<<key, r>>} /\ open' \subseteq open \cup {key}
  BY DEF TriggerThrottle
<1>7. Done(w, r) \/ job' = [job EXCEPT ![w].at = r] BY DEF TriggerThrottle
<1> HIDE DEF key
<1>8. /\ job' \in [Workers -> J \cup {None}]
      /\ \A v \in Workers : job'[v] # None =>
           (\A q \in job'[v].todo : Known(q)) /\ (job'[v].at # None => Known(job'[v].at))
  <2>1. CASE Done(w, r) BY <1>1, <1>4, <2>1, DoneKeeps
  <2>2. CASE job' = [job EXCEPT ![w].at = r]
    <3>1. job' = [job EXCEPT ![w] = [job[w] EXCEPT !.at = r]] BY <2>2
    <3>2. [job[w] EXCEPT !.at = r] \in J BY <1>1
    <3>3. job'[w].todo = job[w].todo /\ job'[w].at = r BY <1>1, <3>1
    <3>4. \A v \in Workers : v # w => job'[v] = job[v] BY <1>1, <3>1
    <3>5. job' \in [Workers -> J \cup {None}] BY <1>1, <3>1, <3>2
    <3> QED BY <1>1, <1>3, <3>3, <3>4, <3>5 DEF IndInv, VisibleKnown
  <2> QED BY <1>7, <2>1, <2>2
<1> QED BY <1>2, <1>3, <1>4, <1>5, <1>6, <1>8, WorkKeeps

\* A rule whose conditions were evaluated is done with, or acts (processor.go,
\* evaluateRules).
LEMMA ConditionsKeep ==
  ASSUME IndInv, NEW w \in Workers, Unmatched(w) \/ Matched(w)
  PROVE  IndInv'
<1> DEFINE J == [input : Inputs, todo : SUBSET Rules, at : Rules \cup {None}]
           r == job[w].at
           key == ThrottleKey("a", r, job[w].input)
<1>1. job \in [Workers -> J \cup {None}] /\ job[w] \in J /\ job[w] # None /\ r # None
  BY DEF IndInv, TypeOK, Unmatched, Matched
<1>2. r \in Rules /\ Known(r) /\ job[w].input \in Inputs BY <1>1 DEF IndInv, VisibleKnown
<1>3. key \in ThrottleKeys /\ key[2] = index[r] BY <1>2, KeyOf
<1>4. UNCHANGED <<kvMode, kvRuleSet, incoming, replaces, index, kvRuleSeq, jobs, seen>>
  BY DEF Unmatched, Matched
<1>5. Done(w, r) BY DEF Unmatched, Matched
<1>6. owners' \subseteq owners \cup {<<key, r>>} /\ open' \subseteq open \cup {key}
  BY DEF Unmatched, Matched
<1>7. \/ fired' = fired
      \/ fired' = [fired EXCEPT ![<<job[w].input, r>>] = @ + 1]
  BY DEF Unmatched, Matched
<1>8. open \subseteq ThrottleKeys /\ fired \in [Inputs \X Rules -> Nat] BY DEF IndInv, TypeOK
<1> HIDE DEF r, key
<1>9. fired' \in [Inputs \X Rules -> Nat] BY <1>2, <1>7, <1>8
<1>10. /\ job' \in [Workers -> J \cup {None}]
       /\ \A v \in Workers : job'[v] # None =>
            (\A q \in job'[v].todo : Known(q)) /\ (job'[v].at # None => Known(job'[v].at))
  BY <1>1, <1>2, <1>4, <1>5, DoneKeeps
<1> QED BY <1>2, <1>3, <1>4, <1>6, <1>8, <1>9, <1>10, WorkKeeps

\* ReplaceKVRuleSet numbers a rule for the first time (processor.go:535-539).
LEMMA NumberKeeps ==
  ASSUME IndInv, NEW r \in Rules, Number(r)
  PROVE  IndInv'
<1>1. kvMode /\ kvMode' = kvMode /\ Loaded = {} /\ Loaded' = {}
  BY DEF IndInv, IndexesDistinct, Number, Loaded
<1>2. /\ index[r] = 0 /\ index \in [Rules -> Nat] /\ kvRuleSeq \in Nat
      /\ index' = [index EXCEPT ![r] = kvRuleSeq + 1] /\ kvRuleSeq' = kvRuleSeq + 1
  BY DEF IndInv, TypeOK, Number
<1>3. UNCHANGED <<kvMode, kvRuleSet, incoming, replaces, jobs, job, open, owners, seen, fired>>
  BY DEF Number
<1>4. index'[r] = kvRuleSeq + 1 /\ \A q \in Rules : q # r => index'[q] = index[q] BY <1>2
<1>5. \A q \in Rules : Known(q) => q # r /\ Known(q)' /\ index'[q] = index[q]
  BY <1>1, <1>2, <1>4 DEF Known
<1>6. \A q \in Rules : index[q] <= kvRuleSeq /\ index[q] \in Nat
  BY <1>1, <1>2 DEF IndInv, IndexesDistinct
<1>7. TypeOK'
  <2>1. ThrottleKeys' = ThrottleKeys BY DEF ThrottleKeys
  <2>2. index' \in [Rules -> Nat] /\ kvRuleSeq' \in Nat BY <1>2
  <2> QED BY <1>3, <2>1, <2>2 DEF IndInv, TypeOK
<1>8. IndexesDistinct'
  <2>1. \A q \in Rules : index'[q] <= kvRuleSeq' BY <1>2, <1>4, <1>6
  <2>2. ASSUME NEW p \in Rules, NEW q \in Rules, Known(p)', Known(q)', index'[p] = index'[q]
        PROVE  p = q
    <3>1. CASE p = r \/ q = r BY <1>2, <1>4, <1>6, <2>2, <3>1
    <3>2. CASE p # r /\ q # r
      <4>1. index[p] = index[q] BY <1>4, <2>2, <3>2
      <4>2. Known(p) /\ Known(q) BY <1>1, <1>4, <2>2, <3>2 DEF Known
      <4> QED BY <4>1, <4>2 DEF IndInv, IndexesDistinct
    <3> QED BY <3>1, <3>2
  <2> QED BY <1>1, <1>3, <2>1, <2>2 DEF IndexesDistinct
<1>9. VisibleKnown'
  <2>1. Stored' = Stored /\ Stored \subseteq Rules BY <1>3, InForce DEF Stored
  <2>2. \A q \in (Stored \cup jobs)' : Known(q)'
    BY <1>3, <1>5, <2>1 DEF IndInv, TypeOK, VisibleKnown
  <2>3. ASSUME NEW v \in Workers, job'[v] # None
        PROVE  (\A q \in job'[v].todo : Known(q)') /\ (job'[v].at # None => Known(job[v].at)')
    <3>1. job'[v] = job[v] BY <1>3
    <3>2. job[v] \in [input : Inputs, todo : SUBSET Rules, at : Rules \cup {None}]
      BY <2>3, <3>1 DEF IndInv, TypeOK
    <3>3. (\A q \in job[v].todo : Known(q)) /\ (job[v].at # None => Known(job[v].at))
      BY <2>3, <3>1 DEF IndInv, VisibleKnown
    <3> QED BY <1>5, <3>1, <3>2, <3>3
  <2> QED BY <2>2, <2>3 DEF VisibleKnown
<1>10. OwnersKnown'
  <2>1. ASSUME NEW x \in owners PROVE x[1][2] = index'[x[2]] /\ Known(x[2])'
    <3>1. x[2] \in Rules BY DEF IndInv, TypeOK
    <3> QED BY <1>5, <2>1, <3>1 DEF IndInv, OwnersKnown
  <2> QED BY <1>3, <2>1 DEF OwnersKnown
<1> QED BY <1>7, <1>8, <1>9, <1>10 DEF IndInv

\* The watcher and the scheduler keep the invariant: a set is stored when all
\* its rules have their numbers (processor.go:557).
LEMMA WatcherKeeps ==
  ASSUME IndInv, Replace \/ Store \/ RebuildJobs \/ \E key \in open : WindowEnds(key)
  PROVE  IndInv'
<1>1. UNCHANGED <<kvMode, index, kvRuleSeq, job, owners, seen, fired>>
  BY DEF Replace, Store, RebuildJobs, WindowEnds
<1>2. \A q \in Rules : Known(q)' = Known(q) BY <1>1, KnownStays
<1>3. open' \subseteq open BY DEF Replace, Store, RebuildJobs, WindowEnds
<1>4. TypeOK'
  <2>1. ScheduleRules \subseteq Rules BY InForce DEF ScheduleRules, Stored
  <2>2. ThrottleKeys' = ThrottleKeys BY DEF ThrottleKeys
  <2>3. /\ kvRuleSet' = kvRuleSet \/ kvRuleSet' = incoming
        /\ jobs' = jobs \/ jobs' = ScheduleRules
        /\ replaces' = replaces \/ replaces' = replaces + 1
        /\ incoming' = incoming \/ incoming' = None \/ incoming' \in SUBSET KVRules
    BY DEF Replace, Store, RebuildJobs, WindowEnds
  <2> QED BY <1>1, <1>3, <2>1, <2>2, <2>3, KVRulesAssumption DEF IndInv, TypeOK
<1>5. IndexesDistinct'
  <2>1. incoming' # None => kvMode
    BY DEF IndInv, IndexesDistinct, Replace, Store, RebuildJobs, WindowEnds
  <2> QED BY <1>1, <1>2, <2>1 DEF IndInv, IndexesDistinct
<1>6. VisibleKnown'
  <2>1. \A q \in Stored' \cup jobs' : q \in Rules /\ Known(q)
    <3>1. CASE Store
      <4>1. incoming # None /\ kvMode /\ Stored' \subseteq incoming /\ jobs' = jobs
        BY <3>1 DEF Store, Stored, IndInv, IndexesDistinct
      <4>2. \A q \in incoming : q \in Rules /\ Known(q)
        BY <3>1, <4>1 DEF Store, Numbered, Known, IndInv, TypeOK
      <4> QED BY <4>1, <4>2 DEF IndInv, TypeOK, VisibleKnown
    <3>2. CASE RebuildJobs
      <4>1. Stored' = Stored /\ jobs' = ScheduleRules BY <3>2 DEF RebuildJobs, Stored
      <4>2. ScheduleRules \subseteq Loaded \cup Stored BY DEF ScheduleRules, Stored
      <4> QED BY <4>1, <4>2, InForce
    <3>3. CASE Replace \/ \E key \in open : WindowEnds(key)
      <4>1. Stored' = Stored /\ jobs' = jobs BY <3>3 DEF Replace, WindowEnds, Stored
      <4> QED BY <4>1, InForce DEF IndInv, TypeOK, VisibleKnown
    <3> QED BY <3>1, <3>2, <3>3
  <2>2. ASSUME NEW v \in Workers, job'[v] # None
        PROVE  (\A q \in job'[v].todo : Known(q)') /\ (job'[v].at # None => Known(job[v].at)')
    <3>1. job'[v] = job[v] BY <1>1
    <3>2. job[v] \in [input : Inputs, todo : SUBSET Rules, at : Rules \cup {None}]
      BY <2>2, <3>1 DEF IndInv, TypeOK
    <3>3. (\A q \in job[v].todo : Known(q)) /\ (job[v].at # None => Known(job[v].at))
      BY <2>2, <3>1 DEF IndInv, VisibleKnown
    <3> QED BY <1>2, <3>1, <3>2, <3>3
  <2> QED BY <1>2, <2>1, <2>2 DEF VisibleKnown
<1>7. OwnersKnown'
  <2>1. ASSUME NEW x \in owners PROVE x[1][2] = index'[x[2]] /\ Known(x[2])'
    <3>1. x[2] \in Rules BY DEF IndInv, TypeOK
    <3> QED BY <1>1, <1>2, <2>1, <3>1 DEF IndInv, OwnersKnown
  <2> QED BY <1>1, <2>1 DEF OwnersKnown
<1> QED BY <1>4, <1>5, <1>6, <1>7 DEF IndInv

-----------------------------------------------------------------------------
\* Spec => []IndInv: the numbering is sound for any rules, inputs and workers,
\* however updates and evaluations interleave.
THEOREM Inductive == Spec => []IndInv
<1>1. IndInv /\ [Next]_vars => IndInv'
  <2> SUFFICES ASSUME IndInv, [Next]_vars PROVE IndInv' OBVIOUS
  <2>1. CASE Replace \/ Store \/ RebuildJobs \/ \E key \in open : WindowEnds(key)
    BY <2>1, WatcherKeeps
  <2>2. CASE \E r \in Rules : Number(r) BY <2>2, NumberKeeps
  <2>3. ASSUME NEW w \in Workers, NEW i \in Inputs,
               ProcessNATS(w, i) \/ ProcessHTTP(w, i) \/ ProcessSchedule(w, i)
        PROVE  IndInv'
    <3>1. PICK via, found : Take(w, i, via, found) /\ (found \subseteq Loaded \cup Stored \/ found \subseteq jobs)
      <4>1. CASE ProcessNATS(w, i) BY <4>1, FoundInForce DEF ProcessNATS
      <4>2. CASE ProcessHTTP(w, i) BY <4>2, FoundInForce DEF ProcessHTTP
      <4>3. CASE ProcessSchedule(w, i)
        <5>1. PICK r \in jobs : Take(w, i, <<FALSE, <<>>>>, {r}) BY <4>3 DEF ProcessSchedule
        <5>2. {r} \subseteq jobs OBVIOUS
        <5> QED BY <5>1, <5>2
      <4> QED BY <2>3, <4>1, <4>2, <4>3
    <3>2. found \subseteq Rules /\ \A r \in found : Known(r)
      BY <3>1, InForce DEF IndInv, TypeOK, VisibleKnown
    <3> QED BY <3>1, <3>2, TakeKeeps
  <2>4. CASE \E w \in Workers : \E r \in Rules : TriggerThrottle(w, r) BY <2>4, TriggerThrottleKeeps
  <2>5. CASE \E w \in Workers : Unmatched(w) \/ Matched(w) BY <2>5, ConditionsKeep
  <2>6. CASE UNCHANGED vars
    BY <2>6 DEF vars, IndInv, TypeOK, ThrottleKeys, IndexesDistinct, VisibleKnown, OwnersKnown,
                Known, Stored, Loaded
  <2> QED BY <2>1, <2>2, <2>3, <2>4, <2>5, <2>6 DEF Next
<1> QED BY <1>1, InitIndInv, PTL DEF Spec

\* No throttle key is ever used by two rules (processor.go:525-533).
THEOREM KeyOwnedAlways == Spec => []KeyOwned
<1>1. IndInv => KeyOwned
  <2> SUFFICES ASSUME IndInv, NEW x \in owners, NEW y \in owners, x[1] = y[1]
               PROVE  x[2] = y[2]
    BY DEF KeyOwned
  <2>1. x[2] \in Rules /\ y[2] \in Rules BY DEF IndInv, TypeOK
  <2>2. Known(x[2]) /\ Known(y[2]) /\ index[x[2]] = index[y[2]] BY DEF IndInv, OwnersKnown
  <2> QED BY <2>1, <2>2 DEF IndInv, IndexesDistinct
<1> QED BY <1>1, Inductive, PTL

\* A rule that has its number keeps it, so workers never see an index change
\* (processor.go:530).
THEOREM IndexStableAlways == Spec => IndexStable
<1>1. IndInv /\ [Next]_vars => [\A r \in Rules : index[r] # 0 => index'[r] = index[r]]_vars
  <2> SUFFICES ASSUME IndInv, Next PROVE \A r \in Rules : index[r] # 0 => index'[r] = index[r]
    OBVIOUS
  <2>1. \/ index' = index
        \/ \E q \in Rules : index[q] = 0 /\ index' = [index EXCEPT ![q] = kvRuleSeq']
    <3>1. CASE \E r \in Rules : Number(r) BY <3>1 DEF Number
    <3>2. CASE Replace \/ Store \/ RebuildJobs \/ \E key \in open : WindowEnds(key)
      BY <3>2 DEF Replace, Store, RebuildJobs, WindowEnds
    <3>3. ASSUME NEW w \in Workers, NEW i \in Inputs,
                 ProcessNATS(w, i) \/ ProcessHTTP(w, i) \/ ProcessSchedule(w, i)
          PROVE  index' = index
      BY <3>3 DEF ProcessNATS, ProcessHTTP, ProcessSchedule, Take
    <3>4. ASSUME NEW w \in Workers, NEW r \in Rules,
                 TriggerThrottle(w, r)
          PROVE  index' = index
      BY <3>4 DEF TriggerThrottle
    <3>5. ASSUME NEW w \in Workers, Unmatched(w) \/ Matched(w) PROVE index' = index
      BY <3>5 DEF Unmatched, Matched
    <3> QED BY <3>1, <3>2, <3>3, <3>4, <3>5 DEF Next
  <2> QED BY <2>1 DEF IndInv, TypeOK
<1> QED BY <1>1, Inductive, PTL DEF Spec, IndexStable

-----------------------------------------------------------------------------
\* The least number principle, by which the proofs below induct.
LEMMA LeastNatural ==
  ASSUME NEW T \in SUBSET Nat, T # {}
  PROVE  \E m \in T : \A k \in T : m <= k
<1>1. \E R : IsWellFoundedOn(R, Nat) /\ \A x, y \in Nat : <<x, y>> \in R <=> x < y
  <2>1. \A x, y \in Nat : <<x, y>> \in OpToRel(<, Nat) <=> x < y
    BY DEF OpToRel
  <2> QED
    BY <2>1, NatLessThanWellFounded, Zenon
<1>2. PICK R : IsWellFoundedOn(R, Nat) /\ \A x, y \in Nat : <<x, y>> \in R <=> x < y
  BY <1>1
<1>3. PICK x \in T : \A y \in T : ~ (<<y, x>> \in R)
  <2>1. IsWellFoundedOn(R, Nat) /\ T \subseteq Nat /\ T # {}
    BY <1>2
  <2> QED
    BY ONLY <2>1, WFMin
<1>4. \A y \in T : ~ (y < x) /\ y \in Nat /\ x \in Nat
  BY <1>2, <1>3
<1> QED
  BY <1>3, <1>4

\* Token j of the subject is what token j of the pattern asks for.
Fits(p, t, j) == j <= Len(t) /\ ((p[j] = Single /\ t[j] # "") \/ p[j] = t[j])

\* What matchRecursive computes from token i on, without the recursion.
Matches(p, t, i) ==
  IF i <= Len(p) /\ p[Len(p)] = Greedy
  THEN \A j \in i .. (Len(p) - 1) : Fits(p, t, j)
  ELSE Len(t) < Len(p) + 1 /\ \A j \in i .. Len(p) : Fits(p, t, j)

\* One call of matchRecursive, for a pattern that ValidatePattern accepts
\* (pattern.go).
LEMMA MatchesStep ==
  ASSUME NEW p \in Seq(STRING), NEW t \in Seq(STRING), ValidTokens(p), NEW i \in 1 .. Len(p) + 1
  PROVE  /\ i > Len(p) => (Matches(p, t, i) <=> i > Len(t))
         /\ i <= Len(p) /\ p[i] = Greedy => Matches(p, t, i) /\ i = Len(p)
         /\ i <= Len(p) /\ p[i] # Greedy => (Matches(p, t, i) <=> Fits(p, t, i) /\ Matches(p, t, i + 1))
<1> DEFINE n == Len(p)
           last == IF i <= n /\ p[n] = Greedy THEN n - 1 ELSE n
<1>1. n \in Nat /\ Len(t) \in Nat /\ DOMAIN p = 1 .. n /\ i \in Nat /\ i >= 1 /\ i <= n + 1
  OBVIOUS
<1>2. ASSUME i > n PROVE Matches(p, t, i) <=> i > Len(t)
  <2>1. i = n + 1 /\ i .. n = {} /\ ~(i <= n)
    BY <1>1, <1>2
  <2> QED
    BY <1>1, <2>1 DEF Matches
<1>3. ASSUME i <= n, p[i] = Greedy PROVE Matches(p, t, i) /\ i = n
  <2>0. i \in DOMAIN p
    BY <1>1, <1>3
  <2>1. i = n
    BY <1>3, <2>0, Zenon DEF ValidTokens
  <2>2. i .. (n - 1) = {}
    BY <1>1, <2>1
  <2> QED
    BY <1>3, <2>1, <2>2 DEF Matches
<1>4. ASSUME i <= n, p[i] # Greedy PROVE Matches(p, t, i) <=> Fits(p, t, i) /\ Matches(p, t, i + 1)
  <2>1. CASE p[n] = Greedy
    <3>1. i < n /\ i + 1 <= n /\ i .. (n - 1) = {i} \cup ((i + 1) .. (n - 1))
      BY <1>1, <1>4, <2>1
    <3> QED
      BY <1>4, <2>1, <3>1 DEF Matches
  <2>2. CASE p[n] # Greedy
    <3>1. i .. n = {i} \cup ((i + 1) .. n)
      BY <1>1, <1>4
    <3> QED
      BY <2>2, <3>1 DEF Matches
  <2> QED
    BY <2>1, <2>2
<1> QED
  BY <1>2, <1>3, <1>4

\* matchRecursive returns what Matches says: by induction on the tokens that
\* remain, as the least counterexample.
LEMMA MatchFromIs ==
  ASSUME NEW p \in Seq(STRING), NEW t \in Seq(STRING), ValidTokens(p)
  PROVE  matchFrom(p, t) <=> Matches(p, t, 1)
<1> DEFINE n == Len(p)
           D == 1 .. (n + 1)
           Body(f, i) == IF i > Len(p) THEN i > Len(t)
                         ELSE IF i > Len(t) THEN i = Len(p) /\ p[i] = Greedy
                         ELSE \/ p[i] = Greedy
                              \/ p[i] = Single /\ t[i] # "" /\ f[i + 1]
                              \/ p[i] = t[i] /\ f[i + 1]
           M == [i \in D |-> Matches(p, t, i)]
           match == CHOOSE f : f = [i \in D |-> Body(f, i)]
<1>1. n \in Nat /\ Len(t) \in Nat
  OBVIOUS
<1>2. \A i \in D : i \in Nat /\ (i <= n => i + 1 \in D)
  BY <1>1
<1>3. ASSUME NEW f, NEW i \in D, i <= n => (f[i + 1] <=> Matches(p, t, i + 1))
      PROVE  Body(f, i) <=> Matches(p, t, i)
  <2>1. CASE i > n
    BY <1>1, <2>1, MatchesStep
  <2>2. CASE i <= n /\ p[i] = Greedy
    <3>1. Matches(p, t, i) /\ i = n /\ ~(i > n)
      BY <1>1, <1>2, <2>2, MatchesStep
    <3> QED
      BY <2>2, <3>1
  <2>3. CASE i <= n /\ p[i] # Greedy
    <3>1. Matches(p, t, i) <=> Fits(p, t, i) /\ Matches(p, t, i + 1)
      BY <2>3, MatchesStep
    <3>2. ~(i > n) /\ (i > Len(t) <=> ~(i <= Len(t)))
      BY <1>1, <1>2, <2>3
    <3> QED
      BY <1>3, <2>3, <3>1, <3>2 DEF Fits
  <2>4. i > n \/ i <= n
    BY <1>1, <1>2
  <2> HIDE DEF Body, D, n
  <2> QED
    BY <2>1, <2>2, <2>3, <2>4, Zenon
<1>4. M = [i \in D |-> Body(M, i)]
  <2>1. \A i \in D : M[i] = Matches(p, t, i)
    OBVIOUS
  <2>2. ASSUME NEW i \in D PROVE Body(M, i) <=> Matches(p, t, i)
    <3>1. i <= n => (M[i + 1] <=> Matches(p, t, i + 1))
      BY <1>2, <2>1
    <3> HIDE DEF M, D, Body
    <3> QED
      BY <1>3, <3>1
  <2>3. ASSUME NEW i \in D PROVE Body(M, i) \in BOOLEAN /\ Matches(p, t, i) \in BOOLEAN
    <3>1. Matches(p, t, i) \in BOOLEAN
      BY Zenon DEF Matches
    <3> HIDE DEF M
    <3>2. Body(M, i) \in BOOLEAN
      <4> DEFINE some == \/ p[i] = Greedy
                         \/ p[i] = Single /\ t[i] # "" /\ M[i + 1]
                         \/ p[i] = t[i] /\ M[i + 1]
                 end == i > Len(t)
                 greedy == i = Len(p) /\ p[i] = Greedy
      <4>0. end \in BOOLEAN
        OBVIOUS
      <4>1. some \in BOOLEAN /\ greedy \in BOOLEAN
        BY Zenon
      <4>2. Body(M, i) = IF i > Len(p) THEN end ELSE IF end THEN greedy ELSE some
        BY Zenon
      <4> HIDE DEF some, end, greedy, Body
      <4> QED
        BY <4>0, <4>1, <4>2
    <3> QED
      BY <3>1, <3>2
  <2> HIDE DEF D, Body
  <2>4. \A i \in D : Matches(p, t, i) = Body(M, i)
    BY <2>2, <2>3
  <2> QED
    BY <2>4
<1>5. match = [i \in D |-> Body(match, i)]
  <2> HIDE DEF D, M, Body
  <2> QED
    BY <1>4
<1>6. matchFrom(p, t) = match[1]
  BY DEF matchFrom
<1> HIDE DEF match, M, Body
<1>7. \A i \in D : match[i] = Body(match, i)
  BY <1>5
<1>8. \A i \in D : match[i] <=> Matches(p, t, i)
  <2> DEFINE Bad == {k \in 0 .. n : ~(match[n + 1 - k] <=> Matches(p, t, n + 1 - k))}
  <2>1. ASSUME Bad # {} PROVE FALSE
    <3>1. Bad \in SUBSET Nat
      BY <1>1
    <3>2. PICK k \in Bad : \A l \in Bad : k <= l
      BY <2>1, <3>1, LeastNatural
    <3> DEFINE i == n + 1 - k
    <3>3. k \in 0 .. n /\ i \in D /\ ~(match[i] <=> Matches(p, t, i))
      BY <1>1, <3>2
    <3>4. ASSUME i <= n PROVE match[i + 1] <=> Matches(p, t, i + 1)
      <4>1. k - 1 \in 0 .. n /\ ~(k <= k - 1) /\ n + 1 - (k - 1) = i + 1
        BY <1>1, <3>3, <3>4
      <4>2. k - 1 \notin Bad
        BY <3>2, <4>1
      <4> QED
        BY <4>1, <4>2
    <3> HIDE DEF i, D
    <3>5. Body(match, i) <=> Matches(p, t, i)
      BY <1>3, <3>3, <3>4
    <3> QED
      BY <1>7, <3>3, <3>5
  <2>2. ASSUME NEW i \in D PROVE match[i] <=> Matches(p, t, i)
    <3>1. n + 1 - i \in 0 .. n /\ n + 1 - (n + 1 - i) = i
      BY <1>1
    <3>2. n + 1 - i \notin Bad
      BY <2>1
    <3> QED
      BY <3>1, <3>2
  <2> QED
    BY <2>2
<1>9. 1 \in D
  BY <1>1
<1> QED
  BY <1>6, <1>8, <1>9

\* What the server delivers to a subscription, the rule's own pattern matches:
\* the index and the matcher miss nothing that comes (index.go:148-190,
\* pattern.go).
LEMMA DeliveredMatches ==
  ASSUME NEW p \in Seq(STRING), NEW t \in Seq(STRING), ValidTokens(p), ServerDelivers(p, t),
         NoEmptyToken(t)
  PROVE  MatchTokens(p, t)
<1> DEFINE n == Len(p)
           m == Len(t)
<1>a. n \in Nat /\ m \in Nat /\ DOMAIN p = 1 .. n /\ DOMAIN t = 1 .. m
  OBVIOUS
<1>b. /\ n > 0
      /\ IF p[n] = Greedy THEN m >= n ELSE m = n
      /\ \A j \in 1 .. n : p[j] \in {Single, Greedy} \/ p[j] = t[j]
  BY Zenon DEF ServerDelivers
<1>2. \A j \in 1 .. n : p[j] = Greedy => j = n
  BY <1>a DEF ValidTokens
<1> HIDE DEF n, m
<1>1. m >= n /\ (p[n] # Greedy => m = n)
  BY <1>a, <1>b
<1>c. \A j \in 1 .. n : j \in 1 .. m /\ j <= m
  BY <1>a, <1>1
<1>3. ASSUME NEW j \in 1 .. n, p[j] # Greedy PROVE Fits(p, t, j)
  BY <1>a, <1>b, <1>c, <1>3 DEF Fits, NoEmptyToken, m
<1>4. CASE ~Wild(p)
  <2>1. \A j \in 1 .. n : p[j] \notin {Single, Greedy}
    BY <1>a, <1>4 DEF Wild
  <2>2. n \in 1 .. n
    BY <1>a, <1>b
  <2>3. m = n /\ \A j \in 1 .. n : p[j] = t[j]
    BY <1>1, <1>b, <2>1, <2>2
  <2>4. p = t
    BY <2>3 DEF n, m
  <2> QED
    BY <1>4, <2>4 DEF MatchTokens
<1>5. CASE Wild(p)
  <2>1. t # <<>>
    <3>1. t = <<>> => m = 0
      BY DEF m
    <3> QED
      BY <1>1, <1>a, <1>b, <3>1
  <2>2. LengthFits(p, t)
    <3>1. CASE \E j \in DOMAIN p : p[j] = Greedy
      <4>1. m >= n - 1
        BY <1>1, <1>a
      <4> QED
        BY <3>1, <4>1 DEF LengthFits, n, m
    <3>2. CASE ~\E j \in DOMAIN p : p[j] = Greedy
      <4>1. n \in DOMAIN p
        BY <1>a, <1>b
      <4>2. m = n
        BY <1>1, <3>2, <4>1
      <4> QED
        BY <3>2, <4>2 DEF LengthFits, n, m
    <3> QED
      BY <3>1, <3>2
  <2>3. Matches(p, t, 1)
    <3>1. CASE p[n] = Greedy
      <4>1. 1 <= n /\ \A j \in 1 .. (n - 1) : j \in 1 .. n /\ j # n
        BY <1>a, <1>b
      <4>2. \A j \in 1 .. (n - 1) : Fits(p, t, j)
        BY <1>2, <1>3, <4>1
      <4> QED
        BY <3>1, <4>1, <4>2 DEF Matches, n
    <3>2. CASE p[n] # Greedy
      <4>1. \A j \in 1 .. n : Fits(p, t, j)
        BY <1>2, <1>3, <3>2
      <4>2. m < n + 1
        BY <1>1, <1>a, <3>2
      <4> QED
        BY <3>2, <4>1, <4>2 DEF Matches, n, m
    <3> QED
      BY <3>1, <3>2
  <2>4. matchFrom(p, t)
    BY <2>3, MatchFromIs
  <2> QED
    BY <1>5, <2>1, <2>2, <2>4 DEF MatchTokens
<1> QED
  BY <1>4, <1>5

-----------------------------------------------------------------------------
\* The deliveries of an input that may hand it to a rule: those of the rule's
\* own transport and, with KV rules, of its own subscription.
May(via, i, r) ==
  IF In[i].kind = "nats"
  THEN /\ via = <<Def[r].core, via[2]>>
       /\ via[2] \in Subscriptions(Def[r].core)
       /\ ServerDelivers(via[2], In[i].at)
       /\ kvMode => via[2] = Def[r].at
  ELSE via = <<FALSE, <<>>>>
Deliveries(i, r) == {d \in handled : d[2] = i /\ May(d[1], i, r)}
Working(i, r) == {w \in Workers : job[w] # None /\ job[w].input = i /\ r \in job[w].todo}

\* Each firing, past or still possible, has a delivery of its own.
Spent(i, r) ==
  /\ IsFiniteSet(Working(i, r)) /\ IsFiniteSet(Deliveries(i, r))
  /\ fired[<<i, r>>] + Cardinality(Working(i, r)) <= Cardinality(Deliveries(i, r))
Affordable == \A i \in Inputs, r \in Rules : Spent(i, r)
AtTodo == \A w \in Workers : job[w] # None /\ job[w].at # None => job[w].at \in job[w].todo
FileMode == ~kvMode => kvRuleSet = None
Pairs == \A d \in handled : d = <<d[1], d[2]>>
Accounts == Affordable /\ AtTodo /\ FileMode /\ Pairs /\ OwnDeliverySees

\* Nothing has been delivered and nothing fired at first.
LEMMA InitAccounts == Init => Accounts
<1> SUFFICES ASSUME Init PROVE Accounts OBVIOUS
<1>1. ASSUME NEW i \in Inputs, NEW r \in Rules PROVE Spent(i, r)
  <2>1. Working(i, r) = {} BY DEF Init, Working
  <2>2. Deliveries(i, r) = {} BY DEF Init, Deliveries
  <2>3. fired[<<i, r>>] = 0 BY DEF Init
  <2> QED BY <2>1, <2>2, <2>3, FS_EmptySet DEF Spent
<1> QED BY <1>1 DEF Init, Accounts, Affordable, AtTodo, FileMode, Pairs, OwnDeliverySees

\* Which deliveries count does not change: they hang on the mode alone.
LEMMA MayStays ==
  ASSUME kvMode' = kvMode
  PROVE  /\ Loaded' = Loaded
         /\ \A via, i, r : May(via, i, r)' <=> May(via, i, r)
BY DEF May, Subscriptions, NATSRules, Loaded

\* A worker that takes an input spends the delivery it came by.
LEMMA TakeSpends ==
  ASSUME IndInv, Accounts, NEW w \in Workers, NEW i \in Inputs, NEW via, NEW found,
         found \subseteq Rules, \A r \in found : May(via, i, r), Take(w, i, via, found)
  PROVE  Affordable' /\ AtTodo'
<1> DEFINE todo == IF i \in Malformed THEN {} ELSE found
           new == IF todo = {} THEN None ELSE [input |-> i, todo |-> todo, at |-> None]
<1>1. /\ job[w] = None /\ <<via, i>> \notin handled /\ handled' = handled \cup {<<via, i>>}
      /\ job' = [job EXCEPT ![w] = new]
      /\ UNCHANGED <<kvMode, fired>>
  BY DEF Take
<1>2. todo \subseteq found /\ (new # None => new.input = i /\ new.todo = todo /\ new.at = None)
  OBVIOUS
<1> HIDE DEF todo, new
<1>3. job \in [Workers -> [input : Inputs, todo : SUBSET Rules, at : Rules \cup {None}] \cup {None}]
  BY DEF IndInv, TypeOK
<1>4. job'[w] = new /\ \A v \in Workers : v # w => job'[v] = job[v] BY <1>1, <1>3
<1>5. AtTodo' BY <1>2, <1>4 DEF Accounts, AtTodo
<1>6. ASSUME NEW j \in Inputs, NEW r \in Rules PROVE Spent(j, r)'
  <2>1. /\ IsFiniteSet(Working(j, r)) /\ IsFiniteSet(Deliveries(j, r))
        /\ fired[<<j, r>>] + Cardinality(Working(j, r)) <= Cardinality(Deliveries(j, r))
    BY DEF Accounts, Affordable, Spent
  <2>2. w \notin Working(j, r) /\ <<via, i>> \notin Deliveries(j, r)
    BY <1>1 DEF Working, Deliveries
  <2>3. fired[<<j, r>>] \in Nat /\ fired'[<<j, r>>] = fired[<<j, r>>] BY <1>1 DEF IndInv, TypeOK
  <2>4. \A d \in handled : d \in Deliveries(j, r)' <=> d \in Deliveries(j, r)
    BY <1>1, MayStays DEF Deliveries
  <2>5. /\ Cardinality(Working(j, r)) \in Nat /\ Cardinality(Deliveries(j, r)) \in Nat
        /\ IsFiniteSet(Working(j, r) \cup {w}) /\ IsFiniteSet(Deliveries(j, r) \cup {<<via, i>>})
        /\ Cardinality(Working(j, r) \cup {w}) = Cardinality(Working(j, r)) + 1
        /\ Cardinality(Deliveries(j, r) \cup {<<via, i>>}) = Cardinality(Deliveries(j, r)) + 1
    BY <2>1, <2>2, FS_CardinalityType, FS_AddElement
  <2>6. CASE j = i /\ r \in todo
    <3>1. Working(j, r)' \in SUBSET (Working(j, r) \cup {w})
      BY <1>4 DEF Working
    <3>4. IsFiniteSet(Working(j, r)') /\ Cardinality(Working(j, r)') <= Cardinality(Working(j, r)) + 1
          /\ Cardinality(Working(j, r)') \in Nat
      BY <2>5, <3>1, FS_Subset, FS_CardinalityType
    <3>2. May(via, i, r)
      BY <1>2, <2>6
    <3>3. Deliveries(j, r)' = Deliveries(j, r) \cup {<<via, i>>}
      BY <1>1, <2>4, <2>6, <3>2, MayStays DEF Deliveries
    <3> QED BY <2>1, <2>3, <2>5, <3>3, <3>4 DEF Spent
  <2>7. CASE ~(j = i /\ r \in todo)
    <3>1. Working(j, r)' = Working(j, r)
      BY <1>1, <1>2, <1>4, <2>7 DEF Working
    <3>2. Deliveries(j, r)' = Deliveries(j, r) \/ Deliveries(j, r)' = Deliveries(j, r) \cup {<<via, i>>}
      BY <1>1, <2>4 DEF Deliveries
    <3> QED BY <2>1, <2>3, <2>5, <3>1, <3>2 DEF Spent
  <2> QED BY <2>6, <2>7
<1> QED BY <1>5, <1>6 DEF Affordable

\* A worker that is done with a rule has spent its delivery on it.
LEMMA DoneSpends ==
  ASSUME IndInv, Accounts, NEW w \in Workers, NEW r \in Rules, job[w] # None, r \in job[w].todo, Done(w, r),
         handled' = handled, kvMode' = kvMode,
         fired' = fired \/ fired' = [fired EXCEPT ![<<job[w].input, r>>] = @ + 1]
  PROVE  Affordable' /\ AtTodo'
<1> DEFINE i == job[w].input
           rest == job[w].todo \ {r}
           left == IF rest = {} THEN None ELSE [job[w] EXCEPT !.todo = rest, !.at = None]
<1>1. job \in [Workers -> [input : Inputs, todo : SUBSET Rules, at : Rules \cup {None}] \cup {None}]
  BY DEF IndInv, TypeOK
<1>2. job[w] \in [input : Inputs, todo : SUBSET Rules, at : Rules \cup {None}] BY <1>1
<1>3. job' = [job EXCEPT ![w] = left] BY <1>1 DEF Done
<1>4. left # None => left.input = i /\ left.todo = rest /\ left.at = None BY <1>2
<1>5. fired' = fired \/ fired' = [fired EXCEPT ![<<i, r>>] = @ + 1] OBVIOUS
<1>6. i \in Inputs /\ r \notin rest /\ rest \subseteq job[w].todo BY <1>2
<1>7. i = job[w].input OBVIOUS
<1> HIDE DEF i, rest, left
<1>8. job'[w] = left /\ \A v \in Workers : v # w => job'[v] = job[v] BY <1>1, <1>3
<1>9. AtTodo' BY <1>4, <1>8 DEF Accounts, AtTodo
<1>10. ASSUME NEW j \in Inputs, NEW q \in Rules PROVE Spent(j, q)'
  <2>1. /\ IsFiniteSet(Working(j, q)) /\ IsFiniteSet(Deliveries(j, q))
        /\ fired[<<j, q>>] + Cardinality(Working(j, q)) <= Cardinality(Deliveries(j, q))
    BY DEF Accounts, Affordable, Spent
  <2>2. Deliveries(j, q)' = Deliveries(j, q) BY MayStays DEF Deliveries
  <2>3. /\ Cardinality(Working(j, q)) \in Nat /\ Cardinality(Deliveries(j, q)) \in Nat
        /\ fired[<<j, q>>] \in Nat
    BY <2>1, FS_CardinalityType DEF IndInv, TypeOK
  <2>4. Working(j, q)' \in SUBSET Working(j, q)
    BY <1>4, <1>6, <1>7, <1>8 DEF Working
  <2>5. /\ IsFiniteSet(Working(j, q)') /\ Cardinality(Working(j, q)') \in Nat
        /\ Cardinality(Working(j, q)') <= Cardinality(Working(j, q))
    BY <2>1, <2>4, FS_Subset, FS_CardinalityType
  <2>6. CASE j = i /\ q = r
    <3>1. w \in Working(j, q) BY <1>7, <2>6 DEF Working
    <3>2. Working(j, q)' \in SUBSET (Working(j, q) \ {w})
      BY <1>4, <1>6, <1>8, <2>4, <2>6 DEF Working
    <3>3. /\ IsFiniteSet(Working(j, q) \ {w})
          /\ Cardinality(Working(j, q) \ {w}) = Cardinality(Working(j, q)) - 1
      BY <2>1, <3>1, FS_RemoveElement
    <3>4. Cardinality(Working(j, q)') <= Cardinality(Working(j, q)) - 1
      BY <3>2, <3>3, FS_Subset
    <3>5. fired'[<<j, q>>] = fired[<<j, q>>] \/ fired'[<<j, q>>] = fired[<<j, q>>] + 1
      BY <1>5, <2>6 DEF IndInv, TypeOK
    <3> QED BY <2>1, <2>2, <2>3, <2>5, <3>4, <3>5 DEF Spent
  <2>7. CASE ~(j = i /\ q = r)
    <3>1. fired'[<<j, q>>] = fired[<<j, q>>]
      BY <1>5, <2>7 DEF IndInv, TypeOK
    <3> QED BY <2>1, <2>2, <2>3, <2>5, <3>1 DEF Spent
  <2> QED BY <2>6, <2>7
<1> QED BY <1>9, <1>10 DEF Affordable

\* A step that leaves the jobs' inputs and rules alone spends nothing.
LEMMA NothingSpent ==
  ASSUME IndInv, Accounts, UNCHANGED <<kvMode, handled, fired>>,
         \A w \in Workers : /\ job'[w] # None => job[w] # None /\ job'[w].input = job[w].input
                                                 /\ job'[w].todo = job[w].todo
                            /\ job'[w] # None /\ job'[w].at # None => job'[w].at \in job'[w].todo
  PROVE  Affordable' /\ AtTodo'
<1>1. ASSUME NEW j \in Inputs, NEW q \in Rules PROVE Spent(j, q)'
  <2>1. /\ IsFiniteSet(Working(j, q)) /\ IsFiniteSet(Deliveries(j, q))
        /\ fired[<<j, q>>] + Cardinality(Working(j, q)) <= Cardinality(Deliveries(j, q))
    BY DEF Accounts, Affordable, Spent
  <2>2. Deliveries(j, q)' = Deliveries(j, q) BY MayStays DEF Deliveries
  <2>3. /\ Cardinality(Working(j, q)) \in Nat /\ Cardinality(Deliveries(j, q)) \in Nat
        /\ fired[<<j, q>>] \in Nat
    BY <2>1, FS_CardinalityType DEF IndInv, TypeOK
  <2>4. Working(j, q)' \in SUBSET Working(j, q) BY DEF Working
  <2>5. /\ IsFiniteSet(Working(j, q)') /\ Cardinality(Working(j, q)') \in Nat
        /\ Cardinality(Working(j, q)') <= Cardinality(Working(j, q))
    BY <2>1, <2>4, FS_Subset, FS_CardinalityType
  <2> QED BY <2>1, <2>2, <2>3, <2>5 DEF Spent
<1> QED BY <1>1 DEF Affordable, AtTodo

\* A delivery hands the input to every rule of the files whose subject it
\* came by.
LEMMA NATSSees ==
  ASSUME IndInv, Accounts, ~kvMode, NEW i \in Inputs, In[i].kind = "nats",
         NEW core \in BOOLEAN, NEW s, ServerDelivers(s, In[i].at),
         NEW r \in OwnRules(NATSRules(Loaded), core), Def[r].at = s
  PROVE  r \in RulesFor(core, s, In[i].at)
<1>1. Stored = {} BY DEF Accounts, FileMode, Stored
<1>2. r \in Loaded /\ Def[r].kind = "nats" /\ Def[r].core = core /\ r \in Rules
  BY InForce DEF OwnRules, NATSRules
<1>3. Def[r].at \in Seq(STRING) /\ ValidTokens(Def[r].at) BY <1>2, DefAssumption
<1>4. In[i].at \in Seq(STRING) /\ NoEmptyToken(In[i].at) BY InAssumption
<1>5. MatchTokens(Def[r].at, In[i].at) BY <1>3, <1>4, DeliveredMatches
<1> QED BY <1>1, <1>2, <1>5 DEF RulesFor, FindAllMatching, NATSRules, OwnRules

\* A worker's new input keeps the accounts.
LEMMA ProcessAccounts ==
  ASSUME IndInv, Accounts, NEW w \in Workers, NEW i \in Inputs,
         ProcessNATS(w, i) \/ ProcessHTTP(w, i) \/ ProcessSchedule(w, i)
  PROVE  Accounts'
<1>1. PICK via, found :
        /\ Take(w, i, via, found) /\ found \subseteq Rules /\ \A r \in found : May(via, i, r)
        /\ In[i].kind = "nats" /\ ~kvMode => \A r \in OwnRules(NATSRules(Loaded), via[1]) :
                                               Def[r].at = via[2] => r \in found
  <2>1. CASE ProcessNATS(w, i)
    <3>0. PICK core \in BOOLEAN : \E s \in Subscriptions(core) :
            ServerDelivers(s, In[i].at) /\ Take(w, i, <<core, s>>, RulesFor(core, s, In[i].at))
      BY <2>1 DEF ProcessNATS
    <3>1. PICK s \in Subscriptions(core) :
            ServerDelivers(s, In[i].at) /\ Take(w, i, <<core, s>>, RulesFor(core, s, In[i].at))
      BY <3>0
    <3> DEFINE found == RulesFor(core, s, In[i].at)
               via == <<core, s>>
    <3>2. In[i].kind = "nats" BY <2>1 DEF ProcessNATS
    <3>3. found \subseteq Rules BY FoundInForce, InForce
    <3>4. ASSUME NEW r \in found PROVE May(via, i, r)
      <4>1. Def[r].core = core BY DEF RulesFor, OwnRules
      <4>2. kvMode => Def[r].at = s BY DEF RulesFor, OwnRules, FindAllMatching, NATSRules, Loaded
      <4> QED BY <3>1, <3>2, <4>1, <4>2 DEF May
    <3>5. ~kvMode => \A r \in OwnRules(NATSRules(Loaded), via[1]) : Def[r].at = via[2] => r \in found
      BY <3>1, <3>2, NATSSees
    <3> HIDE DEF found, via
    <3> QED BY <3>1, <3>3, <3>4, <3>5 DEF found, via
  <2>2. CASE ProcessHTTP(w, i)
    <3>1. findHTTPRules(In[i].at, In[i].method) \subseteq Rules BY FoundInForce, InForce
    <3> QED BY <2>2, <3>1 DEF ProcessHTTP, May
  <2>3. CASE ProcessSchedule(w, i)
    <3>1. PICK r \in jobs : Take(w, i, <<FALSE, <<>>>>, {r}) BY <2>3 DEF ProcessSchedule
    <3>2. {r} \subseteq Rules BY DEF IndInv, TypeOK
    <3> QED BY <2>3, <3>1, <3>2 DEF ProcessSchedule, May
  <2> QED BY <2>1, <2>2, <2>3
<1>2. Affordable' /\ AtTodo' BY <1>1, TakeSpends
<1>3. /\ handled' = handled \cup {<<via, i>>}
      /\ seen' = seen \cup ({i} \X (IF i \in Malformed THEN {} ELSE found))
      /\ UNCHANGED <<kvMode, kvRuleSet>>
  BY <1>1 DEF Take
<1>4. Loaded' = Loaded BY <1>3, MayStays
<1>5. OwnDeliverySees'
  <2> SUFFICES ASSUME ~kvMode, NEW d \in handled', In[d[2]].kind = "nats", d[2] \notin Malformed,
                      NEW r \in OwnRules(NATSRules(Loaded), d[1][1]), Def[r].at = d[1][2]
               PROVE  <<d[2], r>> \in seen'
    BY <1>3, <1>4 DEF OwnDeliverySees, OwnRules, NATSRules
  <2>1. CASE d \in handled BY <1>3, <2>1 DEF Accounts, OwnDeliverySees
  <2>2. CASE d = <<via, i>>
    <3>1. d[1] = via /\ d[2] = i BY <2>2
    <3>2. r \in found BY <1>1, <3>1
    <3> QED BY <1>3, <3>1, <3>2
  <2> QED BY <1>3, <2>1, <2>2
<1> QED BY <1>2, <1>3, <1>5 DEF Accounts, FileMode, Pairs

\* Every step keeps the accounts.
LEMMA NextAccounts == IndInv /\ Accounts /\ [Next]_vars => Accounts'
<1> SUFFICES ASSUME IndInv, Accounts, [Next]_vars PROVE Accounts' OBVIOUS
<1> DEFINE Goal == Accounts'
<1> SUFFICES Goal OBVIOUS
<1>a. ASSUME UNCHANGED <<kvMode, handled, seen>>, FileMode', Affordable' /\ AtTodo' PROVE Goal
  <2>1. Loaded' = Loaded BY <1>a, MayStays
  <2>2. OwnDeliverySees' BY <1>a, <2>1 DEF Accounts, OwnDeliverySees, OwnRules, NATSRules
  <2> QED BY <1>a, <2>2 DEF Accounts, Pairs
<1>b. job \in [Workers -> [input : Inputs, todo : SUBSET Rules, at : Rules \cup {None}] \cup {None}]
  BY DEF IndInv, TypeOK
<1>1. CASE Replace \/ Store \/ RebuildJobs \/ (\E key \in open : WindowEnds(key)) \/ (\E r \in Rules : Number(r))
           \/ UNCHANGED vars
  <2>1. UNCHANGED <<kvMode, handled, seen, fired, job>>
    BY <1>1 DEF Replace, Store, RebuildJobs, WindowEnds, Number, vars
  <2>2. FileMode'
    BY <1>1, <2>1 DEF Accounts, FileMode, IndInv, IndexesDistinct, Replace, Store, RebuildJobs, WindowEnds,
       Number, vars
  <2>3. Affordable' /\ AtTodo' BY <2>1, NothingSpent DEF Accounts, AtTodo
  <2> QED BY <1>a, <2>1, <2>2, <2>3
<1>2. ASSUME NEW w \in Workers, NEW i \in Inputs,
             ProcessNATS(w, i) \/ ProcessHTTP(w, i) \/ ProcessSchedule(w, i)
      PROVE  Goal
  BY <1>2, ProcessAccounts
<1>3. ASSUME NEW w \in Workers, NEW r \in Rules, TriggerThrottle(w, r) PROVE Goal
  <2>1. /\ job[w] # None /\ r \in job[w].todo
        /\ UNCHANGED <<kvMode, kvRuleSet, handled, seen, fired>>
        /\ Done(w, r) \/ job' = [job EXCEPT ![w].at = r]
    BY <1>3 DEF TriggerThrottle
  <2>2. CASE Done(w, r)
    <3>1. Affordable' /\ AtTodo' BY <2>1, <2>2, DoneSpends
    <3> QED BY <1>a, <2>1, <3>1 DEF Accounts, FileMode
  <2>3. CASE job' = [job EXCEPT ![w].at = r]
    <3>1. job' = [job EXCEPT ![w] = [job[w] EXCEPT !.at = r]] BY <2>3
    <3>2. job[w] \in [input : Inputs, todo : SUBSET Rules, at : Rules \cup {None}] BY <1>b, <2>1
    <3>3. job'[w].input = job[w].input /\ job'[w].todo = job[w].todo /\ job'[w].at = r BY <1>b, <3>1, <3>2
    <3>4. \A v \in Workers : v # w => job'[v] = job[v] BY <1>b, <3>1
    <3>5. Affordable' /\ AtTodo' BY <2>1, <3>3, <3>4, NothingSpent DEF Accounts, AtTodo
    <3> QED BY <1>a, <2>1, <3>5 DEF Accounts, FileMode
  <2> QED BY <2>1, <2>2, <2>3
<1>4. ASSUME NEW w \in Workers, Unmatched(w) \/ Matched(w) PROVE Goal
  <2> DEFINE r == job[w].at
  <2>1. /\ job[w] # None /\ r # None /\ Done(w, r)
        /\ UNCHANGED <<kvMode, kvRuleSet, handled, seen>>
        /\ fired' = fired \/ fired' = [fired EXCEPT ![<<job[w].input, r>>] = @ + 1]
    BY <1>4 DEF Unmatched, Matched
  <2>2. r \in job[w].todo /\ r \in Rules BY <1>b, <2>1 DEF Accounts, AtTodo
  <2> HIDE DEF r
  <2>3. Affordable' /\ AtTodo' BY <2>1, <2>2, DoneSpends
  <2> QED BY <1>a, <2>1, <2>3 DEF Accounts, FileMode
<1> QED
  <2> HIDE DEF Goal
  <2> QED BY <1>1, <1>2, <1>3, <1>4 DEF Next

\* The rules of the files are finitely many, and so are their subjects.
LEMMA FiniteSubscriptions ==
  ASSUME ~kvMode, NEW core
  PROVE  IsFiniteSet(Subscriptions(core))
<1> DEFINE n == Len(FileRules)
           own == {q \in NATSRules(Loaded) : Def[q].core = core}
           load == [k \in 1 .. n |-> FileRules[k]]
           at == [q \in own |-> Def[q].at]
<1>1. IsFiniteSet(1 .. n)
  <2>1. n \in Nat BY FileRulesAssumption
  <2> QED BY <2>1, FS_Interval
<1>2. load \in Surjection(1 .. n, Loaded) BY DEF Loaded, Surjection
<1>3. IsFiniteSet(Loaded) BY <1>1, <1>2, FS_Surjection
<1>4. own \in SUBSET Loaded BY DEF NATSRules
<1>5. IsFiniteSet(own) BY <1>3, <1>4, FS_Subset
<1>6. at \in Surjection(own, Subscriptions(core)) BY DEF Subscriptions, Surjection
<1> QED BY <1>5, <1>6, FS_Surjection

\* A rule has no more deliveries of an input than FireBound allows.
LEMMA DeliveriesBounded ==
  ASSUME IndInv, Accounts, NEW i \in Inputs, NEW r \in Rules
  PROVE  Cardinality(Deliveries(i, r)) <=
           IF kvMode \/ In[i].kind # "nats" THEN 1
           ELSE Cardinality({s \in Subscriptions(Def[r].core) : ServerDelivers(s, In[i].at)})
<1>0. IsFiniteSet(Deliveries(i, r)) BY DEF Accounts, Affordable, Spent
<1>p. \A d \in handled : d = <<d[1], d[2]>> BY DEF Accounts, Pairs
<1>1. CASE kvMode \/ In[i].kind # "nats"
  <2> DEFINE v == IF In[i].kind = "nats" THEN <<Def[r].core, Def[r].at>> ELSE <<FALSE, <<>>>>
  <2>1. Deliveries(i, r) \in SUBSET {<<v, i>>}
    BY <1>1, <1>p DEF Deliveries, May
  <2>2. IsFiniteSet({<<v, i>>}) /\ Cardinality({<<v, i>>}) = 1 BY FS_Singleton
  <2>3. Cardinality(Deliveries(i, r)) <= 1 BY <2>1, <2>2, FS_Subset
  <2> QED BY <1>1, <2>3
<1>2. CASE ~(kvMode \/ In[i].kind # "nats")
  <2> DEFINE S == {s \in Subscriptions(Def[r].core) : ServerDelivers(s, In[i].at)}
             f == [d \in Deliveries(i, r) |-> d[1][2]]
  <2>1. IsFiniteSet(Subscriptions(Def[r].core)) BY <1>2, FiniteSubscriptions
  <2>2. IsFiniteSet(S) BY <2>1, FS_Subset
  <2>3. ASSUME NEW d \in Deliveries(i, r)
        PROVE  f[d] \in S /\ d = <<<<Def[r].core, f[d]>>, i>>
    BY <1>2, <1>p DEF Deliveries, May
  <2>4. f \in Injection(Deliveries(i, r), S) BY <2>3 DEF Injection, IsInjective
  <2>5. Cardinality(Deliveries(i, r)) <= Cardinality(S) BY <2>2, <2>4, FS_Injection
  <2> QED BY <1>2, <2>5
<1> QED BY <1>1, <1>2

\* The accounts hold throughout.
THEOREM AccountsKept == Spec => [](IndInv /\ Accounts)
<1>1. Init => Accounts BY InitAccounts
<1>2. IndInv /\ Accounts /\ [Next]_vars => Accounts' BY NextAccounts
<1> QED BY <1>1, <1>2, Inductive, PTL DEF Spec

\* A message fires a rule at most once per subscription of the rule's own
\* transport that it reaches, and with KV rules at most once
\* (processor.go:583-587).
THEOREM FireBoundAlways == Spec => []FireBound
<1>1. IndInv /\ Accounts => FireBound
  <2> SUFFICES ASSUME IndInv, Accounts, NEW i \in Inputs, NEW r \in Rules
               PROVE  fired[<<i, r>>] <=
                        IF kvMode \/ In[i].kind # "nats" THEN 1
                        ELSE Cardinality({s \in Subscriptions(Def[r].core) : ServerDelivers(s, In[i].at)})
    BY DEF FireBound
  <2> DEFINE bound == IF kvMode \/ In[i].kind # "nats" THEN 1
                      ELSE Cardinality({s \in Subscriptions(Def[r].core) : ServerDelivers(s, In[i].at)})
  <2>1. Cardinality(Deliveries(i, r)) <= bound BY DeliveriesBounded
  <2>2. /\ IsFiniteSet(Working(i, r)) /\ IsFiniteSet(Deliveries(i, r))
        /\ fired[<<i, r>>] + Cardinality(Working(i, r)) <= Cardinality(Deliveries(i, r))
    BY DEF Accounts, Affordable, Spent
  <2>3. /\ Cardinality(Working(i, r)) \in Nat /\ Cardinality(Deliveries(i, r)) \in Nat
        /\ fired[<<i, r>>] \in Nat
    BY <2>2, FS_CardinalityType DEF IndInv, TypeOK
  <2>4. bound \in Int
    <3>1. CASE kvMode \/ In[i].kind # "nats" BY <3>1
    <3>2. CASE ~(kvMode \/ In[i].kind # "nats")
      <4>1. IsFiniteSet(Subscriptions(Def[r].core)) BY <3>2, FiniteSubscriptions
      <4> QED BY <3>2, <4>1, FS_Subset, FS_CardinalityType
    <3> QED BY <3>1, <3>2
  <2> HIDE DEF bound
  <2>5. fired[<<i, r>>] <= bound BY <2>1, <2>2, <2>3, <2>4
  <2> QED BY <2>5 DEF bound
<1> QED BY <1>1, AccountsKept, PTL

\* In file mode a rule sees every message that its own subscription delivers
\* (index.go:148-190).
THEOREM OwnDeliverySeesAlways == Spec => []OwnDeliverySees
<1>1. Accounts => OwnDeliverySees BY DEF Accounts
<1> QED BY <1>1, AccountsKept, PTL

-----------------------------------------------------------------------------
\* The leading-edge throttle, ThrottleManager: the map with its sweep decides
\* as one that never evicts.

\* The empty map of NewThrottleManager satisfies the inductive invariant.
LEMMA ThrottleInitInd == ThrottleInit => ThrottleInv
BY DEF ThrottleInit, ThrottleInv, ThrottleTypeOK, EntryMatches, TimesPast, NoLeak

\* What sweepExpired leaves: only ended windows are gone, and after it every
\* entry ends later than the recorded sweep.
LEMMA SweepFacts ==
  ASSUME ThrottleInv
  PROVE  /\ swept \in [Keys -> Nat \cup {NoEntry}]
         /\ sweepTime \in Nat
         /\ sweepTime <= now
         /\ \A k \in Keys :
              /\ swept[k] # NoEntry => swept[k] = expiry[k] /\ swept[k] > sweepTime
              /\ swept[k] = NoEntry /\ expiry[k] # NoEntry => now >= expiry[k]
<1> USE NoEntryAssumption, SweepAssumption DEF ThrottleInv, ThrottleTypeOK
<1>1. swept \in [Keys -> Nat \cup {NoEntry}]
  BY DEF swept
<1>2. sweepTime \in Nat /\ sweepTime <= now
  BY DEF sweepTime, TimesPast
<1>3. ASSUME NEW k \in Keys
      PROVE  /\ swept[k] # NoEntry => swept[k] = expiry[k] /\ swept[k] > sweepTime
             /\ swept[k] = NoEntry /\ expiry[k] # NoEntry => now >= expiry[k]
  <2>1. swept[k] = IF SweepDue /\ expiry[k] # NoEntry /\ ~(now < expiry[k])
                   THEN NoEntry ELSE expiry[k]
    BY DEF swept
  <2>2. expiry[k] \in Nat \cup {NoEntry}
    OBVIOUS
  <2> QED
    BY <2>1, <2>2 DEF sweepTime, NoLeak
<1> QED
  BY <1>1, <1>2, <1>3

\* Every step of the throttle keeps the inductive invariant.
LEMMA ThrottleNextInd == ThrottleInv /\ [ThrottleNext]_throttleVars => ThrottleInv'
<1> SUFFICES ASSUME ThrottleInv, [ThrottleNext]_throttleVars
             PROVE  ThrottleInv'
  OBVIOUS
<1> USE NoEntryAssumption, WindowAssumption
<1>1. CASE Tick
  <2>1. now' = now + 1 /\ expiry' = expiry /\ lastSweep' = lastSweep /\ allowedAt' = allowedAt
    BY <1>1 DEF Tick
  <2>2. ThrottleTypeOK'
    BY <2>1 DEF ThrottleInv, ThrottleTypeOK
  <2>3. EntryMatches'
    BY <2>1 DEF ThrottleInv, ThrottleTypeOK, EntryMatches
  <2>4. TimesPast'
    BY <2>1 DEF ThrottleInv, ThrottleTypeOK, TimesPast
  <2>5. NoLeak'
    BY <2>1 DEF ThrottleInv, NoLeak
  <2> QED
    BY <2>2, <2>3, <2>4, <2>5 DEF ThrottleInv
<1>2. ASSUME NEW k \in Keys, AllowTrue(k)
      PROVE  ThrottleInv'
  <2>1. /\ expiry' = [swept EXCEPT ![k] = now + Window[k]]
        /\ allowedAt' = [allowedAt EXCEPT ![k] = now]
        /\ lastSweep' = sweepTime
        /\ now' = now
    BY <1>2 DEF AllowTrue
  <2>2. now \in Nat /\ Window[k] \in Nat \ {0}
    BY DEF ThrottleInv, ThrottleTypeOK
  <2>3. ThrottleTypeOK'
    BY <2>1, <2>2, SweepFacts DEF ThrottleInv, ThrottleTypeOK
  <2>4. EntryMatches'
    <3> SUFFICES ASSUME NEW j \in Keys
                 PROVE  IF expiry'[j] # NoEntry
                        THEN allowedAt'[j] # NoEntry /\ expiry'[j] = allowedAt'[j] + Window[j]
                        ELSE allowedAt'[j] # NoEntry => now' >= allowedAt'[j] + Window[j]
      BY DEF EntryMatches
    <3>1. CASE j = k
      BY <3>1, <2>1, <2>2, SweepFacts DEF ThrottleInv, ThrottleTypeOK
    <3>2. CASE j # k
      <4>1. expiry'[j] = swept[j] /\ allowedAt'[j] = allowedAt[j]
        BY <3>2, <2>1, SweepFacts DEF ThrottleInv, ThrottleTypeOK
      <4> QED
        BY <4>1, <2>1, SweepFacts DEF ThrottleInv, ThrottleTypeOK, EntryMatches
    <3> QED
      BY <3>1, <3>2
  <2>5. TimesPast'
    BY <2>1, <2>2, SweepFacts DEF ThrottleInv, ThrottleTypeOK, TimesPast
  <2>6. NoLeak'
    <3> SUFFICES ASSUME NEW j \in Keys, expiry'[j] # NoEntry
                 PROVE  expiry'[j] > lastSweep'
      BY DEF NoLeak
    <3>1. CASE j = k
      BY <3>1, <2>1, <2>2, SweepFacts
    <3>2. CASE j # k
      BY <3>2, <2>1, SweepFacts
    <3> QED
      BY <3>1, <3>2
  <2> QED
    BY <2>3, <2>4, <2>5, <2>6 DEF ThrottleInv
<1>3. ASSUME NEW k \in Keys, AllowFalse(k)
      PROVE  ThrottleInv'
  <2>1. /\ expiry' = swept
        /\ lastSweep' = sweepTime
        /\ now' = now
        /\ allowedAt' = allowedAt
    BY <1>3 DEF AllowFalse
  <2>2. ThrottleTypeOK'
    BY <2>1, SweepFacts DEF ThrottleInv, ThrottleTypeOK
  <2>3. EntryMatches'
    BY <2>1, SweepFacts DEF ThrottleInv, ThrottleTypeOK, EntryMatches
  <2>4. TimesPast'
    BY <2>1, SweepFacts DEF ThrottleInv, TimesPast
  <2>5. NoLeak'
    BY <2>1, SweepFacts DEF NoLeak
  <2> QED
    BY <2>2, <2>3, <2>4, <2>5 DEF ThrottleInv
<1>4. CASE UNCHANGED throttleVars
  BY <1>4 DEF throttleVars, ThrottleInv, ThrottleTypeOK, EntryMatches, TimesPast, NoLeak
<1> QED
  BY <1>1, <1>2, <1>3, <1>4 DEF ThrottleNext, Allow

\* The inductive invariant holds of every reachable state.
THEOREM ThrottleInductive == ThrottleSpec => []ThrottleInv
BY ThrottleInitInd, ThrottleNextInd, PTL DEF ThrottleSpec

\* Eviction is invisible: a key is suppressed exactly during its window.
THEOREM SweepInvisibleAlways == ThrottleSpec => []SweepInvisible
<1>1. ASSUME ThrottleInv, NEW k \in Keys
      PROVE  (expiry[k] # NoEntry /\ now < expiry[k]) <=> InWindow(k)
  <2>1. /\ now \in Nat
        /\ expiry[k] \in Nat \cup {NoEntry}
        /\ allowedAt[k] \in Nat \cup {NoEntry}
        /\ Window[k] \in Nat
    BY <1>1, WindowAssumption DEF ThrottleInv, ThrottleTypeOK
  <2>2. CASE expiry[k] # NoEntry
    BY <1>1, <2>1, <2>2 DEF ThrottleInv, EntryMatches, InWindow
  <2>3. CASE expiry[k] = NoEntry
    <3>1. allowedAt[k] # NoEntry => now >= allowedAt[k] + Window[k]
      BY <1>1, <2>3 DEF ThrottleInv, EntryMatches
    <3> QED
      BY <2>1, <2>3, <3>1, NoEntryAssumption DEF InWindow
  <2> QED
    BY <2>2, <2>3
<1>2. ThrottleInv => SweepInvisible
  BY <1>1 DEF SweepInvisible
<1> QED
  BY <1>2, ThrottleInductive, PTL

\* The map never keeps an entry that the last sweep should have dropped.
THEOREM NoLeakAlways == ThrottleSpec => []NoLeak
<1>1. ThrottleInv => NoLeak
  BY DEF ThrottleInv
<1> QED
  BY <1>1, ThrottleInductive, PTL

\* Two messages of a key are let through at least a window apart.
THEOREM SpacedAlways == ThrottleSpec => Spaced
<1> DEFINE Apart == \A k \in Keys : allowedAt[k] # NoEntry /\ allowedAt'[k] # allowedAt[k]
                       => allowedAt'[k] >= allowedAt[k] + Window[k]
<1>1. ThrottleInv /\ [ThrottleNext]_throttleVars => [Apart]_throttleVars
  <2> SUFFICES ASSUME ThrottleInv, ThrottleNext, NEW k \in Keys,
                      allowedAt[k] # NoEntry, allowedAt'[k] # allowedAt[k]
               PROVE  allowedAt'[k] >= allowedAt[k] + Window[k]
    BY DEF Apart
  <2>1. PICK j \in Keys : AllowTrue(j)
    BY DEF ThrottleNext, Allow, AllowFalse, Tick
  <2>2. j = k /\ allowedAt'[k] = now
    BY <2>1 DEF AllowTrue, ThrottleInv, ThrottleTypeOK
  <2>3. swept[k] # NoEntry => swept[k] = allowedAt[k] + Window[k] /\ ~(now < swept[k])
    BY <2>1, <2>2, SweepFacts DEF AllowTrue, Suppresses, ThrottleInv, EntryMatches
  <2>4. swept[k] = NoEntry => now >= allowedAt[k] + Window[k]
    BY SweepFacts DEF ThrottleInv, EntryMatches
  <2> QED
    BY <2>2, <2>3, <2>4, NoEntryAssumption, WindowAssumption, SweepFacts DEF ThrottleInv, ThrottleTypeOK
<1> QED
  BY <1>1, ThrottleInductive, PTL DEF ThrottleSpec, Spaced

-----------------------------------------------------------------------------
\* Folding moves the debounce blocks and changes nothing else of the rule's
\* shape (loader.go, normalizeThrottle).
LEMMA FoldKeeps ==
  ASSUME NEW r \in RuleSources
  PROVE  /\ normalizeThrottle(r) \in RuleSources
         /\ Writable(r) => Writable(normalizeThrottle(r))
         /\ normalizeThrottle(r).subject = r.subject
<1> DEFINE n == normalizeThrottle(r)
           marks == {<<m[1], Moved(m[2])>> : m \in r.marks}
           tt == IF r.triggerDebounce = "none" THEN r.triggerThrottle ELSE r.triggerDebounce
           at == IF r.actionDebounce = "none" THEN r.actionThrottle ELSE r.actionDebounce
<1>1. marks \in SUBSET (Marks \X Places)
  <2> SUFFICES ASSUME NEW m \in r.marks
               PROVE  <<m[1], Moved(m[2])>> \in Marks \X Places
    OBVIOUS
  <2>1. m \in Marks \X Places
    BY DEF RuleSources
  <2>2. Moved(m[2]) \in Places
    <3>1. m[2] \in Places
      BY <2>1
    <3> QED
      BY <3>1 DEF Moved, Places
  <2> QED
    BY <2>1, <2>2
<1>2. tt \in Throttles /\ at \in Throttles /\ "none" \in Throttles
  BY DEF RuleSources, Throttles
<1>3. n = [r EXCEPT !.triggerThrottle = tt, !.triggerDebounce = "none",
                    !.actionThrottle = at, !.actionDebounce = "none", !.marks = marks]
  BY DEF normalizeThrottle
<1> HIDE DEF n, tt, at, marks
<1>4. n \in RuleSources
  BY <1>1, <1>2, <1>3 DEF RuleSources
<1>5. /\ n.triggers = r.triggers /\ n.mode = r.mode /\ n.reply = r.reply /\ n.queue = r.queue
      /\ n.actions = r.actions /\ n.request = r.request /\ n.timeout = r.timeout
      /\ n.triggerThrottle = tt /\ n.triggerDebounce = "none"
      /\ n.actionThrottle = at /\ n.actionDebounce = "none" /\ n.subject = r.subject
  BY <1>3 DEF RuleSources
<1>6. ASSUME Writable(r) PROVE Writable(n)
  BY <1>5, <1>6 DEF Writable, tt, at
<1> QED
  BY <1>4, <1>5, <1>6 DEF n

\* Expanding removes the references it finds, and leaves the shape alone
\* (loader.go, expandEnvironmentVariables).
LEMMA ExpandKeeps ==
  ASSUME NEW r \in RuleSources
  PROVE  /\ Expand(r) \in RuleSources
         /\ Writable(r) => Writable(Expand(r))
         /\ Expand(r).subject = r.subject
<1> DEFINE e == Expand(r)
           gone == {<<"empty", m[2]>> : m \in {n \in References(r) : n[1] = "unset"}}
           marks == (r.marks \ References(r)) \cup gone
<1>1. e = [r EXCEPT !.marks = marks]
  BY DEF Expand
<1>2. gone \in SUBSET (Marks \X Places) /\ marks \in SUBSET (Marks \X Places)
  BY DEF References, RuleSources, Marks
<1> HIDE DEF e, marks, gone
<1>3. e \in RuleSources
  BY <1>1, <1>2 DEF RuleSources
<1>4. /\ e.triggers = r.triggers /\ e.mode = r.mode /\ e.reply = r.reply /\ e.queue = r.queue
      /\ e.actions = r.actions /\ e.request = r.request /\ e.timeout = r.timeout
      /\ e.triggerThrottle = r.triggerThrottle /\ e.triggerDebounce = r.triggerDebounce
      /\ e.actionThrottle = r.actionThrottle /\ e.actionDebounce = r.actionDebounce
      /\ e.subject = r.subject /\ e.marks = marks
  BY <1>1 DEF RuleSources
<1>5. ASSUME Writable(r) PROVE Writable(e)
  BY <1>4, <1>5 DEF Writable
<1> QED
  BY <1>3, <1>4, <1>5 DEF e

\* A rule that validateRule accepts has one trigger and one action.
LEMMA OneOf ==
  ASSUME NEW a, NEW b, NEW c, NEW S, S \subseteq ({a} \cup {b}) \cup {c}, Cardinality(S) = 1
  PROVE  S = {a} \/ S = {b} \/ S = {c}
<1>1. IsFiniteSet({a}) /\ IsFiniteSet({b}) /\ IsFiniteSet({c})
  BY FS_Singleton
<1>2. IsFiniteSet({a} \cup {b})
  BY <1>1, FS_Union, Zenon
<1>3. IsFiniteSet(({a} \cup {b}) \cup {c})
  BY <1>1, <1>2, FS_Union, Zenon
<1>4. IsFiniteSet(S)
  BY <1>3, FS_Subset, Zenon
<1> QED
  BY <1>4, FS_Singleton

\* The loader is sound: whatever it returns is executed by the layer of its
\* trigger, whatever features are on, unless it is an HTTP action that the docs
\* say is skipped (loader.go, ParseAndValidateYAML).
THEOREM LoaderSound ==
  ASSUME NEW r \in RuleSources, Writable(r), NEW allowEnv \in BOOLEAN,
         NEW d \in ParseAndValidate(r, allowEnv)
  PROVE  /\ d \in RuleSources /\ d.subject = r.subject
         /\ Servable(d)
<1> DEFINE n == normalizeThrottle(r)
<1>1. d = Expand(n) /\ validateRule(d)
  BY DEF ParseAndValidate
<1>2. n \in RuleSources /\ Writable(n) /\ n.subject = r.subject
  BY FoldKeeps
<1> HIDE DEF n
<1>3. d \in RuleSources /\ Writable(d) /\ d.subject = r.subject
  BY <1>1, <1>2, ExpandKeeps
<1>4. PICK t \in {"nats", "http", "schedule"} : d.triggers = {t}
  <2>1. d.triggers \subseteq ({"nats"} \cup {"http"}) \cup {"schedule"} /\ Cardinality(d.triggers) = 1
    BY <1>1, <1>3 DEF RuleSources, validateRule, ValidTrigger
  <2>2. d.triggers = {"nats"} \/ d.triggers = {"http"} \/ d.triggers = {"schedule"}
    BY <2>1, OneOf, Zenon
  <2> QED
    BY <2>2
<1>5. PICK a \in {"nats", "http", "respond"} : d.actions = {a}
  <2>1. d.actions \subseteq ({"nats"} \cup {"http"}) \cup {"respond"} /\ Cardinality(d.actions) = 1
    BY <1>1, <1>3 DEF RuleSources, validateRule, ValidAction
  <2>2. d.actions = {"nats"} \/ d.actions = {"http"} \/ d.actions = {"respond"}
    BY <2>1, OneOf, Zenon
  <2> QED
    BY <2>2
<1>6. Compatible(d)
  BY <1>1 DEF validateRule
<1>7. ASSUME NEW on \in SUBSET Features
      PROVE  Executes(Layer(d), d, on) \/ Skipped(d, on)
  <2>1. CASE a = "nats"
    <3>1. ~(d.request /\ d.actionThrottle = "trailing")
      BY <1>1, <1>5, <2>1 DEF validateRule, ValidAction, ValidNATSAction
    <3>2. d.request => t = "http"
      BY <1>4, <1>5, <1>6, <2>1 DEF Compatible
    <3> QED
      BY <1>4, <1>5, <2>1, <3>1, <3>2 DEF Executes, Layer, Deferred
  <2>2. CASE a = "http"
    BY <1>5, <2>2 DEF Executes, Skipped
  <2>3. CASE a = "respond"
    <3>1. t = "http" \/ (t = "nats" /\ d.reply)
      BY <1>4, <1>5, <1>6, <2>3 DEF Compatible
    <3> QED
      BY <1>4, <1>5, <2>3, <3>1 DEF Executes, Layer, IsCore
  <2> QED
    BY <2>1, <2>2, <2>3
<1>8. d.triggerThrottle # "trailing"
  <2>1. CASE t = "schedule"
    BY <1>3, <1>4, <2>1 DEF Writable
  <2>2. CASE t # "schedule"
    BY <1>1, <1>4, <2>2 DEF validateRule, ValidTrigger, ValidThrottle
  <2> QED
    BY <2>1, <2>2
<1>9. Servable(d)
  BY <1>6, <1>7, <1>8 DEF Servable, Compatible
<1> QED
  BY <1>3, <1>9
-----------------------------------------------------------------------------
\* A filter of a known stream (stream_resolver.go, listStreams).
LEMMA FilterFacts ==
  ASSUME NEW list \in SUBSET Ids, NEW m \in UNION {Filters(i) : i \in list}
  PROVE  /\ m.stream \in list /\ m.stream \in Nat /\ m.stream # 0
         /\ m.filter \in Seq(STRING) /\ Len(m.filter) \in Nat \ {0} /\ ValidTokens(m.filter)
         /\ DOMAIN m.filter = 1 .. Len(m.filter)
         /\ m \in Filters(m.stream)
<1>1. PICK i \in list : m \in Filters(i)
  OBVIOUS
<1>2. i \in Nat /\ i # 0
  BY StreamAssumption DEF Ids
<1>3. m.stream = i
  BY <1>1 DEF Filters
<1>4. m.filter \in Seq(STRING) /\ m.filter # <<>> /\ ValidTokens(m.filter)
  BY <1>1, FilterAssumption
<1>5. Len(m.filter) \in Nat \ {0} /\ DOMAIN m.filter = 1 .. Len(m.filter)
  BY <1>4
<1> QED
  BY <1>1, <1>2, <1>3, <1>4, <1>5

\* A trigger subject.
LEMMA SubjectFacts ==
  ASSUME NEW s \in Subjects
  PROVE  /\ s \in Seq(STRING) /\ Len(s) \in Nat \ {0} /\ ValidTokens(s)
         /\ DOMAIN s = 1 .. Len(s)
BY SubjectAssumption

\* matchPattern misses no filter that covers the subject: the message that
\* tells the filters apart is delivered by both (stream_resolver.go:441-583).
LEMMA CoversMatches ==
  ASSUME NEW s \in Subjects, NEW list \in SUBSET Ids, NEW m \in UNION {Filters(i) : i \in list},
         Covers(m.filter, s)
  PROVE  subjectMatches(s, m.filter)
<1> DEFINE f == m.filter
           n == Len(f)
<1>1. PICK w \in Messages : IsSample(w, s)
  BY MessageAssumption
<1>2. w \in Seq(STRING) /\ DOMAIN w = 1 .. Len(w)
  BY MessageAssumption
<1>3. /\ f \in Seq(STRING) /\ n \in Nat \ {0} /\ ValidTokens(f) /\ DOMAIN f = 1 .. n
      /\ m \in Filters(m.stream) /\ m.stream \in Ids
  BY FilterFacts
<1>4. s \in Seq(STRING) /\ Len(s) \in Nat \ {0} /\ ValidTokens(s) /\ DOMAIN s = 1 .. Len(s)
  BY SubjectFacts
<1>5. Len(w) = Len(s) /\ \A i \in 1 .. Len(s) : s[i] \notin {Single, Greedy} => w[i] = s[i]
  BY <1>1, <1>4 DEF IsSample
<1>6. ASSUME NEW i \in 1 .. Len(s), NEW k \in 1 .. n, w[i] = f[k]
      PROVE  s[i] \notin {Single, Greedy} /\ f[k] = s[i]
  BY <1>1, <1>3, <1>4, <1>6 DEF IsSample
<1>7. ServerDelivers(s, w)
  BY <1>4, <1>5 DEF ServerDelivers
<1>8. ServerDelivers(f, w)
  BY <1>7 DEF Covers
<1>9. /\ IF f[n] = Greedy THEN Len(w) >= n ELSE Len(w) = n
      /\ \A i \in 1 .. n : f[i] \in {Single, Greedy} \/ f[i] = w[i]
  BY <1>8, Zenon DEF ServerDelivers
<1>10. \A i \in 1 .. n : f[i] = Greedy => i = n
  BY <1>3 DEF ValidTokens
<1>11. n <= Len(s) /\ (f[n] # Greedy => n = Len(s))
  BY <1>3, <1>4, <1>5, <1>9
<1> HIDE DEF n
<1>12. ASSUME NEW i \in 1 .. n PROVE f[i] \in {Single, Greedy, s[i]}
  BY <1>3, <1>4, <1>6, <1>9, <1>11
<1>13. CASE ~Wild(f)
  <2>1. \A i \in 1 .. n : f[i] \notin {Single, Greedy}
    BY <1>3, <1>13 DEF Wild
  <2>2. n \in 1 .. n
    BY <1>3
  <2>3. n = Len(s) /\ \A i \in 1 .. n : f[i] = s[i]
    BY <1>11, <1>12, <2>1, <2>2
  <2>4. f = s
    BY <1>3, <1>4, <2>3 DEF n
  <2> QED
    BY <2>4 DEF subjectMatches
<1>14. CASE Wild(f)
  <2>1. CASE f[n] = Greedy
    <3>1. \A i \in 1 .. (n - 1) : f[i] \in {Single, s[i]}
      BY <1>3, <1>10, <1>12
    <3>2. n - 1 < n /\ Len(s) >= n - 1
      BY <1>3, <1>4, <1>11
    <3>3. matchPattern(s, f)
      BY <2>1, <3>1, <3>2 DEF matchPattern, Last, n
    <3> QED
      BY <1>14, <3>3 DEF subjectMatches
  <2>2. CASE f[n] # Greedy
    <3>1. \A i \in 1 .. n : f[i] \in {Single, s[i]}
      BY <1>3, <1>10, <1>12, <2>2
    <3>2. ~(n < n) /\ Len(s) = n
      BY <1>3, <1>11, <2>2
    <3>3. matchPattern(s, f)
      BY <2>2, <3>1, <3>2 DEF matchPattern, Last, n
    <3> QED
      BY <1>14, <3>3 DEF subjectMatches
  <2> QED
    BY <2>1, <2>2
<1> QED
  BY <1>13, <1>14

\* What a match says: the filter is the subject, or a pattern for it that is
\* at most one token longer.
LEMMA MatchMeans ==
  ASSUME NEW s \in Subjects, NEW list \in SUBSET Ids, NEW m \in UNION {Filters(i) : i \in list},
         subjectMatches(s, m.filter)
  PROVE  \/ m.filter = s
         \/ /\ Wild(m.filter)
            /\ IF Last(m.filter) = Greedy THEN Len(s) >= Len(m.filter) - 1 ELSE Len(s) = Len(m.filter)
            /\ \A i \in 1 .. Len(m.filter) :
                 (Last(m.filter) = Greedy => i # Len(m.filter)) => m.filter[i] \in {Single, s[i]}
<1> DEFINE f == m.filter
           n == Len(f)
<1>1. f \in Seq(STRING) /\ n \in Nat \ {0} /\ ValidTokens(f) /\ DOMAIN f = 1 .. n
  BY FilterFacts
<1>2. s \in Seq(STRING) /\ Len(s) \in Nat \ {0} /\ ValidTokens(s) /\ DOMAIN s = 1 .. Len(s)
  BY SubjectFacts
<1>3. CASE ~Wild(f) /\ Wild(s) /\ patternCoveredBy(s, f)
  <2>1. \A i \in 1 .. n : f[i] \notin {Single, Greedy}
    BY <1>1, <1>3 DEF Wild
  <2>2. f[n] # Greedy /\ f # <<Greedy>>
    <3>1. n \in 1 .. n /\ 1 \in 1 .. n
      BY <1>1
    <3> QED
      BY <2>1, <3>1
  <2>3. Len(s) = n /\ \A i \in DOMAIN f : f[i] = Single \/ f[i] = s[i]
    BY <1>3, <2>2 DEF patternCoveredBy, Last
  <2>4. f = s
    BY <1>1, <1>2, <2>1, <2>3
  <2> QED
    BY <2>4
<1>4. CASE Wild(f) /\ matchPattern(s, f)
  <2>1. CASE Last(f) = Greedy
    <3>1. Len(s) >= n - 1 /\ \A i \in 1 .. (n - 1) : f[i] \in {Single, s[i]}
      BY <1>1, <1>4, <2>1 DEF matchPattern
    <3> QED
      BY <1>1, <1>4, <2>1, <3>1
  <2>2. CASE Last(f) # Greedy
    <3>1. Len(s) = n /\ \A i \in 1 .. n : f[i] \in {Single, s[i]}
      BY <1>1, <1>4, <2>2 DEF matchPattern
    <3> QED
      BY <1>1, <1>4, <2>2, <3>1
  <2> QED
    BY <2>1, <2>2
<1> QED
  BY <1>3, <1>4 DEF subjectMatches

\* A match covers the subject, apart from the two loose shapes.
LEMMA MatchesCover ==
  ASSUME NEW s \in Subjects, NEW list \in SUBSET Ids, NEW m \in UNION {Filters(i) : i \in list},
         subjectMatches(s, m.filter), ~Loose(m.filter, s)
  PROVE  Covers(m.filter, s)
<1> DEFINE f == m.filter
           n == Len(f)
<1>1. f \in Seq(STRING) /\ n \in Nat \ {0} /\ ValidTokens(f) /\ DOMAIN f = 1 .. n
  BY FilterFacts
<1>2. s \in Seq(STRING) /\ Len(s) \in Nat \ {0} /\ ValidTokens(s) /\ DOMAIN s = 1 .. Len(s)
  BY SubjectFacts
<1>3. SUFFICES ASSUME NEW w \in Messages, ServerDelivers(s, w), f # s
               PROVE  ServerDelivers(f, w)
  BY DEF Covers
<1>4. /\ IF f[n] = Greedy THEN Len(s) >= n - 1 ELSE Len(s) = n
      /\ \A i \in 1 .. n : (f[n] = Greedy => i # n) => f[i] \in {Single, s[i]}
  BY <1>3, MatchMeans, Zenon DEF Last
<1>5. /\ s[Len(s)] = Greedy => f[n] = Greedy
      /\ ~(f[n] = Greedy /\ n = Len(s) + 1)
  BY Zenon DEF Loose, Last
<1>6. /\ IF s[Len(s)] = Greedy THEN Len(w) >= Len(s) ELSE Len(w) = Len(s)
      /\ \A i \in 1 .. Len(s) : s[i] \in {Single, Greedy} \/ s[i] = w[i]
  BY <1>3, Zenon DEF ServerDelivers
<1>7. w \in Seq(STRING) /\ Len(w) \in Nat
  BY MessageAssumption
<1> HIDE DEF n, f
<1>8. n <= Len(s) /\ IF f[n] = Greedy THEN Len(w) >= n ELSE Len(w) = n
  <2>1. CASE f[n] = Greedy
    <3>1. Len(s) >= n
      BY <1>1, <1>2, <1>4, <1>5, <2>1
    <3>2. Len(w) >= Len(s)
      BY <1>2, <1>6, <1>7
    <3> QED
      BY <1>1, <1>2, <1>7, <2>1, <3>1, <3>2
  <2>2. CASE f[n] # Greedy
    BY <1>1, <1>4, <1>5, <1>6, <2>2
  <2> QED
    BY <2>1, <2>2
<1>9. ASSUME NEW i \in 1 .. n PROVE f[i] \in {Single, Greedy} \/ f[i] = w[i]
  <2>1. i \in 1 .. Len(s)
    BY <1>1, <1>2, <1>8
  <2> QED
    BY <1>4, <1>6, <2>1
<1>10. n > 0
  BY <1>1
<1>11. ServerDelivers(f, w)
  BY <1>8, <1>9, <1>10 DEF ServerDelivers, n
<1> QED
  BY <1>11

\* Two disjoint sets of positions have no more members than there are positions.
LEMMA Disjoint ==
  ASSUME NEW n \in Nat, NEW A, NEW B, A \subseteq 1 .. n, B \subseteq 1 .. n, A \cap B = {}
  PROVE  /\ IsFiniteSet(A) /\ Cardinality(A) \in Nat
         /\ IsFiniteSet(B) /\ Cardinality(B) \in Nat
         /\ Cardinality(A) + Cardinality(B) <= n
<1>1. IsFiniteSet(1 .. n) /\ Cardinality(1 .. n) = n
  BY FS_Interval
<1>2. IsFiniteSet(A) /\ IsFiniteSet(B) /\ Cardinality(A \cup B) <= Cardinality(1 .. n)
  BY <1>1, FS_Subset
<1>3. Cardinality(A \cup B) = Cardinality(A) + Cardinality(B) - Cardinality({})
  BY <1>2, FS_Union, Zenon
<1>4. Cardinality(A) \in Nat /\ Cardinality(B) \in Nat /\ Cardinality({}) = 0
  BY <1>2, FS_CardinalityType, FS_EmptySet
<1> QED
  BY <1>1, <1>2, <1>3, <1>4

\* calculateSpecificity on a pattern of n tokens (stream_resolver.go:412-437).
LEMMA WildScore ==
  ASSUME NEW f \in Seq(STRING), Len(f) \in Nat \ {0}, ValidTokens(f), Wild(f)
  PROVE  /\ calculateSpecificity(f) \in Nat
         /\ Last(f) = Greedy => calculateSpecificity(f) <= 100 * (Len(f) - 1) + 1
         /\ Last(f) # Greedy => calculateSpecificity(f) <= 100 * Len(f) - 90
<1> DEFINE n == Len(f)
           A == {i \in DOMAIN f : f[i] \notin {Single, Greedy}}
           B == {i \in DOMAIN f : f[i] \in {Single}}
           C == {i \in DOMAIN f : f[i] \in {Greedy}}
           a == Cardinality(A)
           b == Cardinality(B)
           c == Cardinality(C)
<1>1. DOMAIN f = 1 .. n /\ n \in Nat \ {0}
  OBVIOUS
<1>2. calculateSpecificity(f) = 100 * a + 10 * b + c
  BY DEF calculateSpecificity, ExactTokens, Count
<1>3. \A i \in 1 .. n : f[i] = Greedy => i = n
  BY <1>1 DEF ValidTokens
<1>4. A \cap B = {} /\ Single # Greedy
  BY DEF Single, Greedy
<1>5. CASE Last(f) = Greedy
  <2>1. C = {n}
    <3>1. n \in C
      BY <1>1, <1>5 DEF Last
    <3>2. \A i \in C : i = n
      BY <1>1, <1>3
    <3> QED
      BY <3>1, <3>2, Zenon
  <2>2. c = 1
    BY <2>1, FS_Singleton
  <2>3. n - 1 \in Nat /\ A \subseteq 1 .. (n - 1) /\ B \subseteq 1 .. (n - 1)
    BY <1>1, <1>4, <1>5 DEF Last
  <2>4. a \in Nat /\ b \in Nat /\ a + b <= n - 1
    BY <1>4, <2>3, Disjoint
  <2> QED
    BY <1>1, <1>2, <1>5, <2>2, <2>4
<1>6. CASE Last(f) # Greedy
  <2>1. C = {}
    BY <1>1, <1>3, <1>6 DEF Last
  <2>2. c = 0
    BY <2>1, FS_EmptySet
  <2>3. A \subseteq 1 .. n /\ B \subseteq 1 .. n
    BY <1>1
  <2>4. IsFiniteSet(B) /\ a \in Nat /\ b \in Nat /\ a + b <= n
    BY <1>1, <1>4, <2>3, Disjoint
  <2>5. B # {}
    BY <2>1 DEF Wild
  <2>6. b # 0
    BY <2>4, <2>5, FS_EmptySet
  <2> HIDE DEF a, b, c
  <2> QED
    BY <1>1, <1>2, <1>6, <2>2, <2>4, <2>6
<1> QED
  BY <1>5, <1>6

\* The score decides before storage, kind of filter and system streams do
\* (stream_resolver.go:311-343).
LEMMA RankFacts ==
  ASSUME NEW m, calculateSpecificity(m.filter) \in Nat
  PROVE  /\ Rank(m) \in Nat
         /\ Rank(m) >= 8 * calculateSpecificity(m.filter)
         /\ Rank(m) <= 8 * calculateSpecificity(m.filter) + 7
<1> DEFINE x == IF Streams[m.stream].memory THEN 1 ELSE 0
           y == IF m.primary THEN 1 ELSE 0
           z == IF ~Streams[m.stream].system THEN 1 ELSE 0
           v == calculateSpecificity(m.filter)
<1>1. x \in 0 .. 1 /\ y \in 0 .. 1 /\ z \in 0 .. 1
  OBVIOUS
<1>2. Rank(m) = 8 * v + 4 * x + 2 * y + z
  BY Zenon DEF Rank
<1> HIDE DEF x, y, z, v
<1>3. v \in Nat
  BY DEF v
<1>4. Rank(m) \in Nat /\ Rank(m) >= 8 * v /\ Rank(m) <= 8 * v + 7
  BY <1>1, <1>2, <1>3
<1> QED
  BY <1>4 DEF v

\* The score of a match is bounded by the subject's length.
LEMMA MatchScore ==
  ASSUME NEW s \in Subjects, NEW list \in SUBSET Ids, NEW m \in UNION {Filters(i) : i \in list},
         subjectMatches(s, m.filter)
  PROVE  /\ calculateSpecificity(m.filter) \in Nat
         /\ calculateSpecificity(m.filter) <= 1000 + 100 * Len(s) + 1
         /\ m.filter # s => calculateSpecificity(m.filter) <= 100 * Len(s) + 1
<1>1. /\ m.filter \in Seq(STRING) /\ Len(m.filter) \in Nat \ {0} /\ ValidTokens(m.filter)
  BY FilterFacts
<1>2. Len(s) \in Nat
  BY SubjectFacts
<1>3. CASE ~Wild(m.filter)
  <2>1. m.filter = s
    BY <1>3, MatchMeans
  <2>2. calculateSpecificity(m.filter) = 1000 + 10 * Len(s)
    BY <1>3, <2>1 DEF calculateSpecificity
  <2> QED
    BY <1>2, <2>1, <2>2
<1>4. CASE Wild(m.filter)
  <2>1. IF Last(m.filter) = Greedy THEN Len(s) >= Len(m.filter) - 1 ELSE Len(s) = Len(m.filter)
    <3>1. CASE m.filter = s
      BY <1>1, <3>1
    <3>2. CASE m.filter # s
      BY <3>2, MatchMeans
    <3> QED
      BY <3>1, <3>2
  <2> DEFINE v == calculateSpecificity(m.filter)
             n == Len(m.filter)
  <2>2. /\ v \in Nat
        /\ Last(m.filter) = Greedy => v <= 100 * (n - 1) + 1
        /\ Last(m.filter) # Greedy => v <= 100 * n - 90
    BY <1>1, <1>4, WildScore
  <2>3. n \in Nat /\ IF Last(m.filter) = Greedy THEN Len(s) >= n - 1 ELSE Len(s) = n
    BY <1>1, <2>1
  <2> HIDE DEF v, n
  <2>4. v <= 100 * Len(s) + 1
    BY <1>2, <2>2, <2>3
  <2> QED
    BY <1>2, <2>2, <2>4 DEF v
<1> QED
  BY <1>3, <1>4

\* FindStreamForSubject finds a best match whenever there is a match.
LEMMA BestFound ==
  ASSUME NEW s \in Subjects, NEW list \in SUBSET Ids, MatchesIn(list, s) # {}
  PROVE  /\ BestMatch(list, s) \in MatchesIn(list, s)
         /\ \A m \in MatchesIn(list, s) : Rank(m) <= Rank(BestMatch(list, s))
<1> DEFINE all == MatchesIn(list, s)
           best == {m \in all : \A n \in all : Rank(n) <= Rank(m)}
           top == 8 * (1000 + 100 * Len(s) + 1) + 7
           above == {k \in Nat : \A m \in all : Rank(m) <= k}
           lists == {m.stream : m \in best}
<1>1. ASSUME NEW m \in all PROVE Rank(m) \in Nat /\ Rank(m) <= top /\ m.stream \in Nat
  <2>1. m \in UNION {Filters(i) : i \in list} /\ subjectMatches(s, m.filter)
    BY DEF MatchesIn
  <2>2. calculateSpecificity(m.filter) \in Nat
        /\ calculateSpecificity(m.filter) <= 1000 + 100 * Len(s) + 1
    BY <2>1, MatchScore
  <2>3. Rank(m) \in Nat /\ Rank(m) <= 8 * calculateSpecificity(m.filter) + 7
    BY <2>2, RankFacts
  <2>4. Len(s) \in Nat
    BY SubjectFacts
  <2>5. m.stream \in Nat
    BY <2>1, FilterFacts
  <2> QED
    BY <2>2, <2>3, <2>4, <2>5
<1>2. top \in Nat
  BY SubjectFacts
<1> HIDE DEF all, top
<1>3. above \in SUBSET Nat /\ above # {}
  BY <1>1, <1>2
<1>4. PICK k \in above : \A j \in above : k <= j
  BY <1>3, LeastNatural
<1>5. PICK m0 \in all : TRUE
  BY DEF all
<1>6. \E m \in all : Rank(m) = k
  <2> SUFFICES ASSUME \A m \in all : Rank(m) # k
               PROVE  FALSE
    OBVIOUS
  <2>1. k \in Nat /\ \A m \in all : Rank(m) <= k - 1
    BY <1>1, <1>4
  <2>2. k - 1 \in Nat
    BY <1>1, <1>5, <2>1
  <2>3. k - 1 \in above
    BY <2>1, <2>2
  <2> QED
    BY <1>4, <2>1, <2>3
<1>7. best # {} /\ best \subseteq all
  BY <1>4, <1>6
<1> HIDE DEF best
<1>8. lists \in SUBSET Nat /\ lists # {}
  BY <1>1, <1>7
<1>9. PICK i \in lists : \A j \in lists : i <= j
  BY <1>8, LeastNatural
<1>10. \E m \in best : \A n \in best : m.stream <= n.stream
  BY <1>9
<1>11. BestMatch(list, s) = CHOOSE m \in best : \A n \in best : m.stream <= n.stream
  BY DEF BestMatch, best, all
<1>12. BestMatch(list, s) \in best
  BY <1>10, <1>11
<1> QED
  BY <1>12 DEF best, all

\* For any set of known streams: a covered subject is given a stream, the
\* filter it is chosen for covers it, and the subject itself wins over every
\* wildcard up to 11 tokens (stream_resolver.go, FindStreamForSubject).
LEMMA FoundFor ==
  ASSUME NEW s \in Subjects, NEW list \in SUBSET Ids
  PROVE  LET i == FindStreamForSubject(list, s)
             best == BestMatch(list, s)
         IN /\ (\E j \in list : CoveredBy(j, s)) => i # 0
            /\ i # 0 => Covers(best.filter, s) \/ Loose(best.filter, s)
            /\ (i # 0 /\ Len(s) <= 11 /\ ~Wild(s) /\ \E m \in MatchesIn(list, s) : m.filter = s)
                 => best.filter = s
            /\ i \in list \cup {0}
<1> DEFINE i == FindStreamForSubject(list, s)
           best == BestMatch(list, s)
           all == MatchesIn(list, s)
<1>1. CASE all = {}
  <2>1. i = 0
    BY <1>1 DEF FindStreamForSubject
  <2>2. ASSUME NEW j \in list, CoveredBy(j, s) PROVE FALSE
    <3>1. PICK m \in Filters(j) : Covers(m.filter, s)
      BY <2>2 DEF CoveredBy
    <3>2. m \in UNION {Filters(q) : q \in list}
      BY <3>1
    <3>3. subjectMatches(s, m.filter)
      BY <3>1, <3>2, CoversMatches
    <3> QED
      BY <1>1, <3>2, <3>3 DEF MatchesIn
  <2> QED
    BY <2>1, <2>2
<1>2. CASE all # {}
  <2>1. best \in all /\ \A m \in all : Rank(m) <= Rank(best)
    BY <1>2, BestFound
  <2>2. i = best.stream
    BY <1>2 DEF FindStreamForSubject
  <2>3. best \in UNION {Filters(q) : q \in list} /\ subjectMatches(s, best.filter)
    BY <2>1 DEF MatchesIn
  <2> HIDE DEF best
  <2>4. i \in list /\ i # 0
    BY <2>2, <2>3, FilterFacts
  <2>5. Covers(best.filter, s) \/ Loose(best.filter, s)
    BY <2>3, MatchesCover
  <2>6. ASSUME Len(s) <= 11, ~Wild(s), NEW m \in all, m.filter = s PROVE best.filter = s
    <3> SUFFICES ASSUME best.filter # s PROVE FALSE
      OBVIOUS
    <3> DEFINE v == calculateSpecificity(best.filter)
               w == calculateSpecificity(m.filter)
    <3>1. Len(s) \in Nat
      BY SubjectFacts
    <3>2. w = 1000 + 10 * Len(s)
      BY <2>6 DEF calculateSpecificity
    <3>3. v \in Nat /\ v <= 100 * Len(s) + 1
      BY <2>3, MatchScore
    <3>4. Rank(best) \in Nat /\ Rank(best) <= 8 * v + 7
      BY <3>3, RankFacts
    <3>5. w \in Nat
      BY <3>1, <3>2
    <3>6. Rank(m) \in Nat /\ Rank(m) >= 8 * w
      BY <3>5, RankFacts
    <3>7. Rank(m) <= Rank(best)
      BY <2>1, <2>6
    <3> HIDE DEF v, w
    <3> QED
      BY <2>6, <3>1, <3>2, <3>3, <3>4, <3>5, <3>6, <3>7
  <2> QED
    BY <2>4, <2>5, <2>6 DEF best
<1> QED
  BY <1>1, <1>2

-----------------------------------------------------------------------------
\* Sequences put together one by one.
JoinUpTo(seqs, f, i) == IF i = 1 THEN seqs[i] ELSE f[i - 1] \o seqs[i]

\* FlattenSeq yields the last of them.
LEMMA FlattenIs ==
  ASSUME NEW seqs, NEW n \in Nat \ {0}, Len(seqs) = n, NEW S, NEW M \in [1 .. n -> S],
         \A i \in 1 .. n : M[i] = JoinUpTo(seqs, M, i)
  PROVE  FlattenSeq(seqs) = M[n]
<1> DEFINE D == 1 .. n
           Body(f, i) == JoinUpTo(seqs, f, i)
           flatten == CHOOSE f : f = [i \in D |-> Body(f, i)]
<1>1. M = [i \in D |-> Body(M, i)]
  OBVIOUS
<1>2. flatten = [i \in D |-> Body(flatten, i)]
  <2> HIDE DEF D, Body
  <2> QED
    BY <1>1
<1>3. FlattenSeq(seqs) = flatten[n]
  BY DEF FlattenSeq, JoinUpTo
<1> HIDE DEF flatten, Body
<1>4. \A i \in D : flatten[i] = Body(flatten, i) /\ M[i] = Body(M, i)
  BY <1>1, <1>2
<1>5. ASSUME NEW k \in D, flatten[k] # M[k] PROVE FALSE
  <2> DEFINE Bad == {i \in D : flatten[i] # M[i]}
  <2>1. Bad \subseteq Nat /\ k \in Bad
    <3>1. D \subseteq Nat
      OBVIOUS
    <3> HIDE DEF D
    <3> QED
      BY <1>5, <3>1
  <2>2. PICK i \in Bad : \A j \in Bad : i <= j
    <3> HIDE DEF Bad
    <3> QED
      BY <2>1, LeastNatural
  <2>3. i # 1 => i - 1 \in D /\ ~(i <= i - 1)
    BY <2>2
  <2>4. i # 1 => flatten[i - 1] = M[i - 1]
    BY <2>2, <2>3
  <2>5. Body(flatten, i) = Body(M, i)
    BY <2>4 DEF Body, JoinUpTo
  <2> QED
    BY <1>4, <2>2, <2>5
<1>6. n \in D
  OBVIOUS
<1> QED
  BY <1>3, <1>5, <1>6

\* Sequences by their tokens.
LEMMA Tokens ==
  ASSUME NEW S
  PROVE  /\ \A x \in S : <<x>> \in Seq(S) /\ Len(<<x>>) = 1 /\ <<x>>[1] = x
         /\ \A x, y \in S : /\ <<x, y>> \in Seq(S) /\ Len(<<x, y>>) = 2
                           /\ <<x, y>>[1] = x /\ <<x, y>>[2] = y
         /\ \A n \in Nat : \A f \in [1 .. n -> S] : f \in Seq(S) /\ Len(f) = n
OBVIOUS

\* Two sequences put together, by their tokens.
LEMMA Joined ==
  ASSUME NEW W, NEW p \in Seq(W), NEW q \in Seq(W), NEW r \in Seq(W),
         Len(r) = Len(p) + Len(q),
         \A j \in 1 .. Len(p) : r[j] = p[j],
         \A j \in 1 .. Len(q) : r[Len(p) + j] = q[j]
  PROVE  r = p \o q
<1>1. Len(p) \in Nat /\ Len(q) \in Nat
  BY LenProperties
<1>2. /\ p \o q \in Seq(W) /\ Len(p \o q) = Len(p) + Len(q)
      /\ \A j \in 1 .. Len(p) + Len(q) :
           (p \o q)[j] = IF j <= Len(p) THEN p[j] ELSE q[j - Len(p)]
  OBVIOUS
<1>3. ASSUME NEW j \in 1 .. Len(r) PROVE r[j] = (p \o q)[j]
  <2>1. CASE j <= Len(p)
    BY <1>1, <1>2, <2>1
  <2>2. CASE ~(j <= Len(p))
    <3> DEFINE k == j - Len(p)
    <3>1. k \in 1 .. Len(q) /\ j = Len(p) + k
      BY <1>1, <2>2
    <3>2. (p \o q)[j] = q[k]
      BY <1>2, <2>2
    <3> HIDE DEF k
    <3> QED
      BY <3>1, <3>2
  <2> QED
    BY <2>1, <2>2
<1> QED
  BY <1>2, <1>3, SeqEqual

\* The name of a subject of plain words: word for word, but for a ">" at its
\* end, which is two.
Word(token) == IF token = Single THEN "wildcard" ELSE token
Prefix(s, i) == [j \in 1 .. i |-> Word(s[j])]
PlainName(s) ==
  IF Last(s) = Greedy
  THEN [j \in 1 .. Len(s) + 1 |-> IF j < Len(s) THEN Word(s[j])
                                  ELSE IF j = Len(s) THEN "multi" ELSE "wildcard"]
  ELSE Prefix(s, Len(s))

\* What generateConsumerName puts together, and the words it uses.
Pieces(s) == [i \in DOMAIN s |-> IF s[i] = Single THEN <<"wildcard">>
                                 ELSE IF s[i] = Greedy THEN <<"multi", "wildcard">>
                                 ELSE Words(s[i])]
Vocabulary(s) == {Word(s[j]) : j \in 1 .. Len(s)} \cup {"multi"} \cup {"wildcard"}

\* generateConsumerName on plain words (nats.go), piece by piece.
LEMMA PieceFacts ==
  ASSUME NEW s \in Subjects, PlainNames(s)
  PROVE  /\ Pieces(s) \in [1 .. Len(s) -> Seq(Vocabulary(s))]
         /\ \A i \in 1 .. Len(s) :
              /\ s[i] # Greedy => Len(Pieces(s)[i]) = 1 /\ Pieces(s)[i][1] = Word(s[i])
              /\ s[i] = Greedy => /\ i = Len(s) /\ Len(Pieces(s)[i]) = 2
                                  /\ Pieces(s)[i][1] = "multi" /\ Pieces(s)[i][2] = "wildcard"
         /\ \A i \in 1 .. Len(s) : Prefix(s, i) \in Seq(Vocabulary(s)) /\ Len(Prefix(s, i)) = i
         /\ PlainName(s) \in Seq(Vocabulary(s))
         /\ Len(PlainName(s)) = IF Last(s) = Greedy THEN Len(s) + 1 ELSE Len(s)
<1> DEFINE n == Len(s)
           W == Vocabulary(s)
<1>1. s \in Seq(STRING) /\ n \in Nat \ {0} /\ DOMAIN s = 1 .. n
  BY SubjectFacts
<1>2. \A i \in 1 .. n : s[i] = Greedy => i = n
  BY <1>1, SubjectFacts DEF ValidTokens
<1>3. (\A i \in 1 .. n : Word(s[i]) \in W) /\ "multi" \in W /\ "wildcard" \in W
  BY DEF Vocabulary
<1> HIDE DEF W
<1>4. ASSUME NEW i \in 1 .. n, s[i] # Greedy
      PROVE  Pieces(s)[i] \in Seq(W) /\ Len(Pieces(s)[i]) = 1 /\ Pieces(s)[i][1] = Word(s[i])
  <2>1. Pieces(s)[i] = <<Word(s[i])>>
    BY <1>1, <1>4 DEF Pieces, PlainNames, Word
  <2> QED
    BY <1>3, <2>1, Tokens
<1>5. ASSUME NEW i \in 1 .. n, s[i] = Greedy
      PROVE  /\ i = n /\ Pieces(s)[i] \in Seq(W) /\ Len(Pieces(s)[i]) = 2
             /\ Pieces(s)[i][1] = "multi" /\ Pieces(s)[i][2] = "wildcard"
  <2>1. Pieces(s)[i] = <<"multi", "wildcard">>
    BY <1>1, <1>5 DEF Pieces, Single, Greedy
  <2>2. i = n
    BY <1>2, <1>5
  <2> DEFINE a == "multi"
             b == "wildcard"
  <2>3. a \in W /\ b \in W
    BY <1>3
  <2>4. Pieces(s)[i] = <<a, b>>
    BY <2>1
  <2>5. /\ Pieces(s)[i] \in Seq(W) /\ Len(Pieces(s)[i]) = 2
        /\ Pieces(s)[i][1] = a /\ Pieces(s)[i][2] = b
    <3> HIDE DEF a, b
    <3> QED
      BY <2>3, <2>4, Tokens
  <2> QED
    BY <2>2, <2>5
<1>6. Pieces(s) \in [1 .. n -> Seq(W)]
  <2>1. \A i \in 1 .. n : Pieces(s)[i] \in Seq(W)
    BY <1>4, <1>5
  <2>2. Pieces(s) = [i \in 1 .. n |-> Pieces(s)[i]]
    BY <1>1 DEF Pieces
  <2> QED
    BY <2>1, <2>2
<1>7. ASSUME NEW i \in 1 .. n PROVE Prefix(s, i) \in Seq(W) /\ Len(Prefix(s, i)) = i
  <2>1. Prefix(s, i) \in [1 .. i -> W] /\ i \in Nat
    BY <1>1, <1>3 DEF Prefix
  <2> QED
    BY <2>1, Tokens
<1>8. PlainName(s) \in Seq(W) /\ Len(PlainName(s)) = IF Last(s) = Greedy THEN n + 1 ELSE n
  <2>1. CASE Last(s) = Greedy
    <3>1. PlainName(s) \in [1 .. n + 1 -> W]
      BY <1>1, <1>3, <2>1 DEF PlainName
    <3>2. n + 1 \in Nat
      BY <1>1
    <3> QED
      BY <2>1, <3>1, <3>2, Tokens
  <2>2. CASE Last(s) # Greedy
    <3>1. PlainName(s) = Prefix(s, n) /\ n \in 1 .. n
      BY <1>1, <2>2 DEF PlainName
    <3> QED
      BY <1>7, <2>2, <3>1
  <2> QED
    BY <2>1, <2>2
<1> QED
  BY <1>4, <1>5, <1>6, <1>7, <1>8 DEF W

\* generateConsumerName on plain words.
LEMMA NameIs ==
  ASSUME NEW s \in Subjects, PlainNames(s)
  PROVE  generateConsumerName(s) = PlainName(s)
<1> DEFINE n == Len(s)
           W == Vocabulary(s)
           Part(i) == IF i = n THEN PlainName(s) ELSE Prefix(s, i)
           M == [i \in 1 .. n |-> Part(i)]
<1>1. s \in Seq(STRING) /\ n \in Nat \ {0} /\ DOMAIN s = 1 .. n
  BY SubjectFacts
<1>2. /\ Pieces(s) \in [1 .. n -> Seq(W)]
      /\ \A i \in 1 .. n : Prefix(s, i) \in Seq(W) /\ Len(Prefix(s, i)) = i
      /\ PlainName(s) \in Seq(W)
      /\ Len(PlainName(s)) = IF Last(s) = Greedy THEN n + 1 ELSE n
  BY PieceFacts
<1>3. ASSUME NEW i \in 1 .. n
      PROVE  /\ s[i] # Greedy => Len(Pieces(s)[i]) = 1 /\ Pieces(s)[i][1] = Word(s[i])
             /\ s[i] = Greedy => /\ i = n /\ Len(Pieces(s)[i]) = 2
                                 /\ Pieces(s)[i][1] = "multi" /\ Pieces(s)[i][2] = "wildcard"
  BY PieceFacts
<1>4. n \in 1 .. n /\ Last(s) = s[n]
  BY <1>1 DEF Last
<1>5. ASSUME NEW i \in 1 .. n PROVE Part(i) \in Seq(W)
  BY <1>2
<1>6. ASSUME NEW i \in 1 .. n, s[i] # Greedy
      PROVE  Part(i) = Prefix(s, i)
  BY <1>4, <1>6 DEF PlainName
<1>7. ASSUME NEW i \in 1 .. n, NEW j \in 1 .. i PROVE Prefix(s, i)[j] = Word(s[j])
  BY DEF Prefix
<1>8. ASSUME NEW i \in 1 .. n, i = 1 PROVE Part(i) = Pieces(s)[i]
  <2>1. Pieces(s)[i] \in Seq(W)
    BY <1>2
  <2>2. CASE s[i] # Greedy
    <3>1. Part(i) = Prefix(s, i) /\ Len(Prefix(s, i)) = 1 /\ Prefix(s, i)[1] = Word(s[1])
      <4>1. 1 \in 1 .. i
        BY <1>8
      <4> QED
        BY <1>2, <1>6, <1>7, <1>8, <2>2, <4>1
    <3>2. Len(Pieces(s)[i]) = 1 /\ Pieces(s)[i][1] = Word(s[1])
      BY <1>3, <1>8, <2>2
    <3>3. \A j \in 1 .. 1 : j = 1
      OBVIOUS
    <3>4. \A j \in 1 .. Len(Part(i)) : Part(i)[j] = Pieces(s)[i][j]
      BY <3>1, <3>2, <3>3
    <3>5. Part(i) \in Seq(W) /\ Len(Part(i)) = Len(Pieces(s)[i])
      BY <1>5, <3>1, <3>2
    <3> HIDE DEF Part
    <3> QED
      BY <2>1, <3>4, <3>5, SeqEqual
  <2>3. CASE s[i] = Greedy
    <3>1. n = 1 /\ Last(s) = Greedy /\ Part(i) = PlainName(s)
      BY <1>3, <1>4, <1>8, <2>3
    <3>2. PlainName(s) = [j \in 1 .. 2 |-> IF j < 1 THEN Word(s[j]) ELSE IF j = 1 THEN "multi" ELSE "wildcard"]
      BY <3>1 DEF PlainName
    <3>3. PlainName(s)[1] = "multi" /\ PlainName(s)[2] = "wildcard" /\ \A j \in 1 .. 2 : j = 1 \/ j = 2
      BY <3>2
    <3>4. Len(Pieces(s)[i]) = 2 /\ Pieces(s)[i][1] = "multi" /\ Pieces(s)[i][2] = "wildcard"
      BY <1>3, <2>3
    <3>5. Len(PlainName(s)) = 2
      BY <1>2, <3>1
    <3>6. \A j \in 1 .. Len(PlainName(s)) : PlainName(s)[j] = Pieces(s)[i][j]
      BY <3>3, <3>4, <3>5
    <3> HIDE DEF Part
    <3> QED
      BY <1>2, <2>1, <3>1, <3>4, <3>5, <3>6, SeqEqual
  <2> QED
    BY <2>2, <2>3
<1>9. ASSUME NEW i \in 1 .. n, i # 1 PROVE Part(i) = Part(i - 1) \o Pieces(s)[i]
  <2> DEFINE k == i - 1
             q == Pieces(s)[i]
             r == Part(i)
             p == Prefix(s, k)
  <2>1. k \in 1 .. n /\ k # n /\ i = k + 1 /\ k \in Nat
    BY <1>1, <1>9
  <2>2. Part(k) = p /\ p \in Seq(W) /\ Len(p) = k
    BY <1>2, <2>1
  <2>3. q \in Seq(W) /\ r \in Seq(W)
    BY <1>2, <1>5
  <2>4. CASE s[i] # Greedy
    <3>1. r = Prefix(s, i) /\ Len(r) = k + 1
      BY <1>2, <1>6, <2>1, <2>4
    <3>2. Len(q) = 1 /\ q[1] = Word(s[i])
      BY <1>3, <2>4
    <3>3. ASSUME NEW j \in 1 .. k PROVE r[j] = p[j]
      <4>1. j \in 1 .. i
        BY <2>1
      <4>2. p[j] = Word(s[j])
        BY <1>7, <2>1
      <4>3. r[j] = Word(s[j])
        BY <1>7, <3>1, <4>1
      <4> QED
        BY <4>2, <4>3
    <3>4. r[k + 1] = q[1]
      <4>1. i \in 1 .. i
        BY <1>1
      <4>2. r[i] = Word(s[i])
        BY <1>7, <3>1, <4>1
      <4> QED
        BY <2>1, <3>2, <4>2
    <3>5. \A j \in 1 .. 1 : j = 1
      OBVIOUS
    <3> HIDE DEF k, p, q, r
    <3>6. /\ Len(r) = Len(p) + Len(q)
          /\ \A j \in 1 .. Len(p) : r[j] = p[j]
          /\ \A j \in 1 .. Len(q) : r[Len(p) + j] = q[j]
      BY <2>2, <3>1, <3>2, <3>3, <3>4, <3>5
    <3>7. r = p \o q
      BY <2>2, <2>3, <3>6, Joined
    <3> QED
      BY <2>2, <3>7 DEF k, q, r
  <2>5. CASE s[i] = Greedy
    <3>1. i = n /\ Last(s) = Greedy /\ r = PlainName(s) /\ Len(r) = k + 2
      BY <1>2, <1>3, <1>4, <2>1, <2>5
    <3>2. Len(q) = 2 /\ q[1] = "multi" /\ q[2] = "wildcard"
      BY <1>3, <2>5
    <3>3. ASSUME NEW j \in 1 .. n + 1
          PROVE  r[j] = IF j < n THEN Word(s[j]) ELSE IF j = n THEN "multi" ELSE "wildcard"
      BY <3>1 DEF PlainName
    <3>4. ASSUME NEW j \in 1 .. k PROVE r[j] = p[j]
      <4>1. j \in 1 .. n + 1 /\ j < n
        <5>1. n = k + 1 /\ k \in Nat
          BY <2>1, <3>1
        <5> HIDE DEF n, k
        <5> QED
          BY <5>1
      <4>2. p[j] = Word(s[j])
        BY <1>7, <2>1
      <4>3. r[j] = Word(s[j])
        BY <3>3, <4>1
      <4> QED
        BY <4>2, <4>3
    <3>5. r[k + 1] = q[1] /\ r[k + 2] = q[2]
      <4>0. n = k + 1 /\ k \in Nat
        BY <2>1, <3>1
      <4>1. k + 1 = n /\ k + 2 = n + 1 /\ n \in 1 .. n + 1 /\ n + 1 \in 1 .. n + 1
        <5> HIDE DEF n, k
        <5> QED
          BY <4>0
      <4>2. ~(n < n) /\ ~(n + 1 < n) /\ n + 1 # n
        <5> HIDE DEF n, k
        <5> QED
          BY <4>0
      <4>3. r[n] = "multi" /\ r[n + 1] = "wildcard"
        <5> HIDE DEF r, n
        <5> QED
          BY <3>3, <4>1, <4>2
      <4> QED
        BY <3>2, <4>1, <4>3
    <3>6. \A j \in 1 .. 2 : j = 1 \/ j = 2
      OBVIOUS
    <3> HIDE DEF k, p, q, r
    <3>7. /\ Len(r) = Len(p) + Len(q)
          /\ \A j \in 1 .. Len(p) : r[j] = p[j]
          /\ \A j \in 1 .. Len(q) : r[Len(p) + j] = q[j]
      BY <2>2, <3>1, <3>2, <3>4, <3>5, <3>6
    <3>8. r = p \o q
      BY <2>2, <2>3, <3>7, Joined
    <3> QED
      BY <2>2, <3>8 DEF k, q, r
  <2> QED
    BY <2>4, <2>5
<1>10. M \in [1 .. n -> Seq(W)] /\ M[n] = PlainName(s)
  BY <1>4, <1>5
<1>11. \A i \in 1 .. n : M[i] = IF i = 1 THEN Pieces(s)[i] ELSE M[i - 1] \o Pieces(s)[i]
  <2>1. \A i \in 1 .. n : M[i] = Part(i)
    OBVIOUS
  <2>2. \A i \in 1 .. n : i # 1 => i - 1 \in 1 .. n
    BY <1>1
  <2> HIDE DEF M, Part
  <2> QED
    BY <1>8, <1>9, <2>1, <2>2
<1>12. Len(Pieces(s)) = n
  BY <1>1, <1>2, Tokens
<1>13. FlattenSeq(Pieces(s)) = M[n]
  <2> DEFINE S == Seq(W)
             seqs == Pieces(s)
  <2>1. /\ M \in [1 .. n -> S] /\ n \in Nat \ {0} /\ Len(seqs) = n
        /\ \A i \in 1 .. n : M[i] = JoinUpTo(seqs, M, i)
    BY <1>1, <1>10, <1>11, <1>12 DEF JoinUpTo
  <2> HIDE DEF S, M, n, W, seqs
  <2>2. FlattenSeq(seqs) = M[n]
    BY <2>1, FlattenIs
  <2> QED
    BY <2>2 DEF seqs
<1>14. generateConsumerName(s) = FlattenSeq(Pieces(s))
  BY DEF generateConsumerName, Pieces
<1> QED
  BY <1>10, <1>13, <1>14

\* PlainName by its words.
LEMMA PlainWords ==
  ASSUME NEW s, NEW n \in Nat \ {0}, Len(s) = n
  PROVE  /\ Last(s) = Greedy =>
              /\ DOMAIN PlainName(s) = 1 .. n + 1
              /\ \A i \in 1 .. n : i # n => PlainName(s)[i] = Word(s[i])
              /\ PlainName(s)[n] = "multi"
         /\ Last(s) # Greedy =>
              /\ DOMAIN PlainName(s) = 1 .. n
              /\ \A i \in 1 .. n : PlainName(s)[i] = Word(s[i])
<1>1. CASE Last(s) = Greedy
  <2> DEFINE Spell(j) == IF j < n THEN Word(s[j]) ELSE IF j = n THEN "multi" ELSE "wildcard"
  <2>1. PlainName(s) = [j \in 1 .. n + 1 |-> Spell(j)]
    BY <1>1 DEF PlainName
  <2>2. ~(n < n) /\ \A i \in 1 .. n : i \in 1 .. n + 1 /\ (i # n => i < n)
    OBVIOUS
  <2>3. (\A i \in 1 .. n : i # n => Spell(i) = Word(s[i])) /\ Spell(n) = "multi"
    BY <2>2
  <2>4. n \in 1 .. n
    OBVIOUS
  <2> HIDE DEF Spell
  <2> QED
    BY <1>1, <2>1, <2>2, <2>3, <2>4
<1>2. CASE Last(s) # Greedy
  BY <1>2 DEF PlainName, Prefix
<1> QED
  BY <1>1, <1>2

\* Subjects of plain words have names of their own: the word before the last
\* tells ">" from "*".
LEMMA NamesDistinct ==
  ASSUME NEW s \in Subjects, NEW t \in Subjects, PlainNames(s), PlainNames(t),
         generateConsumerName(s) = generateConsumerName(t)
  PROVE  s = t
<1> DEFINE Reserved == {"multi"} \cup {"wildcard"}
           Good(x) == /\ x \in Seq(STRING) /\ Len(x) \in Nat \ {0}
                      /\ \A i \in 1 .. Len(x) : x[i] \notin Reserved /\ Word(x[i]) # "multi"
<1>1. PlainName(s) = PlainName(t)
  BY NameIs
<1>2. ASSUME NEW x \in Subjects, PlainNames(x) PROVE Good(x)
  <2>1. x \in Seq(STRING) /\ Len(x) \in Nat \ {0} /\ DOMAIN x = 1 .. Len(x)
    BY SubjectFacts
  <2>2. \A i \in 1 .. Len(x) : x[i] \notin Reserved
    BY <1>2, <2>1 DEF PlainNames
  <2>3. \A y : y \notin Reserved => Word(y) # "multi"
    BY DEF Word
  <2> QED
    BY <2>1, <2>2, <2>3
<1>3. Good(s) /\ Good(t)
  BY <1>2
<1>4. \A x, y : x \notin Reserved /\ y \notin Reserved /\ Word(x) = Word(y) => x = y
  BY DEF Word
<1> HIDE DEF Reserved
<1>5. ASSUME NEW a \in Nat, NEW b \in Nat, 1 .. a = 1 .. b PROVE a = b
  <2>1. a # 0 => a \in 1 .. a
    OBVIOUS
  <2>2. b # 0 => b \in 1 .. b
    OBVIOUS
  <2>3. (a # 0 => a \in 1 .. b) /\ (b # 0 => b \in 1 .. a)
    BY <1>5, <2>1, <2>2
  <2> QED
    BY <2>3
<1>6. ASSUME NEW n \in Nat, Len(s) = n, Len(t) = n,
             \A i \in 1 .. n : s[i] = t[i]
      PROVE  s = t
  BY <1>3, <1>6, SeqEqual
<1>7. CASE Last(s) = Greedy /\ Last(t) = Greedy
  <2>1. PICK a \in Nat \ {0} : a = Len(s)
    BY <1>3
  <2>2. PICK b \in Nat \ {0} : b = Len(t)
    BY <1>3
  <2>3. DOMAIN PlainName(s) = 1 .. a + 1 /\ DOMAIN PlainName(t) = 1 .. b + 1
    BY <1>7, <2>1, <2>2, PlainWords
  <2>4. a = b
    <3>1. a + 1 \in Nat /\ b + 1 \in Nat
      OBVIOUS
    <3>2. a + 1 = b + 1
      BY <1>1, <1>5, <2>3, <3>1
    <3> QED
      BY <3>2
  <2>5. ASSUME NEW i \in 1 .. a, i # a PROVE s[i] = t[i]
    <3>1. PlainName(s)[i] = Word(s[i]) /\ PlainName(t)[i] = Word(t[i])
      BY <1>7, <2>1, <2>2, <2>4, <2>5, PlainWords
    <3>2. s[i] \notin Reserved /\ t[i] \notin Reserved
      BY <1>3, <2>1, <2>2, <2>4
    <3> QED
      BY <1>1, <1>4, <3>1, <3>2
  <2>6. s[a] = t[a]
    BY <1>7, <2>1, <2>2, <2>4 DEF Last
  <2> QED
    BY <1>6, <2>1, <2>2, <2>4, <2>5, <2>6
<1>8. CASE Last(s) # Greedy /\ Last(t) # Greedy
  <2>1. PICK a \in Nat \ {0} : a = Len(s)
    BY <1>3
  <2>2. PICK b \in Nat \ {0} : b = Len(t)
    BY <1>3
  <2>3. DOMAIN PlainName(s) = 1 .. a /\ DOMAIN PlainName(t) = 1 .. b
    BY <1>8, <2>1, <2>2, PlainWords
  <2>4. a = b
    BY <1>1, <1>5, <2>3
  <2>5. ASSUME NEW i \in 1 .. a PROVE s[i] = t[i]
    <3>1. PlainName(s)[i] = Word(s[i]) /\ PlainName(t)[i] = Word(t[i])
      BY <1>8, <2>1, <2>2, <2>4, PlainWords
    <3>2. s[i] \notin Reserved /\ t[i] \notin Reserved
      BY <1>3, <2>1, <2>2, <2>4
    <3> QED
      BY <1>1, <1>4, <3>1, <3>2
  <2> QED
    BY <1>6, <2>1, <2>2, <2>4, <2>5
<1>9. ASSUME NEW x, NEW y, Good(x), Good(y), PlainName(x) = PlainName(y),
             Last(x) = Greedy, Last(y) # Greedy
      PROVE  FALSE
  <2>1. PICK a \in Nat \ {0} : a = Len(x)
    BY <1>9
  <2>2. PICK b \in Nat \ {0} : b = Len(y)
    BY <1>9
  <2>3. DOMAIN PlainName(x) = 1 .. a + 1 /\ PlainName(x)[a] = "multi"
    BY <1>9, <2>1, PlainWords
  <2>4. DOMAIN PlainName(y) = 1 .. b /\ \A i \in 1 .. b : PlainName(y)[i] = Word(y[i])
    BY <1>9, <2>2, PlainWords
  <2>5. a \in 1 .. a + 1
    OBVIOUS
  <2>6. a \in 1 .. b
    BY <1>9, <2>3, <2>4, <2>5
  <2>7. Word(y[a]) # "multi"
    BY <1>9, <2>2, <2>6
  <2> QED
    BY <1>9, <2>3, <2>4, <2>6, <2>7
<1> QED
  BY <1>1, <1>3, <1>7, <1>8, <1>9

-----------------------------------------------------------------------------
\* What is in effect has passed the loader.
InEffect(r) ==
  /\ "def" \in DOMAIN r
  /\ r.def \in RuleSources /\ r.def.subject \in Subjects
  /\ Servable(r.def)

RulesInEffect ==
  DOMAIN rules = BucketKeys /\ \A k \in BucketKeys : rules[k] # NoRule => InEffect(rules[k])

ServerTypeOK ==
  /\ server \subseteq Ids /\ known \subseteq Ids
  /\ \A d \in durable : \E i \in Ids, s \in Subjects : d = Consumer(i, s)
  /\ changes \in 0 .. MaxChanges /\ moved \in BOOLEAN

BrokerTypeOK ==
  /\ consumers \subseteq Subjects
  /\ subs \in [Subjects -> Ids \cup {0}]
  /\ start.pc = "idle" \/ start.subject \in Subjects
  /\ start \in [pc : {"idle"} \cup {"create"} \cup {"add"}, subject : Seq(STRING)]
  /\ DOMAIN failed = Subjects

\* The consumer that AddSubscription will look for.
Made(s) == \E d \in durable : d.stream = FindStreamForSubject(known, s) /\ d.name = generateConsumerName(s)

\* As long as nothing comes or goes on the server, what the broker remembers is so.
Remembered ==
  /\ start.pc = "add" => start.subject \in consumers
  /\ ~moved => known = server
  /\ ~moved => \A s \in consumers : Made(s)
  /\ \A s \in Subjects : failed[s] = "no consumer" => moved

\* The inductive invariant.
HotInv == RulesInEffect /\ ServerTypeOK /\ BrokerTypeOK /\ Remembered

\* A start begins with the consumer, for a trigger subject.
LEMMA StartTypes ==
  ASSUME NEW s \in Subjects
  PROVE  /\ Starts(s) \in [pc : {"idle"} \cup {"create"} \cup {"add"}, subject : Seq(STRING)]
         /\ Starts(s).pc # "add"
         /\ Starts(s).pc = "idle" \/ Starts(s).subject \in Subjects
         /\ Idle \in [pc : {"idle"} \cup {"create"} \cup {"add"}, subject : Seq(STRING)]
         /\ Idle.pc = "idle"
<1>1. s \in Seq(STRING) /\ <<>> \in Seq(STRING)
  BY SubjectFacts
<1>2. /\ Idle \in [pc : {"idle"} \cup {"create"} \cup {"add"}, subject : Seq(STRING)]
      /\ Idle.pc = "idle"
  BY <1>1 DEF Idle
<1> QED
  BY <1>1, <1>2 DEF Starts

\* The broker starts in a state of the invariant (Discover and NewNATSBroker).
LEMMA HotInitInv == HotInit => HotInv
<1> SUFFICES ASSUME HotInit PROVE HotInv
  OBVIOUS
<1>1. StreamInit
  BY DEF HotInit
<1>2. ServerTypeOK
  <2>1. server \subseteq Ids /\ known \subseteq Ids
    BY <1>1 DEF StreamInit
  <2>3. moved \in BOOLEAN
    BY <1>1 DEF StreamInit
  <2>4. durable = {}
    BY <1>1 DEF StreamInit
  <2>2. changes \in 0 .. MaxChanges
    BY <1>1, StreamAssumption DEF StreamInit
  <2> QED
    BY <2>1, <2>2, <2>3, <2>4 DEF ServerTypeOK
<1>3. BrokerTypeOK
  <2>1. <<>> \in Seq(STRING)
    OBVIOUS
  <2> QED
    BY <1>1, <2>1 DEF StreamInit, BrokerTypeOK, Idle
<1>4. Remembered
  BY <1>1 DEF StreamInit, Remembered, Idle
<1>5. RulesInEffect
  BY DEF HotInit, RulesInEffect
<1> QED
  BY <1>2, <1>3, <1>4, <1>5 DEF HotInv

\* Operators create and delete streams, and delete consumers.
LEMMA StreamsChange ==
  ASSUME HotInv, UNCHANGED <<mode, rules>>,
         \/ \E i \in Ids : CreateStream(i) \/ DeleteStream(i)
         \/ \E d \in durable : DeleteConsumer(d)
  PROVE  HotInv'
<1>1. UNCHANGED <<known, consumers, subs, start, failed>> /\ moved' = TRUE /\ changes < MaxChanges
      /\ changes' = changes + 1
  BY DEF CreateStream, DeleteStream, DeleteConsumer
<1>2. server' \subseteq Ids /\ durable' \subseteq durable
  BY DEF CreateStream, DeleteStream, DeleteConsumer, HotInv, ServerTypeOK
<1>3. changes' \in 0 .. MaxChanges
  BY <1>1, StreamAssumption DEF HotInv, ServerTypeOK
<1>4. ServerTypeOK'
  BY <1>1, <1>2, <1>3 DEF HotInv, ServerTypeOK, Consumer
<1>5. BrokerTypeOK'
  BY <1>1 DEF HotInv, BrokerTypeOK
<1>6. Remembered'
  BY <1>1 DEF HotInv, Remembered
<1>7. RulesInEffect'
  BY DEF HotInv, RulesInEffect, InEffect
<1> QED
  BY <1>4, <1>5, <1>6, <1>7 DEF HotInv

\* CreateConsumerForSubject (nats.go).
LEMMA ConsumerStep ==
  ASSUME HotInv, SkipConsumer \/ CreateConsumer, UNCHANGED <<mode, rules>>
  PROVE  HotInv'
<1> DEFINE s == start.subject
           i == FindStreamForSubject(known, s)
           P == {"idle"} \cup {"create"} \cup {"add"}
<1>1. /\ start.pc = "create" /\ start' = [start EXCEPT !.pc = "add"]
      /\ UNCHANGED <<server, changes, moved, known, subs, failed>>
  BY DEF SkipConsumer, CreateConsumer
<1>2. s \in Subjects /\ start \in [pc : P, subject : Seq(STRING)]
  BY <1>1 DEF HotInv, BrokerTypeOK
<1>3. start' \in [pc : P, subject : Seq(STRING)] /\ start'.subject = s /\ start'.pc = "add"
  BY <1>1, <1>2
<1>4. /\ s \in consumers'
      /\ consumers' = consumers \/ (/\ consumers' = consumers \cup {s} /\ Consumer(i, s) \in durable')
      /\ \A d \in durable' : d \in durable \/ (d = Consumer(i, s) /\ i \in server)
      /\ \A d \in durable : d \in durable' \/ (/\ d.stream = i /\ d.name = generateConsumerName(s)
                                               /\ Consumer(i, s) \in durable')
  BY DEF SkipConsumer, CreateConsumer, Updated
<1> HIDE DEF P
<1>5. BrokerTypeOK'
  <2>1. start'.subject \in Subjects /\ consumers' \subseteq Subjects
    BY <1>2, <1>3, <1>4 DEF HotInv, BrokerTypeOK
  <2> QED
    BY <1>1, <1>3, <2>1 DEF HotInv, BrokerTypeOK, P
<1>6. ServerTypeOK'
  <2>1. \A d \in durable' : \E j \in Ids, t \in Subjects : d = Consumer(j, t)
    BY <1>2, <1>4 DEF HotInv, ServerTypeOK
  <2> QED
    BY <1>1, <2>1 DEF HotInv, ServerTypeOK
<1>7. ASSUME ~moved, NEW t \in consumers' PROVE Made(t)'
  <2>1. Consumer(i, s).stream = i /\ Consumer(i, s).name = generateConsumerName(s)
    BY DEF Consumer
  <2> HIDE DEF i, s
  <2>2. Made(t)' = \E d \in durable' : d.stream = FindStreamForSubject(known, t) /\ d.name = generateConsumerName(t)
    BY <1>1 DEF Made
  <2>3. CASE t \in consumers
    <3>1. PICK d \in durable : d.stream = FindStreamForSubject(known, t) /\ d.name = generateConsumerName(t)
      BY <1>7, <2>3 DEF HotInv, Remembered, Made
    <3> QED
      BY <1>4, <2>1, <2>2, <3>1
  <2>4. CASE t \notin consumers
    <3>1. t = s /\ Consumer(i, s) \in durable'
      BY <1>4, <1>7, <2>4
    <3> QED
      BY <2>1, <2>2, <3>1 DEF i
  <2> QED
    BY <2>3, <2>4
<1>8. Remembered'
  BY <1>1, <1>3, <1>4, <1>7 DEF HotInv, Remembered
<1>9. RulesInEffect'
  BY DEF HotInv, RulesInEffect, InEffect
<1> QED
  BY <1>5, <1>6, <1>8, <1>9 DEF HotInv

\* A call that times out, whatever the server made of it (nats.go:237-241).
LEMMA TimeoutStep ==
  ASSUME HotInv, StartTimesOut, UNCHANGED <<mode, rules>>
  PROVE  HotInv'
<1> DEFINE s == start.subject
           i == FindStreamForSubject(known, s)
<1>1. /\ start' = Idle /\ failed' = [failed EXCEPT ![s] = "timeout"] /\ start.pc # "idle"
      /\ UNCHANGED <<server, moved, known, consumers, subs>>
  BY DEF StartTimesOut, StartFails
<1>2. s \in Subjects
  BY <1>1 DEF HotInv, BrokerTypeOK
<1>3. /\ \A d \in durable' : d \in durable \/ (d = Consumer(i, s) /\ i \in server)
      /\ \A d \in durable : d \in durable' \/ (/\ d.stream = i /\ d.name = generateConsumerName(s)
                                               /\ Consumer(i, s) \in durable')
  BY DEF StartTimesOut, Updated
<1>4. BrokerTypeOK'
  <2>1. Idle \in [pc : {"idle"} \cup {"create"} \cup {"add"}, subject : Seq(STRING)] /\ Idle.pc = "idle"
    BY <1>2, StartTypes
  <2> QED
    BY <1>1, <2>1 DEF HotInv, BrokerTypeOK
<1>5. ServerTypeOK'
  <2>1. \A d \in durable' : \E j \in Ids, t \in Subjects : d = Consumer(j, t)
    BY <1>2, <1>3 DEF HotInv, ServerTypeOK
  <2>2. changes' \in 0 .. MaxChanges
    BY StreamAssumption DEF StartTimesOut, HotInv, ServerTypeOK
  <2> QED
    BY <1>1, <2>1, <2>2 DEF HotInv, ServerTypeOK
<1>6. ASSUME ~moved, NEW t \in consumers PROVE Made(t)'
  <2>1. Consumer(i, s).stream = i /\ Consumer(i, s).name = generateConsumerName(s)
    BY DEF Consumer
  <2> HIDE DEF i, s
  <2>2. Made(t)' = \E d \in durable' : d.stream = FindStreamForSubject(known, t) /\ d.name = generateConsumerName(t)
    BY <1>1 DEF Made
  <2>3. PICK d \in durable : d.stream = FindStreamForSubject(known, t) /\ d.name = generateConsumerName(t)
    BY <1>6 DEF HotInv, Remembered, Made
  <2> QED
    BY <1>3, <2>1, <2>2, <2>3
<1> HIDE DEF s, i
<1>7. Remembered'
  <2>1. Idle.pc # "add"
    BY DEF Idle
  <2>2. \A t \in Subjects : failed'[t] = "no consumer" => moved
    BY <1>1, <1>2 DEF HotInv, Remembered, BrokerTypeOK
  <2> QED
    BY <1>1, <1>6, <2>1, <2>2 DEF HotInv, Remembered
<1>8. RulesInEffect'
  BY DEF HotInv, RulesInEffect, InEffect
<1> QED
  BY <1>4, <1>5, <1>7, <1>8 DEF HotInv

\* AddSubscription and the two ways a start is refused (nats.go, subscription.go).
LEMMA StartEnds ==
  ASSUME HotInv, CreateConsumerFails \/ AddSubscription \/ AddSubscriptionFails,
         UNCHANGED <<mode, rules>>
  PROVE  HotInv'
<1> DEFINE s == start.subject
           i == FindStreamForSubject(known, s)
<1>1. start' = Idle /\ UNCHANGED <<server, durable, changes, moved, known, consumers>>
  BY DEF CreateConsumerFails, AddSubscription, AddSubscriptionFails, StartFails
<1>2. s \in Subjects
  BY DEF HotInv, BrokerTypeOK, CreateConsumerFails, AddSubscription, AddSubscriptionFails
<1>3. subs' = subs \/ (subs' = [subs EXCEPT ![s] = i])
  BY DEF CreateConsumerFails, AddSubscription, AddSubscriptionFails, StartFails
<1>4. i \in Ids \cup {0}
  BY <1>2, FoundFor DEF HotInv, ServerTypeOK
<1>5. PICK why : failed' = [failed EXCEPT ![s] = why] /\ (why = "no consumer" => AddSubscriptionFails)
  <2>1. CASE CreateConsumerFails
    BY <2>1 DEF CreateConsumerFails, StartFails
  <2>2. CASE AddSubscription
    BY <2>2 DEF AddSubscription
  <2>3. CASE AddSubscriptionFails
    BY <2>3 DEF AddSubscriptionFails, StartFails
  <2> QED
    BY <2>1, <2>2, <2>3
<1>6. AddSubscriptionFails => start.pc = "add" /\ ~Made(s)
  BY DEF AddSubscriptionFails, Made
<1>7. why = "no consumer" => moved
  BY <1>5, <1>6 DEF HotInv, Remembered
<1> HIDE DEF s, i
<1>8. BrokerTypeOK'
  <2>1. subs' \in [Subjects -> Ids \cup {0}]
    BY <1>3, <1>4 DEF HotInv, BrokerTypeOK
  <2>2. Idle \in [pc : {"idle"} \cup {"create"} \cup {"add"}, subject : Seq(STRING)] /\ Idle.pc = "idle"
    BY <1>2, StartTypes
  <2> QED
    BY <1>1, <1>5, <2>1, <2>2 DEF HotInv, BrokerTypeOK
<1>9. ServerTypeOK'
  BY <1>1 DEF HotInv, ServerTypeOK, Consumer
<1>10. Remembered'
  <2>1. Idle.pc # "add"
    BY DEF Idle
  <2>2. \A t \in Subjects : failed'[t] = "no consumer" => moved
    BY <1>5, <1>7 DEF HotInv, Remembered, BrokerTypeOK
  <2> QED
    BY <1>1, <2>1, <2>2 DEF HotInv, Remembered, Made
<1>11. RulesInEffect'
  BY DEF HotInv, RulesInEffect, InEffect
<1> QED
  BY <1>8, <1>9, <1>10, <1>11 DEF HotInv

-----------------------------------------------------------------------------
\* What the loader returns may come into effect.
LEMMA ParsedInEffect ==
  ASSUME NEW r \in SubjectRules \cup Samples, NEW loaded \in Parsed(r)
  PROVE  InEffect(loaded) /\ JetStreamSubjects(loaded) \subseteq Subjects
<1>1. PICK d \in ParseAndValidate(r.def, mode = "file") : loaded = [r EXCEPT !.def = d]
  BY DEF Parsed
<1>2. "def" \in DOMAIN r /\ r.def \in RuleSources /\ Writable(r.def) /\ r.def.subject \in Subjects
  BY RuleAssumption
<1>3. "def" \in DOMAIN loaded /\ loaded.def = d
  BY <1>1, <1>2
<1>4. (mode = "file") \in BOOLEAN
  OBVIOUS
<1>5. /\ d \in RuleSources /\ d.subject = r.def.subject
      /\ Servable(d)
  BY <1>1, <1>2, <1>4, LoaderSound
<1>6. InEffect(loaded)
  BY <1>2, <1>3, <1>5 DEF InEffect
<1> QED
  BY <1>6 DEF InEffect, JetStreamSubjects

\* A key gets the rule it is given, and no other key changes.
LEMMA RulePlaced ==
  ASSUME RulesInEffect, NEW k \in BucketKeys, NEW r, r = NoRule \/ InEffect(r),
         rules' = [rules EXCEPT ![k] = r]
  PROVE  RulesInEffect'
<1>1. rules'[k] = r /\ \A j \in BucketKeys : j # k => rules'[j] = rules[j]
  BY DEF RulesInEffect
<1> QED
  BY <1>1 DEF RulesInEffect, InEffect

\* The bound on changes is kept.
LEMMA BudgetKept ==
  ASSUME ServerTypeOK, NEW r, Budget(r)
  PROVE  changes' \in 0 .. MaxChanges /\ start = Idle
<1>1. CASE changes' = MaxChanges
  BY <1>1, StreamAssumption DEF Budget
<1>2. CASE changes' = changes + 1
  BY <1>2, StreamAssumption DEF Budget, ServerTypeOK
<1> QED
  BY <1>1, <1>2 DEF Budget

\* A source that comes leaves the server and the broker's consumers alone.
LEMMA SourceStep ==
  ASSUME HotInv, changes' \in 0 .. MaxChanges, known' \in {server} \cup {known},
         start' = Idle \/ \E s \in Subjects : start' = Starts(s),
         RulesInEffect', subs' \in [Subjects -> Ids \cup {0}],
         UNCHANGED <<server, durable, moved, consumers, failed>>
  PROVE  HotInv'
<1>1. ServerTypeOK'
  BY DEF HotInv, ServerTypeOK, Consumer
<1>2. /\ start' \in [pc : {"idle"} \cup {"create"} \cup {"add"}, subject : Seq(STRING)]
      /\ start'.pc # "add" /\ (start'.pc = "idle" \/ start'.subject \in Subjects)
  <2>1. CASE start' = Idle
    <3>1. <<>> \in Seq(STRING)
      OBVIOUS
    <3> QED
      BY <2>1, <3>1 DEF Idle
  <2>2. CASE start' # Idle
    BY <2>2, StartTypes
  <2> QED
    BY <2>1, <2>2
<1>3. BrokerTypeOK'
  BY <1>2 DEF HotInv, BrokerTypeOK
<1>4. ~moved => known' = known
  BY DEF HotInv, Remembered
<1>5. Remembered'
  <2>1. \A s : ~moved => Made(s)' = Made(s)
    BY <1>4 DEF Made
  <2> QED
    BY <1>2, <1>4, <2>1 DEF HotInv, Remembered
<1> QED
  BY <1>1, <1>3, <1>5 DEF HotInv

\* A file's rule is loaded (main.go and the broker at startup).
LEMMA LoadKeeps ==
  ASSUME HotInv, NEW k \in BucketKeys, NEW r \in SubjectRules \cup Samples, Load(k, r)
  PROVE  HotInv'
<1>1. PICK loaded \in Parsed(r) :
        /\ rules' = [rules EXCEPT ![k] = loaded]
        /\ start' \in {Starts(s) : s \in JetStreamSubjects(loaded)}
                        \cup (IF JetStreamSubjects(loaded) = {} THEN {Idle} ELSE {})
  BY DEF Load
<1>2. InEffect(loaded) /\ JetStreamSubjects(loaded) \subseteq Subjects
  BY ParsedInEffect
<1>3. RulesInEffect'
  BY <1>1, <1>2, RulePlaced DEF HotInv
<1>4. start' = Idle \/ \E s \in Subjects : start' = Starts(s)
  BY <1>1, <1>2
<1>5. changes' \in 0 .. MaxChanges
  BY BudgetKept DEF Load, HotInv
<1>6. UNCHANGED <<server, durable, moved, known, consumers, subs, failed>>
  BY DEF Load
<1>7. subs' \in [Subjects -> Ids \cup {0}] /\ known' \in {server} \cup {known}
  BY <1>6 DEF HotInv, BrokerTypeOK
<1> QED
  BY <1>3, <1>4, <1>5, <1>6, <1>7, SourceStep

\* handleRulePut (rule_kv.go), of a rule or of a value the loader refuses.
LEMMA PutKeeps ==
  ASSUME HotInv, NEW k \in BucketKeys, NEW r \in SubjectRules \cup Samples,
         Put(k, r) \/ PutInvalid(k, r)
  PROVE  HotInv'
<1>1. changes' \in 0 .. MaxChanges /\ start = Idle
  BY BudgetKept DEF Put, PutInvalid, HotInv
<1>2. UNCHANGED <<server, durable, moved, consumers, subs, failed>>
  BY DEF Put, PutInvalid
<1>3. subs' \in [Subjects -> Ids \cup {0}]
  BY <1>2 DEF HotInv, BrokerTypeOK
<1>4. known' \in {server} \cup {known}
  BY DEF Put, PutInvalid, Refreshed
<1>5. CASE UNCHANGED <<rules, start>>
  <2>1. RulesInEffect'
    BY <1>5 DEF HotInv, RulesInEffect, InEffect
  <2> QED
    BY <1>1, <1>2, <1>3, <1>4, <1>5, <2>1, SourceStep
<1>6. CASE ~UNCHANGED <<rules, start>>
  <2> DEFINE new(l) == JetStreamSubjects(l) \ JetStreamSubjects(rules[k])
  <2>1. PICK loaded \in Parsed(r) :
          /\ rules' = [rules EXCEPT ![k] = loaded]
          /\ start' \in IF new(loaded) = {} THEN {Idle} ELSE {Starts(s) : s \in new(loaded)}
    BY <1>6 DEF Put, PutInvalid
  <2>2. InEffect(loaded) /\ new(loaded) \subseteq Subjects
    BY ParsedInEffect
  <2> HIDE DEF new
  <2>3. RulesInEffect'
    BY <2>1, <2>2, RulePlaced DEF HotInv
  <2>4. start' = Idle \/ \E s \in Subjects : start' = Starts(s)
    BY <2>1, <2>2
  <2> QED
    BY <1>1, <1>2, <1>3, <1>4, <2>3, <2>4, SourceStep
<1> QED
  BY <1>5, <1>6

\* handleRuleDelete (rule_kv.go).
LEMMA DeleteKeeps ==
  ASSUME HotInv, NEW k \in BucketKeys, Delete(k)
  PROVE  HotInv'
<1>1. changes' \in 0 .. MaxChanges /\ start = Idle
  BY BudgetKept DEF Delete, HotInv
<1>2. UNCHANGED <<server, durable, moved, known, consumers, start, failed>>
  BY DEF Delete
<1>3. rules' = [rules EXCEPT ![k] = NoRule]
  BY DEF Delete
<1>4. RulesInEffect'
  BY <1>3, RulePlaced DEF HotInv
<1>5. subs' \in [Subjects -> Ids \cup {0}]
  BY DEF Delete, HotInv, BrokerTypeOK
<1>6. start' = Idle /\ known' \in {server} \cup {known}
  BY <1>1, <1>2
<1> QED
  BY <1>1, <1>2, <1>4, <1>5, <1>6, SourceStep

\* HotSpec => []HotInv: for any streams, subjects and rules.
THEOREM HotInductive == HotSpec => []HotInv
<1>1. HotInit => HotInv
  BY HotInitInv
<1>2. HotInv /\ [HotNext]_hotVars => HotInv'
  <2> SUFFICES ASSUME HotInv, [HotNext]_hotVars PROVE HotInv'
    OBVIOUS
  <2>1. CASE StreamStep /\ UNCHANGED <<mode, rules>>
    BY <2>1, StreamsChange, ConsumerStep, TimeoutStep, StartEnds DEF StreamStep
  <2>2. ASSUME NEW k \in BucketKeys, NEW r \in SubjectRules \cup Samples,
               Load(k, r) \/ Put(k, r) \/ PutInvalid(k, r)
        PROVE  HotInv'
    BY <2>2, LoadKeeps, PutKeeps
  <2>3. ASSUME NEW k \in BucketKeys, Delete(k) PROVE HotInv'
    BY <2>3, DeleteKeeps
  <2>4. CASE UNCHANGED hotVars
    <3>1. ServerTypeOK'
      BY <2>4 DEF hotVars, streamVars, HotInv, ServerTypeOK, Consumer
    <3>2. BrokerTypeOK'
      BY <2>4 DEF hotVars, streamVars, HotInv, BrokerTypeOK
    <3>3. Remembered'
      BY <2>4 DEF hotVars, streamVars, HotInv, Remembered, Made
    <3>4. RulesInEffect'
      BY <2>4 DEF hotVars, HotInv, RulesInEffect, InEffect
    <3> QED
      BY <3>1, <3>2, <3>3, <3>4 DEF HotInv
  <2> QED
    BY <2>1, <2>2, <2>3, <2>4 DEF HotNext
<1> QED
  BY <1>1, <1>2, PTL DEF HotSpec

\* HotSpec => []LoadedIsServable: whatever sources come from files or from the
\* bucket and whatever features are on, no rule is in effect whose firing does
\* nothing, but for the HTTP actions the docs say are skipped (loader.go,
\* ParseAndValidateYAML).
THEOREM LoadedIsServableAlways == HotSpec => []LoadedIsServable
<1>1. HotInv => LoadedIsServable
  BY DEF HotInv, RulesInEffect, InEffect, LoadedIsServable
<1> QED
  BY <1>1, HotInductive, PTL

\* HotSpec => []StreamFound: for any stream configuration, a subject that a
\* known stream covers is given a stream, by a filter that covers it or is
\* one of the two loose shapes (stream_resolver.go, FindStreamForSubject).
THEOREM StreamFoundAlways == HotSpec => []StreamFound
<1>1. HotInv => StreamFound
  BY FoundFor DEF HotInv, ServerTypeOK, StreamFound
<1> QED
  BY <1>1, HotInductive, PTL

\* HotSpec => []OwnConsumer: for any subjects, a subscription reads a consumer
\* of its own subject, unless a name is not of plain words (nats.go,
\* CreateConsumerForSubject and generateConsumerName).
THEOREM OwnConsumerAlways == HotSpec => []OwnConsumer
<1>1. HotInv => OwnConsumer
  <2> SUFFICES ASSUME HotInv, NEW s \in Subjects PROVE
                 /\ \A d \in durable :
                      /\ subs[s] = d.stream /\ d.name = generateConsumerName(s)
                      /\ PlainNames(s) /\ PlainNames(d.filter)
                      => d.filter = s
                 /\ failed[s] = "no consumer" => moved
    BY DEF OwnConsumer
  <2>1. ASSUME NEW d \in durable, d.name = generateConsumerName(s), PlainNames(s), PlainNames(d.filter)
        PROVE  d.filter = s
    <3>1. PICK i \in Ids, t \in Subjects : d = Consumer(i, t)
      BY DEF HotInv, ServerTypeOK
    <3>2. d.filter = t /\ d.name = generateConsumerName(t)
      BY <3>1 DEF Consumer
    <3> QED
      BY <2>1, <3>2, NamesDistinct
  <2> QED
    BY <2>1 DEF HotInv, Remembered
<1> QED
  BY <1>1, HotInductive, PTL
=============================================================================
