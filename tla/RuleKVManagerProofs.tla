------------------------ MODULE RuleKVManagerProofs -------------------------
(***************************************************************************)
(* What hot-reloaded rules come to, for every bucket, every number of      *)
(* changes and lost watches, and every interleaving of the watcher with    *)
(* startup and shutdown.                                                   *)
(***************************************************************************)
EXTENDS RuleKVManager, FiniteSetTheorems, SequenceTheorems, TLAPS

Wanted(set) == AllRules(current) \cap set

\* An idle handler has nothing left to do; a busy one works for the rules that
\* are in effect.
HandlerMeans ==
  /\ ~handler.busy => handler = Idle
  /\ handler.rebuildJobs => handler.sched = Wanted(Schedules)
  /\ handler.rebuildCore => handler.core = Wanted(CoreSubjects)
  /\ handler.add \subseteq Needed
  /\ handler.remove \cap Needed = {}

\* What is subscribed, reported or still to be done makes up for what the
\* rules need, at every moment and not only at rest.
SubsMean ==
  /\ pc = "build" => subs = {}
  /\ pc \notin {"stopped", "failed"} =>
                       /\ Needed \subseteq live \cup errored \cup handler.add
                       /\ subs \subseteq live \cup errored
  /\ live \subseteq Needed \cup shed \cup handler.remove

CoreMeans ==
  /\ pc = "rebuild" /\ ~overtaken => handler.rebuildCore \/ snapshot = Wanted(CoreSubjects)
  /\ pc = "running" /\ ~overtaken => handler.rebuildCore \/ coreSubs = Wanted(CoreSubjects) \ failed

JobsMean ==
  /\ ruleset = AllRules(current)
  /\ pc \in {"callback", "waitReady", "bootstrap", "rebuild", "running"} /\ ~missed
       => handler.rebuildJobs \/ jobs = Wanted(Schedules) \ failed

StopMeans ==
  /\ closed <=> pc \in {"stopWatch", "waitWatch", "closeBroker", "stopped"}
  /\ closed => coreSubs = {}
  /\ pc \in {"waitWatch", "closeBroker", "stopped", "failed"} => watch = "stopped"
  /\ pc \in {"closeBroker", "stopped", "failed"} => ~handler.busy
  /\ pc = "stopped" => live = {}

\* A key's last entry is in effect, or is the last of its entries in the
\* channel, or is on record as one that this watch will not bring.
Unannounced(k) == \A j \in DOMAIN updates : updates[j].key # k
Told(k) == Unannounced(k) /\ (store[k].kind # "bad" => current[k] = store[k].rules)
Coming(k) == \E i \in DOMAIN updates :
               updates[i] = Update(k) /\ \A j \in DOMAIN updates : j > i => updates[j].key # k
QueueMeans ==
  /\ \A i \in DOMAIN updates :
       updates[i] = Sentinel \/ (updates[i].key \in Keys /\ updates[i].entry.kind # "none")
  /\ \A k \in Keys : store[k].kind = "none" => (current[k] = {} \/ k \in unseen) /\ Unannounced(k)
  /\ watch \in {"live", "stale"} => \A k \in Keys \ unseen : Told(k) \/ Coming(k)

Rest == HandlerMeans /\ SubsMean /\ CoreMeans /\ JobsMean /\ StopMeans /\ QueueMeans
IndInv == TypeOK /\ Rest

-----------------------------------------------------------------------------
\* What an entry's kind says of its rules.
LEMMA EntryFacts ==
  ASSUME NEW e \in Entries
  PROVE  /\ e.kind \in {"none", "del", "bad", "put"}
         /\ e.rules \in SUBSET Triggers
         /\ e.kind # "put" => e.rules = {}
         /\ e.kind = "none" <=> e = Absent
BY VersionAssumption DEF Entries, Entry, Absent

\* Listing the members of a finite set lists each of them, once.
LEMMA Listed ==
  ASSUME NEW S, IsFiniteSet(S), NEW s \in SetToSeqs(S)
  PROVE  /\ s \in Seq(S) /\ DOMAIN s = 1 .. Len(s)
         /\ \A i, j \in DOMAIN s : s[i] = s[j] => i = j
         /\ \A x \in S : \E i \in DOMAIN s : s[i] = x
<1>1. Cardinality(S) \in Nat
  BY FS_CardinalityType
<1> DEFINE D == 1 .. Cardinality(S)
<1>2. s \in [D -> S] /\ \A i, j \in D : s[i] = s[j] => i = j
  BY DEF SetToSeqs
<1>3. s \in Injection(D, S)
  BY <1>2 DEF Injection, IsInjective
<1>4. IsFiniteSet(D) /\ Cardinality(D) = Cardinality(S)
  BY <1>1, FS_Interval
<1>5. s \in Surjection(D, S)
  BY <1>3, <1>4, FS_Injection
<1>6. \A x \in S : \E i \in D : s[i] = x
  BY <1>5 DEF Surjection
<1>7. s \in Seq(S) /\ DOMAIN s = D /\ DOMAIN s = 1 .. Len(s)
  BY <1>1, <1>2
<1> QED
  BY <1>2, <1>6, <1>7

\* A new watch replays the last entry of every key that has one, once, and
\* then the sentinel.
LEMMA ReplayFacts ==
  ASSUME store \in [Keys -> Entries], NEW u \in Replays
  PROVE  /\ u \in Seq(Events)
         /\ \A i \in DOMAIN u : u[i] = Sentinel \/ \E k \in Keys : store[k] # Absent /\ u[i] = Update(k)
         /\ \A k \in Keys : store[k] # Absent =>
              \E i \in DOMAIN u : u[i] = Update(k) /\ \A j \in DOMAIN u : j > i => u[j].key # k
<1> DEFINE Present == {j \in Keys : store[j] # Absent}
           S == {Update(k) : k \in Present}
<1>1. PICK s \in SetToSeqs(S) : u = Append(s, Sentinel)
  BY DEF Replays
<1>2. IsFiniteSet(S)
  <2>1. IsFiniteSet(Present)
    BY FS_Subset, KeysAssumption
  <2> DEFINE f == [k \in Present |-> Update(k)]
  <2>2. f \in Surjection(Present, S)
    BY DEF Surjection
  <2> QED
    BY <2>1, <2>2, FS_Surjection
<1>3. \A k \in Keys : Update(k).key = k /\ Update(k) \in Events
  BY DEF Update, Events
<1>4. Sentinel \in Events /\ Sentinel.key = "none"
  BY DEF Sentinel, Events, Entries
<1>5. /\ \A x \in S : x \in Events /\ \E k \in Keys : store[k] # Absent /\ x = Update(k)
      /\ \A k \in Keys : store[k] # Absent => Update(k) \in S
  BY <1>3
<1> HIDE DEF S
<1>6. /\ s \in Seq(S) /\ DOMAIN s = 1 .. Len(s)
      /\ \A i, j \in DOMAIN s : s[i] = s[j] => i = j
      /\ \A x \in S : \E i \in DOMAIN s : s[i] = x
  BY <1>2, Listed
<1>7. s \in Seq(Events) /\ Len(s) \in Nat
  <2>1. S \subseteq Events
    BY <1>5
  <2> QED
    BY <1>6, <2>1
<1>8. /\ u \in Seq(Events)
      /\ DOMAIN u = 1 .. Len(s) + 1
      /\ u[Len(s) + 1] = Sentinel
      /\ \A i \in 1 .. Len(s) : u[i] = s[i]
  <2>1. Append(s, Sentinel) \in Seq(Events) /\ Len(Append(s, Sentinel)) = Len(s) + 1
    BY <1>4, <1>7
  <2>2. /\ Append(s, Sentinel)[Len(s) + 1] = Sentinel
        /\ \A i \in 1 .. Len(s) : Append(s, Sentinel)[i] = s[i]
    BY <1>4, <1>7
  <2>3. DOMAIN Append(s, Sentinel) = 1 .. Len(Append(s, Sentinel))
    BY <2>1
  <2> QED
    BY <1>1, <2>1, <2>2, <2>3
<1>9. \A i \in 1 .. Len(s) : s[i] \in S
  BY <1>6
<1>10. \A i \in DOMAIN u : u[i] = Sentinel \/ (i \in DOMAIN s /\ u[i] = s[i] /\ u[i] \in S)
  <2> SUFFICES ASSUME NEW i \in DOMAIN u
               PROVE  u[i] = Sentinel \/ (i \in DOMAIN s /\ u[i] = s[i] /\ u[i] \in S)
    OBVIOUS
  <2>1. i = Len(s) + 1 \/ i \in 1 .. Len(s)
    BY <1>7, <1>8
  <2> QED
    BY <1>6, <1>8, <1>9, <2>1
<1>11. ASSUME NEW k \in Keys, store[k] # Absent
       PROVE  \E i \in DOMAIN u : u[i] = Update(k) /\ \A j \in DOMAIN u : j > i => u[j].key # k
  <2>1. PICK i \in DOMAIN s : s[i] = Update(k)
    BY <1>5, <1>6, <1>11
  <2>2. i \in DOMAIN u /\ u[i] = Update(k) /\ i \in Nat
    BY <1>6, <1>7, <1>8, <2>1
  <2>3. ASSUME NEW j \in DOMAIN u, j > i, u[j].key = k PROVE FALSE
    <3>1. u[j] # Sentinel
      BY <1>4, <2>3, KeysAssumption
    <3>2. j \in DOMAIN s /\ u[j] = s[j] /\ u[j] \in S
      BY <1>10, <3>1
    <3>3. s[j] = Update(k)
      BY <1>3, <1>5, <2>3, <3>2
    <3>4. i = j
      BY <1>6, <2>1, <3>2, <3>3
    <3> QED
      BY <2>2, <2>3, <3>4
  <2> QED
    BY <2>2, <2>3
<1> QED
  BY <1>5, <1>8, <1>10, <1>11

\* Taking an event off the channel moves the others up.
LEMMA TailFacts ==
  ASSUME updates \in Seq(Events), updates # <<>>, updates' = Tail(updates)
  PROVE  /\ updates' \in Seq(Events) /\ Head(updates) = updates[1] /\ 1 \in DOMAIN updates
         /\ Head(updates) \in Events
         /\ \A i \in DOMAIN updates' : i \in Nat /\ i + 1 \in DOMAIN updates /\ updates'[i] = updates[i + 1]
         /\ \A i \in DOMAIN updates : i \in Nat /\ (i > 1 => i - 1 \in DOMAIN updates' /\ updates'[i - 1] = updates[i])
<1>1. /\ Len(updates) \in Nat /\ Len(updates) >= 1 /\ DOMAIN updates = 1 .. Len(updates)
      /\ updates' \in Seq(Events) /\ DOMAIN updates' = 1 .. Len(updates) - 1
      /\ \A i \in 1 .. Len(updates) - 1 : updates'[i] = updates[i + 1]
  OBVIOUS
<1>2. Head(updates) = updates[1] /\ updates[1] \in Events
  BY <1>1
<1>3. \A i \in DOMAIN updates' : i \in Nat /\ i + 1 \in DOMAIN updates /\ updates'[i] = updates[i + 1]
  BY <1>1
<1>4. ASSUME NEW i \in DOMAIN updates
      PROVE  i \in Nat /\ (i > 1 => i - 1 \in DOMAIN updates' /\ updates'[i - 1] = updates[i])
  <2>1. i \in Nat /\ (i > 1 => i - 1 \in 1 .. Len(updates) - 1 /\ (i - 1) + 1 = i)
    BY <1>1
  <2> QED
    BY <1>1, <2>1
<1> QED
  BY <1>1, <1>2, <1>3, <1>4

\* What is left of the channel of a watcher that falls silent.
LEMMA PrefixFacts ==
  ASSUME updates \in Seq(Events), NEW n \in 0 .. Len(updates), updates' = SubSeq(updates, 1, n)
  PROVE  /\ updates' \in Seq(Events)
         /\ \A i \in DOMAIN updates' : i \in DOMAIN updates /\ updates'[i] = updates[i]
         /\ \A i \in DOMAIN updates : i > n \/ i \in DOMAIN updates'
<1>1. /\ Len(updates) \in Nat /\ n \in Nat /\ n <= Len(updates) /\ DOMAIN updates = 1 .. Len(updates)
  OBVIOUS
<1>2. /\ updates' \in Seq(Events) /\ Len(updates') = n
      /\ \A i \in 1 .. n : updates'[i] = updates[i]
  <2>1. /\ 1 \in Int /\ n \in Int /\ (\A i \in 1 .. n : updates[i] \in Events)
        /\ n - 1 + 1 = n /\ (IF 1 <= n THEN n - 1 + 1 ELSE 0) = n /\ \A i \in 1 .. n : 1 + i - 1 = i
    BY <1>1
  <2> QED
    BY <1>1, <2>1, SubSeqProperties
<1>3. DOMAIN updates' = 1 .. n
  BY <1>2
<1> QED
  BY <1>1, <1>2, <1>3

\* The idle handler, and the one a commit starts.
LEMMA HandlerTypes ==
  /\ Idle \in Handlers /\ ~Idle.busy /\ ~Idle.rebuildJobs /\ ~Idle.rebuildCore
  /\ Idle.add = {} /\ Idle.remove = {}
BY DEF Idle, Handlers

\* A manager that has just created its watch satisfies the invariant.
LEMMA InitInd == Init => IndInv
<1> SUFFICES ASSUME Init PROVE IndInv
  OBVIOUS
<1>1. store \in [Keys -> Entries]
  BY DEF Init, Entries
<1>2. /\ updates \in Seq(Events)
      /\ \A i \in DOMAIN updates :
           updates[i] = Sentinel \/ \E k \in Keys : store[k] # Absent /\ updates[i] = Update(k)
      /\ \A k \in Keys : store[k] # Absent => Coming(k)
  BY <1>1, ReplayFacts DEF Init, Coming
<1>3. TypeOK
  <2>1. changes \in 0 .. MaxChanges
    BY ChangesAssumption DEF Init
  <2>2. current \in [Keys -> SUBSET Triggers]
    BY DEF Init
  <2>3. handler \in Handlers
    BY HandlerTypes DEF Init
  <2> QED
    BY <1>1, <1>2, <2>1, <2>2, <2>3 DEF Init, TypeOK, Pcs
<1>4. AllRules(current) = {}
  BY DEF Init, AllRules
<1>5. HandlerMeans /\ SubsMean /\ CoreMeans /\ JobsMean /\ StopMeans
  BY <1>4, HandlerTypes DEF Init, HandlerMeans, SubsMean, CoreMeans, JobsMean, StopMeans, Wanted, Needed
<1>6. QueueMeans
  <2>0. Sentinel.key \notin Keys /\ \A k \in Keys : Update(k).key = k /\ Update(k).entry = store[k]
    BY KeysAssumption DEF Sentinel, Update
  <2>1. \A i \in DOMAIN updates :
          updates[i] = Sentinel \/ (updates[i].key \in Keys /\ updates[i].entry.kind # "none")
    BY <1>1, <1>2, <2>0, EntryFacts
  <2>2. ASSUME NEW k \in Keys, store[k].kind = "none" PROVE current[k] = {} /\ Told(k)
    <3>1. store[k] = Absent /\ store[k].rules = {}
      BY <1>1, <2>2, EntryFacts
    <3>2. Unannounced(k)
      BY <1>2, <2>0, <3>1 DEF Unannounced
    <3> QED
      BY <3>1, <3>2 DEF Init, Told
  <2>3. \A k \in Keys : store[k].kind # "none" => store[k] # Absent
    BY <1>1, EntryFacts
  <2> QED
    BY <1>2, <2>1, <2>2, <2>3 DEF QueueMeans, Told
<1> QED
  BY <1>3, <1>5, <1>6 DEF IndInv, Rest

\* The fields of the handler that a commit starts.
Started(h, old, new, cur, add, remove) ==
  /\ h \in Handlers
  /\ h.busy
  /\ h.rebuildJobs <=> ScheduleCallback /\ (old \cup new) \cap Schedules # {}
  /\ h.rebuildCore <=> CoreCallback /\ (old \cup new) \cap CoreSubjects # {}
  /\ h.sched = AllRules(cur) \cap Schedules
  /\ h.core = AllRules(cur) \cap CoreSubjects
  /\ h.add = add /\ h.remove = remove

\* A commit starts a handler with the callbacks and the subjects it needs.
LEMMA CallbacksFacts ==
  ASSUME NEW old, NEW new, NEW cur, NEW add \in SUBSET JsSubjects, NEW remove \in SUBSET JsSubjects
  PROVE  Started(Callbacks(old, new, cur, add, remove), old, new, cur, add, remove)
<1> DEFINE sc == (ScheduleCallback /\ (old \cup new) \cap Schedules # {})
           cc == (CoreCallback /\ (old \cup new) \cap CoreSubjects # {})
           S == AllRules(cur) \cap Schedules
           C == AllRules(cur) \cap CoreSubjects
           h == [busy |-> TRUE, rebuildJobs |-> sc, rebuildCore |-> cc, sched |-> S, core |-> C,
                 add |-> add, remove |-> remove]
<1>1. sc \in BOOLEAN /\ cc \in BOOLEAN /\ S \in SUBSET Schedules /\ C \in SUBSET CoreSubjects
  BY DEF ScheduleCallback, CoreCallback
<1>2. Callbacks(old, new, cur, add, remove) = h
  BY Zenon DEF Callbacks
<1> HIDE DEF sc, cc, S, C
<1>3. /\ h \in Handlers /\ h.busy = TRUE /\ h.rebuildJobs = sc /\ h.rebuildCore = cc
      /\ h.sched = S /\ h.core = C /\ h.add = add /\ h.remove = remove
  BY <1>1 DEF Handlers
<1> HIDE DEF h
<1> QED
  BY <1>2, <1>3, Zenon DEF Started, sc, cc, S, C

\* Every step keeps the variables in their types.
LEMMA NextType == TypeOK /\ [Next]_vars => TypeOK'
<1> SUFFICES ASSUME TypeOK, [Next]_vars PROVE TypeOK'
  OBVIOUS
<1> DEFINE Goal == TypeOK'
<1> SUFFICES Goal
  OBVIOUS
<1> USE ChangesAssumption DEF Goal
<1>a. /\ Entry("del", {}) \in Entries
      /\ \A k \in Keys, e \in Entries : [key |-> k, entry |-> e] \in Events
  BY DEF Entries, Events
<1>b. \A set \in SUBSET Triggers : set \cap Schedules \in SUBSET Schedules
  OBVIOUS
<1>1. ASSUME NEW k \in Keys, NEW e \in Entries, Change(k, e) PROVE Goal
  <2>1. store' \in [Keys -> Entries] /\ changes' \in 0 .. MaxChanges
    BY <1>1 DEF Change, TypeOK
  <2>2. updates' \in Seq(Events)
    BY <1>1, <1>a DEF Change, TypeOK
  <2> QED
    BY <1>1, <2>1, <2>2 DEF Change, TypeOK, rules, services, history
<1>2. ASSUME NEW k \in Keys, Put(k) \/ Delete(k) PROVE Goal
  BY <1>1, <1>2, <1>a DEF Put, Delete
<1>2a. ASSUME NEW k \in Keys, Compact(k) PROVE Goal
  <2>1. Absent \in Entries
    BY DEF Entries
  <2>2. store' \in [Keys -> Entries] /\ unseen' \subseteq Keys
    BY <1>2a, <2>1 DEF Compact, TypeOK
  <2> QED
    BY <1>2a, <2>2 DEF Compact, TypeOK, watching, rules, services, history
<1>2b. CASE WatchGoesStale
  <2>1. /\ updates \in Seq(Events) /\ updates' \in Seq(Events)
        /\ unseen' \subseteq Keys /\ changes' \in 0 .. MaxChanges
    <3>1. PICK n \in 0 .. Len(updates) :
            /\ updates' = SubSeq(updates, 1, n)
            /\ unseen' = unseen \cup {k \in Keys : \E i \in DOMAIN updates : i > n /\ updates[i].key = k}
      BY <1>2b DEF WatchGoesStale
    <3>2. updates \in Seq(Events) /\ unseen' \subseteq Keys /\ changes' \in 0 .. MaxChanges
      BY <1>2b, <3>1 DEF WatchGoesStale, TypeOK
    <3>3. updates' \in Seq(Events)
      BY <3>1, <3>2, PrefixFacts
    <3> QED
      BY <3>2, <3>3
  <2> QED
    BY <1>2b, <2>1 DEF WatchGoesStale, TypeOK, rules, services, history
<1>3. CASE WatchLost
  <2>1. <<>> \in Seq(Events) /\ changes' \in 0 .. MaxChanges
    BY <1>3 DEF WatchLost, TypeOK
  <2> QED
    BY <1>3, <2>1 DEF WatchLost, TypeOK, rules, services, history
<1>4. CASE Rewatch
  <2>1. updates' \in Seq(Events)
    <3>1. store \in [Keys -> Entries] /\ updates' \in Replays
      BY <1>4 DEF Rewatch, TypeOK
    <3> QED
      BY <3>1, ReplayFacts
  <2>2. unseen' \subseteq Keys
    BY <1>4 DEF Rewatch, TypeOK
  <2> QED
    BY <1>4, <2>1, <2>2 DEF Rewatch, TypeOK, bucket, rules, services, history
<1>c. ASSUME NEW kinds, Receives(kinds)
      PROVE  /\ updates' \in Seq(Events) /\ Head(updates) \in Events
             /\ Head(updates).entry \in Entries
             /\ Head(updates).entry.kind \in kinds
             /\ Head(updates).entry.rules \in SUBSET Triggers
  <2>1. updates \in Seq(Events) /\ updates # <<>> /\ updates' = Tail(updates)
    BY <1>c DEF Receives, TypeOK
  <2>2. updates' \in Seq(Events) /\ Head(updates) \in Events
    BY <2>1, TailFacts
  <2>3. Head(updates).entry \in Entries
    BY <2>2 DEF Events
  <2> QED
    BY <1>c, <2>2, <2>3, EntryFacts DEF Receives
<1>5. CASE Ready \/ RejectPut
  <2>1. updates' \in Seq(Events)
    BY <1>5, <1>c DEF Ready, RejectPut
  <2> QED
    BY <1>5, <2>1 DEF Ready, RejectPut, TypeOK, bucket, rules, services, history
<1>d. ASSUME NEW k, NEW set \in SUBSET Triggers
      PROVE  /\ [current EXCEPT ![k] = set] \in [Keys -> SUBSET Triggers]
             /\ AllRules([current EXCEPT ![k] = set]) \in SUBSET Triggers
  <2>1. [current EXCEPT ![k] = set] \in [Keys -> SUBSET Triggers]
    BY DEF TypeOK
  <2>2. \A cur \in [Keys -> SUBSET Triggers] : AllRules(cur) \in SUBSET Triggers
    BY DEF AllRules
  <2> QED
    BY <2>1, <2>2
<1>6. CASE CommitPut
  <2> DEFINE k == Head(updates).key
             new == Head(updates).entry.rules
             old == current[k]
             cur == [current EXCEPT ![k] = new]
             add == (new \ old) \cap JsSubjects
  <2>1. /\ Receives({"put"}) /\ current' = cur /\ ruleset' = AllRules(cur)
        /\ handler' = Callbacks(old, new, cur, add, {})
        /\ shed' = shed \cup ((old \ AllRules(cur)) \cap JsSubjects)
        /\ missed' = MissedSchedules(old, new)
        /\ UNCHANGED <<bucket, watch, synced, services, pc, snapshot, errored, overtaken, failed, unseen>>
    BY <1>6 DEF CommitPut
  <2>2. updates' \in Seq(Events) /\ new \in SUBSET Triggers
    BY <2>1, <1>c
  <2>3. current' \in [Keys -> SUBSET Triggers] /\ ruleset' \in SUBSET Triggers
    BY <2>1, <2>2, <1>d
  <2>4. add \in SUBSET JsSubjects
    OBVIOUS
  <2> HIDE DEF old, new, cur, add
  <2>5. handler' \in Handlers
    <3>1. {} \in SUBSET JsSubjects
      OBVIOUS
    <3> QED
      BY <2>1, <2>4, <3>1, CallbacksFacts DEF Started
  <2>6. missed' \in BOOLEAN
    BY <2>1 DEF MissedSchedules, TypeOK
  <2>7. shed' \subseteq JsSubjects
    BY <2>1 DEF TypeOK
  <2> QED
    BY <2>1, <2>2, <2>3, <2>5, <2>6, <2>7 DEF TypeOK, bucket, services
<1>7. CASE CommitDelete
  <2> DEFINE k == Head(updates).key
             old == current[k]
             cur == [current EXCEPT ![k] = {}]
             remove == NotNeeded(old, cur)
  <2>1. /\ Receives({"del"}) /\ current' = cur /\ ruleset' = AllRules(cur)
        /\ handler' = IF old = {} THEN Idle ELSE Callbacks(old, {}, cur, {}, remove)
        /\ missed' = MissedSchedules(old, {})
        /\ UNCHANGED <<bucket, watch, synced, services, pc, snapshot, errored, shed, overtaken, failed, unseen>>
    BY <1>7 DEF CommitDelete
  <2>2. updates' \in Seq(Events)
    BY <2>1, <1>c
  <2>3. current' \in [Keys -> SUBSET Triggers] /\ ruleset' \in SUBSET Triggers
    BY <2>1, <1>d
  <2>4. remove \in SUBSET JsSubjects
    BY DEF NotNeeded
  <2> HIDE DEF old, cur, remove
  <2>5. handler' \in Handlers
    <3>1. {} \in SUBSET JsSubjects
      OBVIOUS
    <3> QED
      BY <2>1, <2>4, <3>1, CallbacksFacts, HandlerTypes DEF Started
  <2>6. missed' \in BOOLEAN
    BY <2>1 DEF MissedSchedules, TypeOK
  <2> QED
    BY <2>1, <2>2, <2>3, <2>5, <2>6 DEF TypeOK, bucket, services
<1>8. CASE RebuildJobs
  <2>1. /\ handler \in Handlers /\ handler' = [handler EXCEPT !.rebuildJobs = FALSE]
        /\ jobs' \subseteq handler.sched
        /\ failed' \subseteq failed \cup handler.sched
    BY <1>8 DEF RebuildJobs, TypeOK, Reported
  <2>2. handler' \in Handlers /\ jobs' \in SUBSET Schedules /\ handler.sched \in SUBSET Schedules
    BY <2>1 DEF Handlers
  <2>3. failed' \subseteq CoreSubjects \cup Schedules
    BY <2>1, <2>2 DEF TypeOK
  <2> QED
    BY <1>8, <2>2, <2>3 DEF RebuildJobs, TypeOK, bucket, watching, rules
<1>9. CASE RebuildCore
  <2>1. /\ handler \in Handlers
        /\ handler' = [handler EXCEPT !.rebuildCore = FALSE]
        /\ coreSubs' \subseteq coreSubs \cup handler.core
        /\ failed' \subseteq failed \cup handler.core
    BY <1>9 DEF RebuildCore, TypeOK, Rebuild, Reported
  <2>2. handler' \in Handlers /\ handler.core \in SUBSET CoreSubjects
    BY <2>1 DEF Handlers
  <2>3. overtaken' \in BOOLEAN
    BY <1>9 DEF RebuildCore
  <2>4. coreSubs' \subseteq CoreSubjects /\ failed' \subseteq CoreSubjects \cup Schedules
    BY <2>1, <2>2 DEF TypeOK
  <2> QED
    BY <1>9, <2>2, <2>3, <2>4 DEF RebuildCore, TypeOK, bucket, watching, rules
<1>10. ASSUME NEW s \in JsSubjects, Subscribe(s) \/ Unsubscribe(s) PROVE Goal
  <2>1. /\ handler \in Handlers
        /\ \/ handler' = [handler EXCEPT !.add = @ \ {s}]
           \/ handler' = [handler EXCEPT !.remove = @ \ {s}]
    BY <1>10 DEF Subscribe, Unsubscribe, TypeOK
  <2>2. handler' \in Handlers
    BY <2>1 DEF Handlers
  <2>3. live' \subseteq subs' /\ subs' \subseteq JsSubjects /\ errored' \subseteq JsSubjects
    BY <1>10 DEF Subscribe, Unsubscribe, TypeOK, OutcomeAssumption, history
  <2> QED
    BY <1>10, <2>2, <2>3 DEF Subscribe, Unsubscribe, TypeOK, bucket, watching, rules, history
<1>11. CASE HandlerReturns
  BY <1>11, HandlerTypes DEF HandlerReturns, TypeOK, bucket, watching, rules, services, history
<1>12. CASE Start \/ SetScheduleCallback \/ WaitReady \/ WatchStopped
  BY <1>12 DEF Start, SetScheduleCallback, WaitReady, WatchStopped, Goto, Pcs, TypeOK, bucket, watching,
     rules, services, history
<1>12a. CASE RegisterFails \/ WaitReadyTimesOut
  <2>1. PICK from : GiveUp(from)
    BY <1>12a DEF RegisterFails, WaitReadyTimesOut
  <2>2. <<>> \in Seq(Events) /\ handler' \in Handlers
    BY <2>1, HandlerTypes DEF GiveUp
  <2> QED
    BY <2>1, <2>2 DEF GiveUp, Goto, Pcs, TypeOK, bucket, rules, history
<1>13. CASE RegisterSchedules \/ CloseBroker
  BY <1>13 DEF RegisterSchedules, CloseBroker, Reported, Goto, Pcs, TypeOK, bucket, watching, rules, history
<1>14. CASE ReadCoreRules \/ Bootstrap \/ CloseResponder
  BY <1>14 DEF ReadCoreRules, Bootstrap, CloseResponder, Goto, Pcs, Rebuild, Reported, TypeOK, bucket, watching,
     rules, services, history
<1>15. CASE StopWatch
  <2>1. <<>> \in Seq(Events)
    OBVIOUS
  <2> QED
    BY <1>15, <2>1 DEF StopWatch, Goto, Pcs, TypeOK, bucket, rules, services, history
<1>16. CASE UNCHANGED vars
  BY <1>16 DEF vars, TypeOK
<1> QED
  <2> HIDE DEF Goal
  <2> QED
    BY <1>2, <1>2a, <1>2b, <1>3, <1>4, <1>5, <1>6, <1>7, <1>8, <1>9, <1>10, <1>11, <1>12, <1>12a, <1>13,
       <1>14, <1>15, <1>16 DEF Next, WatcherStep, MainStep

\* What a change of one key's rules does to the rules of all keys.
LEMMA CommitRules ==
  ASSUME current \in [Keys -> SUBSET Triggers], NEW k \in Keys, NEW new
  PROVE  LET cur == [current EXCEPT ![k] = new]
         IN  /\ new \subseteq AllRules(cur)
             /\ current[k] \subseteq AllRules(current)
             /\ AllRules(current) \subseteq AllRules(cur) \cup current[k]
             /\ AllRules(cur) \subseteq AllRules(current) \cup new
<1> DEFINE cur == [current EXCEPT ![k] = new]
<1>1. cur[k] = new /\ \A j \in Keys : j # k => cur[j] = current[j]
  OBVIOUS
<1> HIDE DEF cur
<1>2. new \subseteq AllRules(cur) /\ current[k] \subseteq AllRules(current)
  BY <1>1 DEF AllRules
<1>3. AllRules(current) \subseteq AllRules(cur) \cup current[k]
  BY <1>1 DEF AllRules
<1>4. AllRules(cur) \subseteq AllRules(current) \cup new
  BY <1>1 DEF AllRules
<1> QED
  BY <1>2, <1>3, <1>4 DEF cur

\* An operator's change is the last event of its key in a live channel.
LEMMA ChangeQueue ==
  ASSUME TypeOK, QueueMeans, NEW k \in Keys, NEW e \in Entries, e.kind # "none", Change(k, e)
  PROVE  QueueMeans'
<1> DEFINE ev == [key |-> k, entry |-> e]
<1>1. /\ store' = [store EXCEPT ![k] = e] /\ store \in [Keys -> Entries]
      /\ watch' = watch /\ current' = current
      /\ updates' = IF watch = "live" THEN Append(updates, ev) ELSE updates
      /\ unseen' = IF watch = "live" THEN unseen \ {k}
                   ELSE IF watch = "stale" THEN unseen \cup {k} ELSE unseen
  BY DEF Change, TypeOK, rules
<1>2. store'[k] = e /\ \A j \in Keys : j # k => store'[j] = store[j]
  BY <1>1
<1>3. ev \in Events /\ ev.key = k /\ ev.entry = e
  BY DEF Events
<1> HIDE DEF ev
<1>4. /\ \A j \in Keys : j # k => Update(j)' = Update(j)
      /\ Update(k)' = ev
  BY <1>2 DEF Update, ev
<1>5. CASE watch # "live"
  <2>1. updates' = updates
    BY <1>1, <1>5
  <2>2. \A j \in Keys : store'[j].kind = "none" => j # k /\ store[j].kind = "none"
    BY <1>2
  <2>3. \A j \in Keys : j # k => /\ Unannounced(j)' <=> Unannounced(j)
                                 /\ Told(j) => Told(j)'
                                 /\ Coming(j) => Coming(j)'
                                 /\ j \in unseen' <=> j \in unseen
    BY <1>1, <1>2, <1>4, <1>5, <2>1 DEF Unannounced, Told, Coming
  <2>4. watch = "stale" => k \in unseen'
    BY <1>1
  <2> QED
    BY <1>1, <1>5, <2>1, <2>2, <2>3, <2>4 DEF QueueMeans
<1>6. CASE watch = "live"
  <2> DEFINE n == Len(updates)
  <2>1. updates \in Seq(Events) /\ updates' = Append(updates, ev)
    BY <1>1, <1>6 DEF TypeOK
  <2>2. /\ n \in Nat /\ DOMAIN updates = 1 .. n /\ DOMAIN updates' = 1 .. n + 1
        /\ updates'[n + 1] = ev
        /\ \A i \in 1 .. n : updates'[i] = updates[i]
    BY <1>3, <2>1
  <2> HIDE DEF n
  <2>3. /\ n + 1 \in DOMAIN updates'
        /\ \A i \in DOMAIN updates : i \in DOMAIN updates' /\ updates'[i] = updates[i]
        /\ \A i \in DOMAIN updates' : i = n + 1 \/ i \in DOMAIN updates
        /\ \A i \in DOMAIN updates' : ~(i > n + 1)
    BY <2>2
  <2>4. \A i \in DOMAIN updates' :
          updates'[i] = Sentinel \/ (updates'[i].key \in Keys /\ updates'[i].entry.kind # "none")
    BY <1>3, <2>2, <2>3 DEF QueueMeans
  <2>5. ASSUME NEW j \in Keys, j # k
        PROVE  /\ Unannounced(j) => Unannounced(j)'
               /\ Told(j) => Told(j)'
               /\ Coming(j) => Coming(j)'
    <3>1. Unannounced(j) => Unannounced(j)'
      BY <1>3, <2>2, <2>3, <2>5 DEF Unannounced
    <3>2. Coming(j) => Coming(j)'
      BY <1>3, <1>4, <2>2, <2>3, <2>5 DEF Coming
    <3> QED
      BY <1>1, <1>2, <2>5, <3>1, <3>2 DEF Told
  <2>6. Coming(k)'
    BY <1>4, <2>2, <2>3 DEF Coming
  <2>7. \A j \in Keys : store'[j].kind = "none" => j # k /\ store[j].kind = "none"
    BY <1>2
  <2>8. \A j \in Keys : j # k => (j \in unseen' <=> j \in unseen)
    BY <1>1, <1>6
  <2> QED
    BY <1>1, <1>6, <2>4, <2>5, <2>6, <2>7, <2>8 DEF QueueMeans
<1> QED
  BY <1>5, <1>6

\* Taking an event off the channel and acting on it keeps every other key's
\* last entry coming.
LEMMA TailQueue ==
  ASSUME TypeOK, QueueMeans, NEW kinds, Receives(kinds), store' = store, watch' = watch, unseen' = unseen,
         \A k \in Keys : Head(updates).key # k => current'[k] = current[k],
         \A k \in Keys : Head(updates) = Update(k) /\ store[k].kind # "bad" => current'[k] = store[k].rules
  PROVE  QueueMeans'
<1>1. /\ updates \in Seq(Events) /\ updates # <<>> /\ updates' = Tail(updates) /\ watch \in {"live", "stale"}
      /\ store \in [Keys -> Entries]
  BY DEF Receives, TypeOK
<1>2. /\ Head(updates) = updates[1] /\ 1 \in DOMAIN updates
      /\ \A i \in DOMAIN updates' : i \in Nat /\ i + 1 \in DOMAIN updates /\ updates'[i] = updates[i + 1]
      /\ \A i \in DOMAIN updates :
           i \in Nat /\ (i > 1 => i - 1 \in DOMAIN updates' /\ updates'[i - 1] = updates[i])
  BY <1>1, TailFacts
<1>3. \A i \in DOMAIN updates' :
        updates'[i] = Sentinel \/ (updates'[i].key \in Keys /\ updates'[i].entry.kind # "none")
  BY <1>2 DEF QueueMeans
<1>4. ASSUME NEW k \in Keys, Unannounced(k)
      PROVE  Unannounced(k)' /\ current'[k] = current[k]
  BY <1>2, <1>4 DEF Unannounced
<1>5. ASSUME NEW k \in Keys, Coming(k)
      PROVE  Told(k)' \/ Coming(k)'
  <2>1. PICK i \in DOMAIN updates :
          updates[i] = Update(k) /\ \A j \in DOMAIN updates : j > i => updates[j].key # k
    BY <1>5 DEF Coming
  <2>2. CASE i = 1
    <3>1. \A j \in DOMAIN updates' : updates'[j].key # k
      <4> SUFFICES ASSUME NEW j \in DOMAIN updates' PROVE updates'[j].key # k
        OBVIOUS
      <4>1. j \in Nat /\ j # 0
        BY <1>1
      <4>2. j + 1 \in DOMAIN updates /\ updates'[j] = updates[j + 1] /\ j + 1 > i
        BY <1>2, <2>2, <4>1
      <4> QED
        BY <2>1, <4>2
    <3>2. Head(updates) = Update(k)
      BY <1>2, <2>1, <2>2
    <3>3. store[k].kind # "bad" => current'[k] = store[k].rules
      BY <3>2
    <3> QED
      BY <3>1, <3>3 DEF Told, Unannounced
  <2>3. CASE i # 1
    <3>1. i \in Nat /\ i > 1 /\ i - 1 \in DOMAIN updates' /\ updates'[i - 1] = updates[i]
      BY <1>1, <1>2, <2>3
    <3>2. ASSUME NEW j \in DOMAIN updates', j > i - 1 PROVE updates'[j].key # k
      <4>1. j + 1 \in DOMAIN updates /\ updates'[j] = updates[j + 1] /\ j + 1 > i
        BY <1>2, <3>1, <3>2
      <4> QED
        BY <2>1, <4>1
    <3>3. Update(k)' = Update(k)
      BY DEF Update
    <3> QED
      BY <2>1, <3>1, <3>2, <3>3 DEF Coming
  <2> QED
    BY <2>2, <2>3
<1>6. \A k \in Keys : Told(k) => Told(k)'
  BY <1>4 DEF Told
<1> QED
  BY <1>1, <1>3, <1>4, <1>5, <1>6 DEF QueueMeans

\* A dropped delete marker is one that is in effect already, or on record.
LEMMA CompactQueue ==
  ASSUME TypeOK, QueueMeans, NEW k \in Keys, Compact(k)
  PROVE  QueueMeans'
<1>1. /\ store' = [store EXCEPT ![k] = Absent] /\ store \in [Keys -> Entries]
      /\ Unannounced(k) /\ UNCHANGED <<updates, watch, current>>
      /\ unseen' = IF current[k] = {} THEN unseen ELSE unseen \cup {k}
  BY DEF Compact, TypeOK, rules, watching, Unannounced
<1>2. store'[k] = Absent /\ Absent.rules = {} /\ \A j \in Keys : j # k => store'[j] = store[j]
  BY <1>1 DEF Absent, Entry
<1>3. \A j \in Keys : j # k => Update(j)' = Update(j)
  BY <1>2 DEF Update
<1>4. \A j \in Keys : j # k => /\ Unannounced(j)' <=> Unannounced(j)
                               /\ Told(j) => Told(j)'
                               /\ Coming(j) => Coming(j)'
                               /\ j \in unseen' <=> j \in unseen
  BY <1>1, <1>2, <1>3 DEF Unannounced, Told, Coming
<1>5. Unannounced(k)' /\ (current[k] = {} \/ k \in unseen')
  BY <1>1 DEF Unannounced
<1>6. k \notin unseen' => Told(k)'
  BY <1>1, <1>2, <1>5 DEF Told
<1> QED
  BY <1>1, <1>4, <1>5, <1>6 DEF QueueMeans

\* A watcher that falls silent keeps back only what is put on record.
LEMMA StaleQueue ==
  ASSUME TypeOK, QueueMeans, WatchGoesStale
  PROVE  QueueMeans'
<1>1. PICK n \in 0 .. Len(updates) :
        /\ updates' = SubSeq(updates, 1, n)
        /\ unseen' = unseen \cup {k \in Keys : \E i \in DOMAIN updates : i > n /\ updates[i].key = k}
  BY DEF WatchGoesStale
<1>2. updates \in Seq(Events) /\ watch = "live" /\ watch' = "stale" /\ UNCHANGED <<store, current>>
  BY DEF WatchGoesStale, TypeOK, rules
<1>3. /\ \A i \in DOMAIN updates' : i \in DOMAIN updates /\ updates'[i] = updates[i]
      /\ \A i \in DOMAIN updates : i > n \/ i \in DOMAIN updates'
  BY <1>1, <1>2, PrefixFacts
<1>4. \A k \in Keys : Update(k)' = Update(k) /\ Update(k).key = k
  BY <1>2 DEF Update
<1>5. \A k \in Keys : (k \in unseen => k \in unseen') /\ (Unannounced(k) => Unannounced(k)')
  BY <1>1, <1>3 DEF Unannounced
<1>6. \A k \in Keys : Told(k) => Told(k)'
  BY <1>2, <1>5 DEF Told
<1>7. ASSUME NEW k \in Keys, k \notin unseen', Coming(k) PROVE Coming(k)'
  <2>1. PICK i \in DOMAIN updates :
          updates[i] = Update(k) /\ \A j \in DOMAIN updates : j > i => updates[j].key # k
    BY <1>7 DEF Coming
  <2>2. ~(i > n)
    BY <1>1, <1>4, <1>7, <2>1
  <2> QED
    BY <1>3, <1>4, <2>1, <2>2 DEF Coming
<1> QED
  BY <1>2, <1>3, <1>5, <1>6, <1>7 DEF QueueMeans

\* A lost channel is empty and a new one replays the bucket.
LEMMA RewatchQueue ==
  ASSUME TypeOK, QueueMeans, Rewatch
  PROVE  QueueMeans'
<1>1. /\ store \in [Keys -> Entries] /\ updates' \in Replays /\ store' = store /\ current' = current
  BY DEF Rewatch, TypeOK, bucket, rules
<1>u. unseen' = {k \in unseen : store[k] = Absent}
  BY DEF Rewatch
<1> DEFINE u == updates'
<1>2. /\ \A i \in DOMAIN u : u[i] = Sentinel \/ \E k \in Keys : store[k] # Absent /\ u[i] = Update(k)
      /\ \A k \in Keys : store[k] # Absent =>
           \E i \in DOMAIN u : u[i] = Update(k) /\ \A j \in DOMAIN u : j > i => u[j].key # k
  BY <1>1, ReplayFacts
<1>3. \A k \in Keys : Update(k)' = Update(k) /\ Update(k).key = k /\ Update(k).entry = store[k]
  BY <1>1 DEF Update
<1>4. Sentinel.key \notin Keys
  BY KeysAssumption DEF Sentinel
<1>5. \A k \in Keys : store[k] # Absent => store[k].kind # "none"
  BY <1>1, EntryFacts
<1>6. \A i \in DOMAIN u : u[i] = Sentinel \/ (u[i].key \in Keys /\ u[i].entry.kind # "none")
  BY <1>2, <1>3, <1>5
<1>7. ASSUME NEW k \in Keys, store[k].kind = "none" PROVE (current[k] = {} \/ k \in unseen') /\ Unannounced(k)' /\ store[k].rules = {}
  <2>1. store[k] = Absent /\ store[k].rules = {}
    BY <1>1, <1>7, EntryFacts
  <2>2. current[k] = {} \/ k \in unseen'
    BY <1>u, <1>7, <2>1 DEF QueueMeans
  <2>3. Unannounced(k)'
    BY <1>2, <1>3, <1>4, <2>1 DEF Unannounced
  <2> QED
    BY <2>1, <2>2, <2>3
<1>8. ASSUME NEW k \in Keys, store[k].kind # "none" PROVE Coming(k)'
  <2>1. store[k] # Absent
    BY <1>1, <1>8, EntryFacts
  <2> QED
    BY <1>2, <1>3, <2>1 DEF Coming
<1> QED
  BY <1>1, <1>6, <1>7, <1>8 DEF QueueMeans, Told

\* A step that only moves the channel leaves what the transports mean alone.
LEMMA Calm ==
  ASSUME HandlerMeans, SubsMean, CoreMeans, JobsMean,
         UNCHANGED <<current, ruleset, handler, services, pc, snapshot, history>>
  PROVE  HandlerMeans' /\ SubsMean' /\ CoreMeans' /\ JobsMean'
BY DEF HandlerMeans, SubsMean, CoreMeans, JobsMean, Wanted, Needed, AllRules, services, history

\* A commit gives the handler everything that the rules' change calls for.
LEMMA CommitKeeps ==
  ASSUME TypeOK, HandlerMeans, SubsMean, CoreMeans, JobsMean, StopMeans,
         ~handler.busy, watch # "stopped", watch' = watch,
         NEW k \in Keys, NEW old, NEW new, NEW cur, NEW add \in SUBSET JsSubjects, NEW remove \in SUBSET JsSubjects,
         old = current[k], new \in SUBSET Triggers, cur = [current EXCEPT ![k] = new],
         current' = cur, ruleset' = AllRules(cur),
         handler' = Callbacks(old, new, cur, add, remove),
         missed' = MissedSchedules(old, new),
         UNCHANGED <<services, pc, snapshot, errored, overtaken, failed>>,
         \* what starts and stops, or is shed, is what the change asks for
         shed \subseteq shed',
         (new \ old) \cap JsSubjects \subseteq add, add \subseteq new,
         (old \ AllRules(cur)) \cap JsSubjects \subseteq remove \cup shed', remove \cap AllRules(cur) = {}
  PROVE  HandlerMeans' /\ SubsMean' /\ CoreMeans' /\ JobsMean' /\ StopMeans'
<1> DEFINE R == AllRules(current)
           Q == AllRules(cur)
<1>1. new \subseteq Q /\ old \subseteq R /\ R \subseteq Q \cup old /\ Q \subseteq R \cup new
  BY CommitRules DEF TypeOK
<1>2. AllRules(current)' = Q
  BY DEF AllRules
<1>3. /\ Needed = R \cap JsSubjects /\ Needed' = Q \cap JsSubjects
      /\ Wanted(Schedules) = R \cap Schedules /\ Wanted(Schedules)' = Q \cap Schedules
      /\ Wanted(CoreSubjects) = R \cap CoreSubjects /\ Wanted(CoreSubjects)' = Q \cap CoreSubjects
  BY <1>2 DEF Needed, Wanted
<1>4. /\ handler'.busy
      /\ handler'.rebuildJobs <=> ScheduleCallback /\ (old \cup new) \cap Schedules # {}
      /\ handler'.rebuildCore <=> CoreCallback /\ (old \cup new) \cap CoreSubjects # {}
      /\ handler'.sched = Q \cap Schedules
      /\ handler'.core = Q \cap CoreSubjects
      /\ handler'.add = add /\ handler'.remove = remove
  <2>1. Started(handler', old, new, cur, add, remove)
    BY CallbacksFacts
  <2> QED
    BY <2>1, Zenon DEF Started
<1>5. ~handler.rebuildJobs /\ ~handler.rebuildCore /\ handler.add = {} /\ handler.remove = {}
  BY HandlerTypes DEF HandlerMeans
<1>6. UNCHANGED <<subs, live, coreSubs, closed, jobs, pc, snapshot, errored, overtaken, failed>>
  BY DEF services
<1> HIDE DEF R, Q
<1>7. HandlerMeans'
  <2>1. add \subseteq Q \cap JsSubjects /\ remove \cap (Q \cap JsSubjects) = {}
    BY <1>1 DEF Q
  <2> QED
    BY <1>3, <1>4, <2>1 DEF HandlerMeans
<1>8. SubsMean'
  <2>1. pc \notin {"stopped", "failed"} => Q \cap JsSubjects \subseteq live \cup errored \cup add
    BY <1>1, <1>3, <1>5 DEF SubsMean
  <2>2. live \subseteq (Q \cap JsSubjects) \cup shed' \cup remove
    BY <1>1, <1>3, <1>5 DEF SubsMean, Q
  <2> QED
    BY <1>3, <1>4, <1>6, <2>1, <2>2 DEF SubsMean
<1>9. CoreMeans'
  <2>1. CASE (old \cup new) \cap CoreSubjects = {}
    <3>1. Q \cap CoreSubjects = R \cap CoreSubjects
      BY <1>1, <2>1
    <3> QED
      BY <1>3, <1>5, <1>6, <3>1 DEF CoreMeans
  <2>2. CASE (old \cup new) \cap CoreSubjects # {}
    BY <1>4, <1>6, <2>2 DEF CoreMeans, CoreCallback
  <2> QED
    BY <2>1, <2>2
<1>10. JobsMean'
  <2>1. ruleset' = AllRules(current)'
    BY <1>2 DEF Q
  <2>2. CASE (old \cup new) \cap Schedules = {}
    <3>1. Q \cap Schedules = R \cap Schedules
      BY <1>1, <2>2
    <3>2. missed' <=> missed
      BY <2>2 DEF MissedSchedules, TypeOK
    <3> QED
      BY <1>3, <1>5, <1>6, <2>1, <3>1, <3>2 DEF JobsMean
  <2>3. CASE (old \cup new) \cap Schedules # {}
    <3>1. pc = "callback" => missed'
      BY <2>3 DEF MissedSchedules
    <3> QED
      BY <1>4, <1>6, <2>1, <2>3, <3>1 DEF JobsMean, ScheduleCallback
  <2> QED
    BY <2>2, <2>3
<1>11. StopMeans'
  BY <1>4, <1>6 DEF StopMeans
<1> QED
  BY <1>7, <1>8, <1>9, <1>10, <1>11

\* An empty channel announces nothing.
LEMMA EmptyQueue ==
  ASSUME QueueMeans, updates' = <<>>, watch' \notin {"live", "stale"},
         store' = store, current' = current, unseen' = unseen
  PROVE  QueueMeans'
BY DEF QueueMeans, Unannounced

\* The channel and the bucket mean what they meant when a step leaves them.
LEMMA SameQueue ==
  ASSUME QueueMeans, UNCHANGED <<store, updates, watch, current, unseen>>
  PROVE  QueueMeans'
BY DEF QueueMeans, Unannounced, Told, Coming, Update

\* A step of the handler after its critical section.
LEMMA HandlerStep ==
  ASSUME TypeOK, Rest,
         \/ RebuildJobs
         \/ RebuildCore
         \/ \E s \in JsSubjects : Subscribe(s) \/ Unsubscribe(s)
         \/ HandlerReturns
  PROVE  Rest'
<1> DEFINE Goal == Rest'
<1> SUFFICES Goal
  OBVIOUS
<1>a. /\ HandlerMeans /\ SubsMean /\ CoreMeans /\ JobsMean /\ StopMeans /\ QueueMeans
      /\ handler \in Handlers
  BY DEF Rest, TypeOK
<1>b. ~Idle.busy /\ ~Idle.rebuildJobs /\ ~Idle.rebuildCore /\ Idle.add = {} /\ Idle.remove = {}
  BY HandlerTypes
<1>c. UNCHANGED <<store, updates, watch, current, ruleset, closed, pc, snapshot, shed, missed, unseen>>
  BY DEF RebuildJobs, RebuildCore, Subscribe, Unsubscribe, HandlerReturns, bucket, watching, rules,
     services, history
<1>d. /\ QueueMeans'
      /\ Needed' = Needed /\ Wanted(Schedules)' = Wanted(Schedules)
      /\ Wanted(CoreSubjects)' = Wanted(CoreSubjects) /\ AllRules(current)' = AllRules(current)
  BY <1>a, <1>c, SameQueue DEF Needed, Wanted, AllRules
<1>e. /\ handler.rebuildJobs => handler.busy
      /\ handler.rebuildCore => handler.busy
      /\ handler.busy => pc \notin {"closeBroker", "stopped", "failed"}
  BY <1>a, <1>b DEF HandlerMeans, StopMeans
<1>1. CASE RebuildJobs
  <2>1. /\ handler.rebuildJobs
        /\ handler' = [handler EXCEPT !.rebuildJobs = FALSE]
        /\ UNCHANGED <<subs, live, coreSubs, errored, overtaken>>
    BY <1>1 DEF RebuildJobs
  <2>0. PICK done \in SUBSET handler.sched :
          jobs' = done /\ failed' = (failed \ Schedules) \cup (handler.sched \ done)
    BY <1>1 DEF RebuildJobs, Reported
  <2>2. /\ handler'.busy = handler.busy /\ handler'.rebuildJobs = FALSE
        /\ handler'.rebuildCore = handler.rebuildCore /\ handler'.sched = handler.sched
        /\ handler'.core = handler.core /\ handler'.add = handler.add /\ handler'.remove = handler.remove
    BY <1>a, <2>1 DEF Handlers
  <2>3. HandlerMeans'
    BY <1>a, <1>d, <1>e, <2>1, <2>2 DEF HandlerMeans
  <2>6. handler.sched = Wanted(Schedules)
    BY <1>a, <2>1 DEF HandlerMeans
  <2>7. /\ Wanted(CoreSubjects) \ failed' = Wanted(CoreSubjects) \ failed
        /\ jobs' = Wanted(Schedules) \ failed'
    BY <2>0, <2>6, TriggerAssumption DEF Wanted
  <2>4. SubsMean' /\ CoreMeans' /\ StopMeans'
    BY <1>a, <1>c, <1>d, <2>1, <2>2, <2>7 DEF SubsMean, CoreMeans, StopMeans
  <2>5. JobsMean'
    BY <1>a, <1>c, <1>d, <2>1, <2>7 DEF JobsMean
  <2> QED
    BY <1>d, <2>3, <2>4, <2>5 DEF Rest
<1>2. CASE RebuildCore
  <2>0. PICK done \in SUBSET handler.core :
          /\ coreSubs' = IF closed THEN coreSubs ELSE done
          /\ failed' = IF closed THEN failed ELSE (failed \ CoreSubjects) \cup (handler.core \ done)
    BY <1>2 DEF RebuildCore, Rebuild, Reported
  <2>1. /\ handler.rebuildCore
        /\ handler' = [handler EXCEPT !.rebuildCore = FALSE]
        /\ overtaken' = (overtaken \/ (pc = "rebuild" /\ handler.core # snapshot))
        /\ UNCHANGED <<subs, live, jobs, errored>>
    BY <1>2 DEF RebuildCore
  <2>2. /\ handler'.busy = handler.busy /\ handler'.rebuildCore = FALSE
        /\ handler'.rebuildJobs = handler.rebuildJobs /\ handler'.sched = handler.sched
        /\ handler'.core = handler.core /\ handler'.add = handler.add /\ handler'.remove = handler.remove
    BY <1>a, <2>1 DEF Handlers
  <2>3. HandlerMeans'
    BY <1>a, <1>d, <1>e, <2>1, <2>2 DEF HandlerMeans
  <2>5. handler.core = Wanted(CoreSubjects)
    BY <1>a, <2>1 DEF HandlerMeans
  <2>8. /\ Wanted(Schedules) \ failed' = Wanted(Schedules) \ failed
        /\ closed \/ coreSubs' = Wanted(CoreSubjects) \ failed'
    BY <2>0, <2>5, TriggerAssumption DEF Wanted
  <2>4. SubsMean' /\ JobsMean'
    BY <1>a, <1>c, <1>d, <2>1, <2>2, <2>8 DEF SubsMean, JobsMean
  <2>6. CoreMeans'
    BY <1>a, <1>c, <1>d, <2>1, <2>5, <2>8 DEF CoreMeans, StopMeans
  <2>7. StopMeans'
    BY <1>a, <1>c, <2>0, <2>1, <2>2 DEF StopMeans
  <2> QED
    BY <1>d, <2>3, <2>4, <2>6, <2>7 DEF Rest
<1>3. ASSUME NEW s \in JsSubjects, Subscribe(s) PROVE Goal
  <2>1. /\ handler.busy /\ s \in handler.add
        /\ handler' = [handler EXCEPT !.add = @ \ {s}]
        /\ UNCHANGED <<coreSubs, jobs, overtaken, failed>>
    BY <1>3 DEF Subscribe
  <2>2. /\ handler'.busy = handler.busy /\ handler'.rebuildJobs = handler.rebuildJobs
        /\ handler'.rebuildCore = handler.rebuildCore /\ handler'.sched = handler.sched
        /\ handler'.core = handler.core /\ handler'.add = handler.add \ {s}
        /\ handler'.remove = handler.remove
    BY <1>a, <2>1 DEF Handlers
  <2>3. HandlerMeans'
    BY <1>a, <1>d, <2>1, <2>2 DEF HandlerMeans
  <2>4. CoreMeans' /\ JobsMean' /\ StopMeans'
    BY <1>a, <1>c, <1>d, <1>e, <2>1, <2>2 DEF CoreMeans, JobsMean, StopMeans
  <2>5. s \in Needed /\ pc \notin {"stopped", "failed"}
    BY <1>a, <1>e, <2>1 DEF HandlerMeans
  <2>6. \/ live \cup errored \cup {s} \subseteq live' \cup errored'
        \/ (s \in subs /\ UNCHANGED <<live, errored>>)
    BY <1>3 DEF Subscribe
  <2>7. /\ subs' \subseteq subs \cup {s}
        /\ s \in subs' => s \in subs \/ s \in live' \cup errored'
        /\ live' \subseteq live \cup {s}
        /\ pc = "build" => subs' = subs
    BY <1>3 DEF Subscribe, SubMgrReady
  <2>8. live \cup errored \cup {s} \subseteq live' \cup errored'
    BY <1>a, <2>5, <2>6 DEF SubsMean
  <2>9. SubsMean'
    BY <1>a, <1>c, <1>d, <2>2, <2>5, <2>7, <2>8 DEF SubsMean
  <2> QED
    BY <1>d, <2>3, <2>4, <2>9 DEF Rest
<1>4. ASSUME NEW s \in JsSubjects, Unsubscribe(s) PROVE Goal
  <2>1. /\ handler.busy /\ s \in handler.remove
        /\ handler' = [handler EXCEPT !.remove = @ \ {s}]
        /\ UNCHANGED <<coreSubs, jobs, errored, overtaken, failed>>
    BY <1>4 DEF Unsubscribe, history
  <2>2. /\ handler'.busy = handler.busy /\ handler'.rebuildJobs = handler.rebuildJobs
        /\ handler'.rebuildCore = handler.rebuildCore /\ handler'.sched = handler.sched
        /\ handler'.core = handler.core /\ handler'.add = handler.add
        /\ handler'.remove = handler.remove \ {s}
    BY <1>a, <2>1 DEF Handlers
  <2>3. HandlerMeans'
    BY <1>a, <1>d, <2>1, <2>2 DEF HandlerMeans
  <2>4. CoreMeans' /\ JobsMean' /\ StopMeans'
    BY <1>a, <1>c, <1>d, <1>e, <2>1, <2>2 DEF CoreMeans, JobsMean, StopMeans
  <2>5. s \notin Needed
    BY <1>a, <2>1 DEF HandlerMeans
  <2>6. (subs' = subs \ {s} /\ live' = live \ {s}) \/ (pc = "build" /\ UNCHANGED <<subs, live>>)
    BY <1>4 DEF Unsubscribe, SubMgrReady
  <2>7. live \subseteq subs
    BY DEF TypeOK
  <2>8. SubsMean'
    BY <1>a, <1>c, <1>d, <2>1, <2>2, <2>5, <2>6, <2>7 DEF SubsMean
  <2> QED
    BY <1>d, <2>3, <2>4, <2>8 DEF Rest
<1>5. CASE HandlerReturns
  <2>1. /\ handler' = Idle /\ ~handler.rebuildJobs /\ ~handler.rebuildCore
        /\ handler.add = {} /\ handler.remove = {}
        /\ UNCHANGED <<subs, live, coreSubs, jobs, errored, overtaken, failed>>
    BY <1>5 DEF HandlerReturns, Called, services, history
  <2>2. HandlerMeans'
    BY <1>b, <2>1 DEF HandlerMeans
  <2>3. SubsMean' /\ CoreMeans' /\ JobsMean' /\ StopMeans'
    BY <1>a, <1>b, <1>c, <1>d, <2>1 DEF SubsMean, CoreMeans, JobsMean, StopMeans
  <2> QED
    BY <1>d, <2>2, <2>3 DEF Rest
<1> QED
  <2> HIDE DEF Goal
  <2> QED
    BY <1>1, <1>2, <1>3, <1>4, <1>5

\* A step of startup or shutdown.
LEMMA MainKeeps ==
  ASSUME TypeOK, Rest, MainStep \/ CloseResponder
  PROVE  Rest'
<1> DEFINE Goal == Rest'
<1> SUFFICES Goal
  OBVIOUS
<1>a. HandlerMeans /\ SubsMean /\ CoreMeans /\ JobsMean /\ StopMeans /\ QueueMeans
  BY DEF Rest
<1>b. UNCHANGED <<store, current, ruleset, subs, errored, shed, overtaken, missed, unseen>>
  BY DEF MainStep, Start, RegisterSchedules, RegisterFails, SetScheduleCallback, WaitReady,
     WaitReadyTimesOut, GiveUp, ReadCoreRules, Bootstrap,
     StopWatch, WatchStopped, CloseBroker, CloseResponder, bucket, rules, services, history
<1>c. /\ Needed' = Needed /\ Wanted(Schedules)' = Wanted(Schedules)
      /\ Wanted(CoreSubjects)' = Wanted(CoreSubjects) /\ AllRules(current)' = AllRules(current)
  BY <1>b DEF Needed, Wanted, AllRules
<1>0. CASE RegisterFails \/ WaitReadyTimesOut
  <2>1. /\ watch' = "stopped" /\ updates' = <<>> /\ handler' = Idle /\ live' = {} /\ coreSubs' = {}
        /\ pc' = "failed" /\ closed' = closed /\ pc \in {"scheduler", "waitReady"}
    BY <1>0 DEF RegisterFails, WaitReadyTimesOut, GiveUp, Goto
  <2>2. HandlerMeans' /\ SubsMean' /\ CoreMeans' /\ JobsMean' /\ StopMeans'
    BY <1>a, <1>b, <1>c, <2>1, HandlerTypes DEF HandlerMeans, SubsMean, CoreMeans, JobsMean, StopMeans
  <2>3. QueueMeans'
    BY <1>a, <1>b, <2>1, EmptyQueue
  <2> QED
    BY <2>2, <2>3 DEF Rest
<1>d. ASSUME handler' = handler PROVE HandlerMeans'
  BY <1>a, <1>b, <1>c, <1>d DEF HandlerMeans
<1>e. ASSUME UNCHANGED <<updates, watch>> PROVE QueueMeans'
  BY <1>a, <1>b, <1>e, SameQueue
<1>1. CASE Start \/ SetScheduleCallback \/ WaitReady \/ WatchStopped
  <2>1. UNCHANGED <<handler, updates, watch, live, coreSubs, closed, jobs, snapshot, failed>>
    BY <1>1 DEF Start, SetScheduleCallback, WaitReady, WatchStopped, watching, services, history
  <2>2. \/ pc = "build" /\ pc' = "router"
        \/ pc = "router" /\ pc' = "scheduler"
        \/ pc = "callback" /\ pc' = "waitReady"
        \/ pc = "waitReady" /\ pc' = "bootstrap"
        \/ pc = "waitWatch" /\ pc' = "closeBroker" /\ ~handler.busy
    BY <1>1 DEF Start, SetScheduleCallback, WaitReady, WatchStopped, Goto
  <2>3. SubsMean' /\ CoreMeans' /\ JobsMean'
    BY <1>a, <1>b, <1>c, <2>1, <2>2 DEF SubsMean, CoreMeans, JobsMean
  <2>4. StopMeans'
    BY <1>a, <1>b, <2>1, <2>2 DEF StopMeans
  <2> QED
    BY <1>d, <1>e, <2>1, <2>3, <2>4 DEF Rest
<1>2. CASE RegisterSchedules
  <2>1. /\ UNCHANGED <<handler, updates, watch, live, coreSubs, closed, snapshot>>
        /\ pc = "scheduler" /\ pc' = "callback" /\ jobs' = ruleset \cap Schedules
        /\ failed' = failed \ Schedules
    BY <1>2 DEF RegisterSchedules, watching, Goto, Reported
  <2>2. SubsMean' /\ CoreMeans' /\ StopMeans'
    BY <1>a, <1>b, <1>c, <2>1 DEF SubsMean, CoreMeans, StopMeans
  <2>3. JobsMean'
    <3>1. jobs' = Wanted(Schedules) \ failed' /\ ruleset = AllRules(current)
      BY <1>a, <2>1 DEF JobsMean, Wanted
    <3> QED
      BY <1>b, <1>c, <3>1 DEF JobsMean
  <2> QED
    BY <1>d, <1>e, <2>1, <2>2, <2>3 DEF Rest
<1>3. CASE ReadCoreRules \/ Bootstrap
  <2>1. /\ UNCHANGED <<handler, updates, watch, live, closed, jobs>>
        /\ \/ /\ pc = "bootstrap" /\ pc' = "rebuild"
              /\ snapshot' = Wanted(CoreSubjects) /\ coreSubs' = coreSubs /\ failed' = failed
           \/ pc = "rebuild" /\ pc' = "running" /\ Rebuild(snapshot)
    BY <1>3 DEF ReadCoreRules, Bootstrap, watching, services, history, Goto, Wanted
  <2>4. ~closed /\ snapshot \subseteq CoreSubjects
    BY <1>a, <2>1 DEF StopMeans, TypeOK
  <2>5. /\ Wanted(Schedules) \ failed' = Wanted(Schedules) \ failed
        /\ pc = "rebuild" => coreSubs' = snapshot \ failed'
    BY <2>1, <2>4, TriggerAssumption DEF Wanted, Rebuild, Reported
  <2>2. SubsMean' /\ JobsMean'
    BY <1>a, <1>b, <1>c, <2>1, <2>5 DEF SubsMean, JobsMean
  <2>3. CoreMeans' /\ StopMeans'
    BY <1>a, <1>b, <1>c, <2>1, <2>4, <2>5 DEF CoreMeans, StopMeans
  <2> QED
    BY <1>d, <1>e, <2>1, <2>2, <2>3 DEF Rest
<1>4. CASE CloseResponder
  <2>1. /\ UNCHANGED <<handler, updates, watch, live, jobs, snapshot, failed>>
        /\ pc = "running" /\ pc' = "stopWatch" /\ closed' = TRUE /\ coreSubs' = {}
    BY <1>4 DEF CloseResponder, watching, history, Goto
  <2>2. SubsMean' /\ CoreMeans' /\ JobsMean' /\ StopMeans'
    BY <1>a, <1>b, <1>c, <2>1 DEF SubsMean, CoreMeans, JobsMean, StopMeans
  <2> QED
    BY <1>d, <1>e, <2>1, <2>2 DEF Rest
<1>5. CASE StopWatch
  <2>1. /\ UNCHANGED <<handler, live, coreSubs, closed, jobs, snapshot, failed>> /\ watch' = "stopped" /\ updates' = <<>>
        /\ pc = "stopWatch" /\ pc' = "waitWatch"
    BY <1>5 DEF StopWatch, services, history, Goto
  <2>2. SubsMean' /\ CoreMeans' /\ JobsMean' /\ StopMeans'
    BY <1>a, <1>b, <1>c, <2>1 DEF SubsMean, CoreMeans, JobsMean, StopMeans
  <2>3. QueueMeans'
    BY <1>a, <1>b, <2>1, EmptyQueue
  <2> QED
    BY <1>d, <2>1, <2>2, <2>3 DEF Rest
<1>6. CASE CloseBroker
  <2>1. /\ UNCHANGED <<handler, updates, watch, coreSubs, closed, jobs, snapshot, failed>> /\ live' = {}
        /\ pc = "closeBroker" /\ pc' = "stopped"
    BY <1>6 DEF CloseBroker, watching, history, Goto
  <2>2. SubsMean' /\ CoreMeans' /\ JobsMean' /\ StopMeans'
    BY <1>a, <1>b, <1>c, <2>1 DEF SubsMean, CoreMeans, JobsMean, StopMeans
  <2> QED
    BY <1>d, <1>e, <2>1, <2>2 DEF Rest
<1> QED
  <2> HIDE DEF Goal
  <2> QED
    BY <1>0, <1>1, <1>2, <1>3, <1>4, <1>5, <1>6 DEF MainStep

\* A step of the bucket, or of the watcher up to its critical section.
LEMMA WatcherKeeps ==
  ASSUME TypeOK, Rest,
         \/ \E k \in Keys : Put(k) \/ Delete(k) \/ Compact(k)
         \/ WatchLost
         \/ WatchGoesStale
         \/ Rewatch
         \/ Ready
         \/ RejectPut
         \/ CommitPut
         \/ CommitDelete
  PROVE  Rest'
<1> DEFINE Goal == Rest'
<1> SUFFICES Goal
  OBVIOUS
<1>a. HandlerMeans /\ SubsMean /\ CoreMeans /\ JobsMean /\ StopMeans /\ QueueMeans
  BY DEF Rest
<1>b. ASSUME UNCHANGED <<current, ruleset, handler, services, pc, snapshot, history>>,
             watch' = watch \/ (watch' # "stopped" /\ watch # "stopped")
      PROVE  HandlerMeans' /\ SubsMean' /\ CoreMeans' /\ JobsMean' /\ StopMeans'
  <2>1. HandlerMeans' /\ SubsMean' /\ CoreMeans' /\ JobsMean'
    BY <1>a, <1>b, Calm
  <2>2. StopMeans'
    BY <1>a, <1>b DEF StopMeans, services
  <2> QED
    BY <2>1, <2>2
<1>1. ASSUME NEW k \in Keys, Put(k) \/ Delete(k) PROVE Goal
  <2>1. PICK e \in Entries : e.kind # "none" /\ Change(k, e)
    BY <1>1 DEF Put, Delete, Entries, Entry
  <2>2. QueueMeans'
    BY <1>a, <2>1, ChangeQueue
  <2>3. UNCHANGED <<current, ruleset, handler, services, pc, snapshot, history, watch>>
    BY <2>1 DEF Change, rules
  <2> QED
    BY <1>b, <2>2, <2>3 DEF Rest
<1>1a. ASSUME NEW k \in Keys, Compact(k) PROVE Goal
  <2>1. QueueMeans'
    BY <1>a, <1>1a, CompactQueue
  <2>2. UNCHANGED <<current, ruleset, handler, services, pc, snapshot, history, watch>>
    BY <1>1a DEF Compact, rules, watching
  <2> QED
    BY <1>b, <2>1, <2>2 DEF Rest
<1>1b. CASE WatchGoesStale
  <2>1. QueueMeans'
    BY <1>a, <1>1b, StaleQueue
  <2>2. /\ UNCHANGED <<current, ruleset, handler, services, pc, snapshot, history>>
        /\ watch = "live" /\ watch' = "stale"
    BY <1>1b DEF WatchGoesStale, rules
  <2> QED
    BY <1>b, <2>1, <2>2 DEF Rest
<1>2. CASE WatchLost
  <2>1. /\ UNCHANGED <<store, current, ruleset, handler, services, pc, snapshot, history, unseen>>
        /\ watch # "stopped" /\ watch' = "lost" /\ updates' = <<>>
    BY <1>2 DEF WatchLost, rules
  <2>2. QueueMeans'
    BY <1>a, <2>1, EmptyQueue
  <2> QED
    BY <1>b, <2>1, <2>2 DEF Rest
<1>3. CASE Rewatch
  <2>1. /\ UNCHANGED <<current, ruleset, handler, services, pc, snapshot, history>>
        /\ watch = "lost" /\ watch' = "live"
    BY <1>3 DEF Rewatch, rules
  <2>2. QueueMeans'
    BY <1>a, <1>3, RewatchQueue
  <2> QED
    BY <1>b, <2>1, <2>2 DEF Rest
\* The event that is being handled.
<1> DEFINE k == Head(updates).key
           e == Head(updates).entry
<1>c. ASSUME NEW kinds, Receives(kinds)
      PROVE  /\ watch # "stopped" /\ ~handler.busy /\ e \in Entries /\ e.kind \in kinds
             /\ Head(updates) = Sentinel \/ (k \in Keys /\ e.kind # "none")
             /\ \A j \in Keys : Head(updates) = Update(j) => j = k /\ store[j] = e
  <2>1. /\ updates \in Seq(Events) /\ updates # <<>> /\ updates' = Tail(updates)
        /\ watch # "stopped" /\ ~handler.busy /\ e.kind \in kinds
    BY <1>c DEF Receives, TypeOK
  <2>2. Head(updates) \in Events /\ Head(updates) = updates[1] /\ 1 \in DOMAIN updates
    BY <2>1, TailFacts
  <2>3. e \in Entries
    BY <2>2 DEF Events
  <2>4. Head(updates) = Sentinel \/ (k \in Keys /\ e.kind # "none")
    BY <1>a, <2>2 DEF QueueMeans
  <2>5. \A j \in Keys : Head(updates) = Update(j) => j = k /\ store[j] = e
    BY DEF Update
  <2> QED
    BY <2>1, <2>3, <2>4, <2>5
<1>d. Sentinel.key \notin Keys /\ Sentinel.entry.kind = "none"
  BY KeysAssumption DEF Sentinel, Absent, Entry
<1> HIDE DEF k, e
<1>4. CASE Ready \/ RejectPut
  <2>1. PICK kinds \in {{"none"}, {"bad"}} : Receives(kinds)
    BY <1>4 DEF Ready, RejectPut
  <2>2. UNCHANGED <<store, watch, current, ruleset, handler, services, pc, snapshot, history, unseen>>
    BY <1>4 DEF Ready, RejectPut, bucket, rules
  <2>3. \A j \in Keys : Head(updates) = Update(j) => store[j].kind = "bad"
    <3> SUFFICES ASSUME NEW j \in Keys, Head(updates) = Update(j) PROVE store[j].kind = "bad"
      OBVIOUS
    <3>1. j = k /\ store[j] = e /\ e.kind \in kinds /\ (Head(updates) = Sentinel \/ e.kind # "none")
      BY <1>c, <2>1
    <3>2. Head(updates) # Sentinel
      BY <1>d DEF Update
    <3> QED
      BY <2>1, <3>1, <3>2
  <2>4. QueueMeans'
    BY <1>a, <2>1, <2>2, <2>3, TailQueue
  <2> QED
    BY <1>b, <2>2, <2>4 DEF Rest
<1>5. CASE CommitPut
  <2> DEFINE new == e.rules
             old == current[k]
             cur == [current EXCEPT ![k] = new]
             add == (new \ old) \cap JsSubjects
  <2>1. /\ Receives({"put"}) /\ current' = cur /\ ruleset' = AllRules(cur)
        /\ handler' = Callbacks(old, new, cur, add, {})
        /\ shed' = shed \cup ((old \ AllRules(cur)) \cap JsSubjects)
        /\ missed' = MissedSchedules(old, new)
        /\ UNCHANGED <<store, watch, services, pc, snapshot, errored, overtaken, failed, unseen>>
    BY <1>5 DEF CommitPut, bucket, k, e
  <2>2. /\ watch # "stopped" /\ ~handler.busy /\ e \in Entries /\ e.kind = "put"
        /\ Head(updates) = Sentinel \/ k \in Keys
        /\ \A j \in Keys : Head(updates) = Update(j) => j = k /\ store[j] = e
    BY <1>c, <2>1
  <2>3. k \in Keys /\ new \in SUBSET Triggers
    <3>1. Head(updates) # Sentinel
      BY <1>d, <2>2 DEF e
    <3> QED
      BY <2>2, <3>1, EntryFacts
  <2>4. QueueMeans'
    <3>1. current \in [Keys -> SUBSET Triggers]
      BY DEF TypeOK
    <3>2. current'[k] = e.rules /\ \A j \in Keys : k # j => current'[j] = current[j]
      BY <2>1, <2>3, <3>1
    <3>3. \A j \in Keys : Head(updates) = Update(j) => current'[j] = store[j].rules
      BY <2>2, <3>2
    <3>4. \A j \in Keys : Head(updates).key # j => current'[j] = current[j]
      BY <3>2 DEF k
    <3> QED
      BY <1>a, <2>1, <3>3, <3>4, TailQueue
  <2>5. /\ add \in SUBSET JsSubjects /\ {} \in SUBSET JsSubjects /\ shed \subseteq shed'
        /\ (new \ old) \cap JsSubjects \subseteq add /\ add \subseteq new
        /\ (old \ AllRules(cur)) \cap JsSubjects \subseteq {} \cup shed'
        /\ {} \cap AllRules(cur) = {}
    BY <2>1
  <2>6. old = current[k] /\ cur = [current EXCEPT ![k] = new]
    OBVIOUS
  <2> HIDE DEF old, new, cur, add
  <2>7. HandlerMeans' /\ SubsMean' /\ CoreMeans' /\ JobsMean' /\ StopMeans'
    BY <1>a, <2>1, <2>2, <2>3, <2>5, <2>6, CommitKeeps
  <2> QED
    BY <2>4, <2>7 DEF Rest
<1>6. CASE CommitDelete
  <2> DEFINE old == current[k]
             cur == [current EXCEPT ![k] = {}]
             remove == NotNeeded(old, cur)
  <2>1. /\ Receives({"del"}) /\ current' = cur /\ ruleset' = AllRules(cur)
        /\ handler' = IF old = {} THEN Idle ELSE Callbacks(old, {}, cur, {}, remove)
        /\ missed' = MissedSchedules(old, {})
        /\ UNCHANGED <<store, watch, services, pc, snapshot, errored, shed, overtaken, failed, unseen>>
    BY <1>6 DEF CommitDelete, bucket, k
  <2>2. /\ watch # "stopped" /\ ~handler.busy /\ e \in Entries /\ e.kind = "del"
        /\ Head(updates) = Sentinel \/ k \in Keys
        /\ \A j \in Keys : Head(updates) = Update(j) => j = k /\ store[j] = e
    BY <1>c, <2>1
  <2>3. k \in Keys /\ e.rules = {}
    <3>1. Head(updates) # Sentinel
      BY <1>d, <2>2 DEF e
    <3> QED
      BY <2>2, <3>1, EntryFacts
  <2>4. QueueMeans'
    <3>1. current \in [Keys -> SUBSET Triggers]
      BY DEF TypeOK
    <3>2. current'[k] = {} /\ \A j \in Keys : k # j => current'[j] = current[j]
      BY <2>1, <2>3, <3>1
    <3>3. \A j \in Keys : Head(updates) = Update(j) => current'[j] = store[j].rules
      BY <2>2, <2>3, <3>2
    <3>4. \A j \in Keys : Head(updates).key # j => current'[j] = current[j]
      BY <3>2 DEF k
    <3> QED
      BY <1>a, <2>1, <3>3, <3>4, TailQueue
  <2>5. CASE old = {}
    <3>1. current' = current
      BY <2>1, <2>3, <2>5 DEF TypeOK
    <3>2. handler' = handler
      BY <1>a, <2>1, <2>2, <2>5 DEF HandlerMeans
    <3>3. ruleset' = ruleset
      BY <1>a, <2>1, <3>1 DEF JobsMean
    <3>4. missed' = missed
      BY <2>1, <2>5 DEF MissedSchedules, TypeOK
    <3> QED
      BY <1>b, <2>1, <2>4, <3>1, <3>2, <3>3, <3>4 DEF Rest, history
  <2>6. CASE old # {}
    <3>1. /\ handler' = Callbacks(old, {}, cur, {}, remove)
          /\ remove \in SUBSET JsSubjects /\ {} \in SUBSET JsSubjects /\ {} \in SUBSET Triggers
          /\ ({} \ old) \cap JsSubjects \subseteq {} /\ {} \subseteq {} /\ shed \subseteq shed'
          /\ (old \ AllRules(cur)) \cap JsSubjects \subseteq remove \cup shed'
          /\ remove \cap AllRules(cur) = {}
      BY <2>1, <2>6 DEF NotNeeded
    <3>2. old = current[k] /\ cur = [current EXCEPT ![k] = {}]
      OBVIOUS
    <3> HIDE DEF old, cur, remove
    <3>3. HandlerMeans' /\ SubsMean' /\ CoreMeans' /\ JobsMean' /\ StopMeans'
      BY <1>a, <2>1, <2>2, <2>3, <3>1, <3>2, CommitKeeps
    <3> QED
      BY <2>4, <3>3 DEF Rest
  <2> QED
    BY <2>5, <2>6
<1> QED
  <2> HIDE DEF Goal
  <2> QED
    BY <1>1, <1>1a, <1>1b, <1>2, <1>3, <1>4, <1>5, <1>6

\* Every step preserves the invariant.
LEMMA NextInd == IndInv /\ [Next]_vars => IndInv'
<1> SUFFICES ASSUME TypeOK, Rest, [Next]_vars PROVE TypeOK' /\ Rest'
  BY DEF IndInv
<1>1. TypeOK'
  BY NextType
<1>2. CASE UNCHANGED vars
  <2>1. HandlerMeans' /\ SubsMean' /\ CoreMeans' /\ JobsMean'
    BY <1>2, Calm DEF Rest, vars, services, history
  <2>2. StopMeans'
    BY <1>2 DEF Rest, vars, StopMeans
  <2>3. QueueMeans'
    BY <1>2, SameQueue DEF Rest, vars
  <2> QED
    BY <1>1, <2>1, <2>2, <2>3 DEF Rest
<1>3. CASE Next
  <2>1. Rest'
    BY <1>3, HandlerStep, MainKeeps, WatcherKeeps DEF Next, WatcherStep
  <2> QED
    BY <1>1, <2>1
<1> QED
  BY <1>2, <1>3

\* The rule manager keeps its invariant: what the rules need is subscribed,
\* reported or still to be done, and what the bucket holds is in effect or
\* still in the channel (rule_kv_manager.go:199-405).
THEOREM Inductive == Spec => []IndInv
<1>1. Init => IndInv
  BY InitInd
<1>2. IndInv /\ [Next]_vars => IndInv'
  BY NextInd
<1> QED
  BY <1>1, <1>2, PTL DEF Spec

\* At rest every transport serves the rules in effect, but for what the last
\* start or rebuild reported and the two races of startup, for every bucket and
\* every order of puts, deletes, replays, failures and startup
\* (rule_kv_manager.go:342-405, responder.go:64-118, router.go:68-78,
\* scheduler.go:66-104 and 208-225).
THEOREM RestIsServed == Spec => []AtRestServed
<1>1. IndInv => AtRestServed
  <2> SUFFICES ASSUME IndInv, Quiet PROVE AtRestServed
    BY DEF AtRestServed, ServedOrReported, StaleOnlyByPut, CoreConverges, JobsConverge
  <2>1. handler = Idle /\ pc = "running"
    BY DEF IndInv, Rest, HandlerMeans, Quiet
  <2>2. /\ Needed \subseteq live \cup errored /\ live \subseteq Needed \cup shed
        /\ ~overtaken => coreSubs = (AllRules(current) \cap CoreSubjects) \ failed
        /\ ~missed => jobs = (AllRules(current) \cap Schedules) \ failed
    BY <2>1, HandlerTypes DEF IndInv, Rest, SubsMean, CoreMeans, JobsMean, Wanted
  <2> QED
    BY <2>2 DEF AtRestServed, ServedOrReported, StaleOnlyByPut, CoreConverges, JobsConverge
<1> QED
  BY <1>1, Inductive, PTL

\* After shutdown no handler runs and nothing is subscribed, whatever raced
\* it (responder.go:68-72).
THEOREM StopStaysFinal == Spec => []StopIsFinal
<1>1. IndInv => StopIsFinal
  BY DEF IndInv, Rest, StopMeans, StopIsFinal
<1> QED
  BY <1>1, Inductive, PTL

\* At rest the rules in effect are the bucket's: no put or delete is lost,
\* across any number of lost watches, but for what a silent watcher kept back
\* and a delete marker compacted away unseen (rule_kv_manager.go:191-246).
THEOREM NoChangeIsLost == Spec => []BucketInEffect
<1>1. IndInv => BucketInEffect
  <2> SUFFICES ASSUME IndInv, Quiet, NEW k \in Keys \ unseen, store[k].kind # "bad"
               PROVE  current[k] = store[k].rules
    BY DEF BucketInEffect
  <2>1. DOMAIN updates = {}
    BY DEF Quiet
  <2>2. Told(k) \/ Coming(k)
    BY DEF IndInv, Rest, QueueMeans, Quiet
  <2> QED
    BY <2>1, <2>2 DEF Told, Coming
<1> QED
  BY <1>1, Inductive, PTL
=============================================================================
