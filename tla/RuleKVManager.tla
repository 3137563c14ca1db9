--------------------------- MODULE RuleKVManager ----------------------------
(***************************************************************************)
(* Hot-reloaded rules: the watcher goroutine of                            *)
(* internal/broker/rule_kv_manager.go, which turns changes of the rules    *)
(* bucket into a rule set, JetStream subscriptions, core subscriptions and *)
(* cron jobs, running beside the startup and shutdown sequence of          *)
(* cmd/rule-router/main.go and internal/app.                               *)
(*                                                                         *)
(* A bucket value is the set of triggers of its rules, or one that         *)
(* validation rejects.  A handler takes several steps: the code calls the  *)
(* rebuild callbacks and the broker after it has released m.mu.            *)
(***************************************************************************)
EXTENDS Naturals, Sequences, SequencesExt

CONSTANTS Keys,        \* keys of the bucket
          JsSubjects,  \* JetStream trigger subjects
          CoreSubjects,\* core (mode: core, reply) trigger subjects
          Schedules,   \* schedule triggers
          Versions,    \* the rule sets operators put: sets of triggers
          Outcomes,    \* how starting a subscription may turn out
          MaxChanges   \* bound on puts, deletes and watch losses

Triggers == JsSubjects \cup CoreSubjects \cup Schedules

ASSUME TriggerAssumption ==
  /\ JsSubjects \cap CoreSubjects = {}
  /\ JsSubjects \cap Schedules = {}
  /\ CoreSubjects \cap Schedules = {}
\* A bucket has finitely many keys; the nil sentinel has none of them.
ASSUME KeysAssumption == IsFiniteSet(Keys) /\ "none" \notin Keys
ASSUME ChangesAssumption == MaxChanges \in Nat
ASSUME VersionAssumption == Versions \subseteq SUBSET Triggers
ASSUME OutcomeAssumption == "ok" \in Outcomes /\ Outcomes \subseteq {"ok", "noConsumer", "noIterator"}

VARIABLES store,    \* the bucket (external): per key its last entry
          changes,  \* operator actions so far
          updates,  \* the watcher's channel
          watch,    \* the watch: live, stale (open, but silent), lost (closed), stopped
          synced,   \* m.ready is closed
          current,  \* m.currentRules
          ruleset,  \* the processor's KVRuleSet
          handler,  \* the watcher goroutine's handler in progress
          subs,     \* the subscription manager's map
          live,     \* its subscriptions whose workers run
          coreSubs, \* the responder's subscriptions
          closed,   \* the responder is closed
          jobs,     \* KV-sourced cron jobs
          pc,       \* the main goroutine
          snapshot, \* the core rules Run has read
          errored,  \* history: subjects whose start was reported to fail
          shed,     \* history: subjects a re-put removed from a key
          overtaken,\* history: a core rebuild came between Run's read and its Rebuild
          missed,   \* history: schedule rules committed before the callback was set
          failed,   \* history: what the last rebuild was reported to have failed for
          unseen    \* history: keys whose last change this watch will not deliver

bucket == <<store, changes>>
watching == <<updates, watch, synced>>
rules == <<current, ruleset>>
services == <<subs, live, coreSubs, closed, jobs>>
history == <<errored, shed, overtaken, missed, failed>>
vars == <<store, changes, updates, watch, synced, current, ruleset, handler, subs, live,
          coreSubs, closed, jobs, pc, snapshot, errored, shed, overtaken, missed, failed, unseen>>

Entry(kind, set) == [kind |-> kind, rules |-> set]
Absent == Entry("none", {})
Entries == {Absent, Entry("del", {}), Entry("bad", {})} \cup {Entry("put", v) : v \in Versions}
Events == [key : Keys \cup {"none"}, entry : Entries]

Idle == [busy |-> FALSE, rebuildJobs |-> FALSE, rebuildCore |-> FALSE,
         sched |-> {}, core |-> {}, add |-> {}, remove |-> {}]

Handlers == [busy : BOOLEAN, rebuildJobs : BOOLEAN, rebuildCore : BOOLEAN,
             sched : SUBSET Schedules, core : SUBSET CoreSubjects,
             add : SUBSET JsSubjects, remove : SUBSET JsSubjects]

\* Where createApp, Run and Close are.
Pcs == {"build", "router", "scheduler", "callback", "waitReady", "bootstrap", "rebuild",
        "running", "stopWatch", "waitWatch", "closeBroker", "stopped", "failed"}
SubMgrReady == pc # "build"
CoreCallback == pc \notin {"build", "router"}
ScheduleCallback == pc \notin {"build", "router", "scheduler", "callback"}

TypeOK ==
  /\ store \in [Keys -> Entries]
  /\ changes \in 0 .. MaxChanges
  /\ watch \in {"live", "stale", "lost", "stopped"}
  /\ synced \in BOOLEAN
  /\ current \in [Keys -> SUBSET Triggers]
  /\ ruleset \in SUBSET Triggers
  /\ updates \in Seq(Events)
  /\ handler \in Handlers
  /\ live \subseteq subs /\ subs \subseteq JsSubjects
  /\ coreSubs \subseteq CoreSubjects /\ closed \in BOOLEAN /\ jobs \subseteq Schedules
  /\ pc \in Pcs
  /\ snapshot \subseteq CoreSubjects
  /\ errored \subseteq JsSubjects /\ shed \subseteq JsSubjects
  /\ overtaken \in BOOLEAN /\ missed \in BOOLEAN
  /\ failed \subseteq CoreSubjects \cup Schedules /\ unseen \subseteq Keys

Update(k) == [key |-> k, entry |-> store[k]]
Sentinel == [key |-> "none", entry |-> Absent]

\* A new watch replays each key's last entry, delete markers included, and
\* then the nil sentinel.
Replays == {Append(s, Sentinel) : s \in SetToSeqs({Update(k) : k \in {j \in Keys : store[j] # Absent}})}

Init ==
  /\ store \in [Keys -> {Absent} \cup {Entry("put", v) : v \in Versions}]
  /\ changes = 0
  /\ updates \in Replays
  /\ watch = "live" /\ synced = FALSE
  /\ current = [k \in Keys |-> {}] /\ ruleset = {}
  /\ handler = Idle
  /\ subs = {} /\ live = {} /\ coreSubs = {} /\ closed = FALSE /\ jobs = {}
  /\ pc = "build" /\ snapshot = {}
  /\ errored = {} /\ shed = {} /\ overtaken = FALSE /\ missed = FALSE
  /\ failed = {} /\ unseen = {}

-----------------------------------------------------------------------------
\* Operators and the network (external).
Change(k, e) ==
  /\ changes < MaxChanges
  /\ changes' = changes + 1
  /\ store' = [store EXCEPT ![k] = e]
  /\ updates' = IF watch = "live" THEN Append(updates, [key |-> k, entry |-> e]) ELSE updates
  /\ unseen' = IF watch = "live" THEN unseen \ {k}
               ELSE IF watch = "stale" THEN unseen \cup {k} ELSE unseen
  /\ UNCHANGED <<watch, synced, rules, handler, services, pc, snapshot, history>>

Put(k) == \E e \in Entries : e.kind \in {"put", "bad"} /\ Change(k, e)
Delete(k) == store[k].kind \in {"put", "bad"} /\ Change(k, Entry("del", {}))

\* The server drops a delete marker; one that is in the channel already is
\* delivered all the same.
Compact(k) ==
  /\ store[k].kind = "del"
  /\ \A i \in DOMAIN updates : updates[i].key # k
  /\ store' = [store EXCEPT ![k] = Absent]
  /\ unseen' = IF current[k] = {} THEN unseen ELSE unseen \cup {k}
  /\ UNCHANGED <<changes, watching, rules, handler, services, pc, snapshot, history>>

\* The Updates() channel closes.
WatchLost ==
  /\ watch \in {"live", "stale"}
  /\ changes < MaxChanges
  /\ changes' = changes + 1
  /\ watch' = "lost"
  /\ updates' = <<>>
  /\ UNCHANGED <<store, synced, rules, handler, services, pc, snapshot, history, unseen>>

\* A reconnect leaves the channel open and the watcher silent: from some event
\* on nothing comes.  restartKVWatchers cycles the watchers of the cache only.
WatchGoesStale ==
  /\ watch = "live"
  /\ changes < MaxChanges
  /\ changes' = changes + 1
  /\ watch' = "stale"
  /\ \E n \in 0 .. Len(updates) :
       /\ updates' = SubSeq(updates, 1, n)
       /\ unseen' = unseen \cup {k \in Keys : \E i \in DOMAIN updates : i > n /\ updates[i].key = k}
  /\ UNCHANGED <<store, synced, rules, handler, services, pc, snapshot, history>>

\* Mutant: the new watch delivers later changes only.
RewatchUpdatesOnly ==
  /\ watch = "lost"
  /\ ~handler.busy
  /\ watch' = "live"
  /\ unseen' = {}
  /\ UNCHANGED <<bucket, updates, synced, rules, handler, services, pc, snapshot, history>>

\* runWatch creates the watch again after its backoff.
Rewatch ==
  /\ watch = "lost"
  /\ ~handler.busy
  /\ watch' = "live"
  /\ updates' \in Replays
  /\ unseen' = {k \in unseen : store[k] = Absent}
  /\ UNCHANGED <<bucket, synced, rules, handler, services, pc, snapshot, history>>

-----------------------------------------------------------------------------
\* The watcher goroutine: consumeUpdates takes one entry at a time.
Receives(kinds) ==
  /\ watch \in {"live", "stale"}
  /\ ~handler.busy
  /\ updates # <<>>
  /\ Head(updates).entry.kind \in kinds
  /\ updates' = Tail(updates)

Ready ==
  /\ Receives({"none"})
  /\ synced' = TRUE
  /\ UNCHANGED <<bucket, watch, rules, handler, services, pc, snapshot, history, unseen>>

\* A value that fails validation, or whose triggers have no stream, leaves
\* the key's previous rules in effect.
RejectPut ==
  /\ Receives({"bad"})
  /\ UNCHANGED <<bucket, watch, synced, rules, handler, services, pc, snapshot, history, unseen>>

AllRules(cur) == UNION {cur[k] : k \in Keys}

\* Mutant: only the new rules decide which callbacks are called.
CallbacksOfNew(old, new, cur, add, remove) ==
  [busy |-> TRUE,
   rebuildJobs |-> ScheduleCallback /\ new \cap Schedules # {},
   rebuildCore |-> CoreCallback /\ new \cap CoreSubjects # {},
   sched |-> AllRules(cur) \cap Schedules,
   core |-> AllRules(cur) \cap CoreSubjects,
   add |-> add, remove |-> remove]

\* The callbacks a change of a key's rules from old to new calls for, as
\* captured under m.mu, the lists they will be given, and the subjects to
\* start and to stop after them.
Callbacks(old, new, cur, add, remove) ==
  [busy |-> TRUE,
   rebuildJobs |-> ScheduleCallback /\ (old \cup new) \cap Schedules # {},
   rebuildCore |-> CoreCallback /\ (old \cup new) \cap CoreSubjects # {},
   sched |-> AllRules(cur) \cap Schedules,
   core |-> AllRules(cur) \cap CoreSubjects,
   add |-> add, remove |-> remove]

MissedSchedules(old, new) ==
  missed \/ (pc = "callback" /\ (old \cup new) \cap Schedules # {})

\* handleRulePut's critical section; pushRulesToProcessor swaps the rule set.
CommitPut ==
  LET k == Head(updates).key
      old == current[k]
      new == Head(updates).entry.rules
      cur == [current EXCEPT ![k] = new]
  IN /\ Receives({"put"})
     /\ current' = cur
     /\ ruleset' = AllRules(cur)
     /\ handler' = Callbacks(old, new, cur, (new \ old) \cap JsSubjects, {})
     /\ shed' = shed \cup ((old \ AllRules(cur)) \cap JsSubjects)
     /\ missed' = MissedSchedules(old, new)
     /\ UNCHANGED <<bucket, watch, synced, services, pc, snapshot, errored, overtaken, failed, unseen>>

\* The subjects of a deleted key that no other key's rules still need.
NotNeeded(old, cur) == (old \ AllRules(cur)) \cap JsSubjects

\* handleRuleDelete's critical section; a key without rules returns at once.
CommitDelete ==
  LET k == Head(updates).key
      old == current[k]
      cur == [current EXCEPT ![k] = {}]
  IN /\ Receives({"del"})
     /\ current' = cur
     /\ ruleset' = AllRules(cur)
     /\ handler' = IF old = {} THEN Idle
                   ELSE Callbacks(old, {}, cur, {}, NotNeeded(old, cur))
     /\ missed' = MissedSchedules(old, {})
     /\ UNCHANGED <<bucket, watch, synced, services, pc, snapshot, errored, shed, overtaken, failed, unseen>>

\* What a rebuild for set that managed only done leaves reported.
Reported(kind, set, done) == (failed \ kind) \cup (set \ done)

\* rebuildCronJobs: KV jobs are removed and the given rules registered; one
\* that cannot be registered is logged and skipped.
RebuildJobs ==
  /\ handler.rebuildJobs
  /\ \E done \in SUBSET handler.sched :
       /\ jobs' = done
       /\ failed' = Reported(Schedules, handler.sched, done)
  /\ handler' = [handler EXCEPT !.rebuildJobs = FALSE]
  /\ UNCHANGED <<bucket, watching, rules, subs, live, coreSubs, closed, pc, snapshot,
                 errored, shed, overtaken, missed, unseen>>

\* Mutant: a rebuild after Close subscribes again.
RebuildClosed(set) ==
  \E done \in SUBSET set :
    /\ coreSubs' = done
    /\ failed' = Reported(CoreSubjects, set, done)

\* Responder.Rebuild replaces every subscription, unless it is closed; a
\* subject that cannot be subscribed is logged and skipped.
Rebuild(set) ==
  \E done \in SUBSET set :
    /\ coreSubs' = IF closed THEN coreSubs ELSE done
    /\ failed' = IF closed THEN failed ELSE Reported(CoreSubjects, set, done)

RebuildCore ==
  /\ ~handler.rebuildJobs
  /\ handler.rebuildCore
  /\ Rebuild(handler.core)
  /\ handler' = [handler EXCEPT !.rebuildCore = FALSE]
  /\ overtaken' = (overtaken \/ (pc = "rebuild" /\ handler.core # snapshot))
  /\ UNCHANGED <<bucket, watching, rules, subs, live, closed, jobs, pc, snapshot,
                 errored, shed, missed, unseen>>

Called == ~handler.rebuildJobs /\ ~handler.rebuildCore

\* AddAndStartSubscription, as the broker and the subscription manager do it:
\* nothing without a manager, nothing for a subject already in the map; a
\* consumer that cannot be had leaves no entry, an iterator that cannot be
\* had leaves one without workers.
Subscribe(s) ==
  /\ handler.busy
  /\ Called
  /\ s \in handler.add
  /\ handler' = [handler EXCEPT !.add = @ \ {s}]
  /\ \/ /\ ~SubMgrReady
        /\ errored' = errored \cup {s}
        /\ UNCHANGED <<subs, live>>
     \/ /\ SubMgrReady
        /\ s \in subs
        /\ UNCHANGED <<subs, live, errored>>
     \/ /\ SubMgrReady
        /\ s \notin subs
        /\ \E outcome \in Outcomes :
             /\ subs' = IF outcome = "noConsumer" THEN subs ELSE subs \cup {s}
             /\ live' = IF outcome = "ok" THEN live \cup {s} ELSE live
             /\ errored' = IF outcome = "ok" THEN errored \ {s} ELSE errored \cup {s}
  /\ UNCHANGED <<bucket, watching, rules, coreSubs, closed, jobs, pc, snapshot,
                 shed, overtaken, missed, failed, unseen>>

\* RemoveSubscription.
Unsubscribe(s) ==
  /\ handler.busy
  /\ Called
  /\ s \in handler.remove
  /\ handler' = [handler EXCEPT !.remove = @ \ {s}]
  /\ subs' = IF SubMgrReady THEN subs \ {s} ELSE subs
  /\ live' = IF SubMgrReady THEN live \ {s} ELSE live
  /\ UNCHANGED <<bucket, watching, rules, coreSubs, closed, jobs, pc, snapshot, history, unseen>>

HandlerReturns ==
  /\ handler.busy
  /\ Called
  /\ handler.add = {} /\ handler.remove = {}
  /\ handler' = Idle
  /\ UNCHANGED <<bucket, watching, rules, services, pc, snapshot, history, unseen>>

WatcherStep ==
  \/ Rewatch
  \/ Ready
  \/ RejectPut
  \/ CommitPut
  \/ CommitDelete
  \/ RebuildJobs
  \/ RebuildCore
  \/ \E s \in JsSubjects : Subscribe(s) \/ Unsubscribe(s)
  \/ HandlerReturns

-----------------------------------------------------------------------------
\* The main goroutine.
Goto(from, to) == pc = from /\ pc' = to

\* Build creates the subscription manager; NewRouterApp registers the core
\* callback.
Start ==
  /\ Goto("build", "router") \/ Goto("router", "scheduler")
  /\ UNCHANGED <<bucket, watching, rules, handler, services, snapshot, history, unseen>>

\* createApp returns an error, with which the process ends.
GiveUp(from) ==
  /\ Goto(from, "failed")
  /\ watch' = "stopped" /\ updates' = <<>>
  /\ handler' = Idle
  /\ live' = {} /\ coreSubs' = {} /\ jobs' = {}
  /\ UNCHANGED <<bucket, synced, rules, subs, closed, snapshot, history, unseen>>

\* NewSchedulerApp registers the rule set's schedules, all of them or none ...
RegisterSchedules ==
  /\ Goto("scheduler", "callback")
  /\ jobs' = ruleset \cap Schedules
  /\ failed' = Reported(Schedules, {}, {})
  /\ UNCHANGED <<bucket, watching, rules, handler, subs, live, coreSubs, closed, snapshot,
                 errored, shed, overtaken, missed, unseen>>

RegisterFails ==
  /\ ruleset \cap Schedules # {}
  /\ GiveUp("scheduler")

\* ... and then the callback.
SetScheduleCallback ==
  /\ Goto("callback", "waitReady")
  /\ UNCHANGED <<bucket, watching, rules, handler, services, snapshot, history, unseen>>

WaitReady ==
  /\ synced
  /\ Goto("waitReady", "bootstrap")
  /\ UNCHANGED <<bucket, watching, rules, handler, services, snapshot, history, unseen>>

\* Mutant: the wait for the initial sync has no deadline.
WaitsForever == FALSE

\* The 60 seconds pass before the initial sync is over.
WaitReadyTimesOut ==
  /\ ~synced
  /\ GiveUp("waitReady")

\* RouterApp.Run reads the core rules under m.mu ...
ReadCoreRules ==
  /\ Goto("bootstrap", "rebuild")
  /\ snapshot' = AllRules(current) \cap CoreSubjects
  /\ UNCHANGED <<bucket, watching, rules, handler, services, history, unseen>>

\* ... and rebuilds the subscriptions from what it has read.
Bootstrap ==
  /\ Goto("rebuild", "running")
  /\ Rebuild(snapshot)
  /\ UNCHANGED <<bucket, watching, rules, handler, subs, live, closed, jobs, snapshot,
                 errored, shed, overtaken, missed, unseen>>

\* Close: the responder, then the rule manager, then the broker.
CloseResponder ==
  /\ Goto("running", "stopWatch")
  /\ closed' = TRUE
  /\ coreSubs' = {}
  /\ UNCHANGED <<bucket, watching, rules, handler, subs, live, jobs, snapshot, history, unseen>>

StopWatch ==
  /\ Goto("stopWatch", "waitWatch")
  /\ watch' = "stopped"
  /\ updates' = <<>>
  /\ UNCHANGED <<bucket, synced, rules, handler, services, snapshot, history, unseen>>

\* m.wg.Wait(): the handler in progress finishes.
WatchStopped ==
  /\ ~handler.busy
  /\ Goto("waitWatch", "closeBroker")
  /\ UNCHANGED <<bucket, watching, rules, handler, services, snapshot, history, unseen>>

CloseBroker ==
  /\ Goto("closeBroker", "stopped")
  /\ live' = {}
  /\ UNCHANGED <<bucket, watching, rules, handler, subs, coreSubs, closed, jobs, snapshot, history, unseen>>

MainStep ==
  \/ Start
  \/ RegisterSchedules
  \/ RegisterFails
  \/ SetScheduleCallback
  \/ WaitReady
  \/ WaitReadyTimesOut
  \/ ReadCoreRules
  \/ Bootstrap
  \/ StopWatch
  \/ WatchStopped
  \/ CloseBroker

Next ==
  \/ \E k \in Keys : Put(k) \/ Delete(k) \/ Compact(k)
  \/ WatchLost
  \/ WatchGoesStale
  \/ WatcherStep
  \/ MainStep
  \/ CloseResponder

Spec == Init /\ [][Next]_vars

\* Both goroutines run and the timer of WaitReady fires; a shutdown, a change
\* of the bucket, and a watch that is lost or goes stale are never due.
FairSpec == Spec /\ WF_vars(WatcherStep) /\ WF_vars(MainStep)

-----------------------------------------------------------------------------
\* The service runs and the watcher has nothing left to do.
Quiet == pc = "running" /\ watch \in {"live", "stale"} /\ updates = <<>> /\ ~handler.busy

Needed == AllRules(current) \cap JsSubjects

\* Whatever the order of puts, deletes, replays and startup, at rest a
\* JetStream subject some key needs is served, or its failure was reported
\* and not made good since (rule_kv_manager.go:342-353 and 385-405).
ServedOrReported == Quiet => Needed \subseteq live \cup errored

\* A subscription that no rule needs is left only by a put that removed the
\* subject from its key: deletes leave none (rule_kv_manager.go:385-405).
StaleOnlyByPut == Quiet => live \subseteq Needed \cup shed

\* At rest the core subscriptions are those of the rules but for the ones the
\* last rebuild reported (responder.go:110-113), unless a change came between
\* Run's read of the rules and its rebuild (router.go:68-78).
CoreConverges ==
  Quiet /\ ~overtaken => coreSubs = (AllRules(current) \cap CoreSubjects) \ failed

\* At rest the cron jobs are those of the rules but for the ones the last
\* rebuild reported (scheduler.go:213-217), unless a change came before the
\* callback was set and after the rules were read (scheduler.go:66-104).
JobsConverge ==
  Quiet /\ ~missed => jobs = (AllRules(current) \cap Schedules) \ failed

\* At rest every transport serves the rules in effect, with the exceptions
\* above and no other.
AtRestServed == ServedOrReported /\ StaleOnlyByPut /\ CoreConverges /\ JobsConverge

\* Once the process has stopped, no handler runs and no subscription is left,
\* even for a KV event that raced the shutdown (responder.go:68-72).
StopIsFinal == pc = "stopped" => ~handler.busy /\ live = {} /\ coreSubs = {}

\* At rest the rules in effect are the bucket's, for every key whose last
\* entry was accepted: no put or delete is lost, not even across a lost watch,
\* but for a change that a silent watcher kept back, until the watch is
\* renewed, and a delete whose marker was compacted away before a watch
\* brought it (rule_kv_manager.go:199-246, 191-198).
BucketInEffect ==
  Quiet => \A k \in Keys \ unseen : store[k].kind # "bad" => current[k] = store[k].rules

\* A start ends: the process runs, or it has given up, after at most the 60
\* seconds of main.go:102-107, although the watch may be lost or fall silent
\* before it has brought the initial rules.
StartEnds == <>(pc \in {"running", "failed"})
=============================================================================
