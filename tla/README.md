# rule-router in TLA+

rule-router evaluates rules on messages from NATS JetStream, core NATS, HTTP
webhooks and cron schedules and runs their actions (NATS publishes, HTTP
requests, replies). This directory specifies the parts of it that are hard to
test: concurrent, timed, restarted or shut down at an awkward moment. Modules
are checked with TLC on small instances (the runs of `PROJECT.json`), and the
safety properties but for four are proved for all parameters with TLAPS.

## The system

| Component | State | Operations | Hard part | Correct when |
|---|---|---|---|---|
| `deferred.Coalescer` | pending batch and timer per key, stopped flag, wait groups | `Submit`, timer callback, `execute`, `Stop` | callback against `Stop`; bounded flush | one emission per window, newest batch wins, nothing lost but past the deadline |
| `rule.ThrottleManager` | expiry per key, last sweep | `Allow` with sweep | boundary times, eviction | allowed messages a window apart, no leak |
| `broker.SubscriptionManager`, message path | iterator buffer, message in each worker | evaluate, submit, act, ack/nak/term, `Stop` | redelivery, lost answers, cancelled contexts, crash | an ack is earned, a term is hopeless, every message settles |
| `broker.SubscriptionManager`, pool | subscription map, iterators, contexts, workers | add, start, remove, worker loop, `Stop` | starts and stops from two goroutines | subjects served by one iterator each, `Stop` ends |
| `broker.RuleKVManager` with `createApp` | rules per key, watch, callbacks | put, delete, lost or silent watch, startup, shutdown | watcher against the main goroutine | services agree with the bucket |
| `lifecycle.RunWithReload` | signal channels, instance | signals, validate, create, unwind, close | signals at any moment, files edited meanwhile | one instance, shutdown honoured, bad edits survived |
| `gateway.InboundServer` | work queue, workers, handlers | handler, worker, `handleSync`, `Stop` | rule changes in flight, grace period | one answer each, accepted webhooks survive shutdown |
| `rule.Processor` | rule index, KV rule set, rule numbers | lookup, evaluation, rule numbering | swap under readers, several deliveries of one message | a throttle key belongs to one rule, no double fire |
| `broker.Responder`, scheduler jobs | core subscriptions; cron jobs; the action in progress | rebuild, handle, fire, close | a deadline shared by all actions, close against a handler | one reply, only racers dropped, everything ends |
| `broker.ActionPublisher`, `httpclient.Executor` | attempt, deadline | publish, request, retry, backoff | an ack that is late, a refusal, the deadline in between | reports are true, retries stop |
| `rule.LocalKVCache` with its watchers | cached values, watcher per bucket | lookup, update, watch, reconnect, `Close` | a lookup against an update, a reconnect against a rebuild | cached values are current or about to be |
| `broker.StreamResolver`, consumers | stream list, consumer names, subscriptions | discover, refresh, match, create consumer | overlapping filters, streams that come and go | a stream that serves the subject, a consumer of its own |
| `rule.Loader` | none: pure | fold, expand, validate | order of the passes | what is loaded can be served |
| Conditions, contexts, `forEach` | none: pure | decode, resolve, compare, build | Go types, absent fields, two ways of resolving | same meaning from file and bucket, for JSON and forms |

They interact as follows. A transport (subscription, responder, gateway,
scheduler) hands a message to the `Processor`, which consults the
`ThrottleManager` and returns immediate actions and deferred batches. The
transport submits the batches to its own `Coalescer` and runs the immediate
actions. `RuleKVManager` swaps the processor's rule set and calls back into the
scheduler, the responder and the subscription manager. `CompositeApp` runs the
transports, `RunWithReload` runs and replaces the composite.

## Modules

**TrailingThrottle** is what a trailing throttle promises: at most one batch
held per key, the newest wins, each is emitted once, and a batch is discarded
only after shutdown has begun and its deadline has passed. **Coalescer** is
`coalescer.go` with its lock regions as actions (`Submit`, `Fire`,
`StopBegins`), the flush loop and semaphore as steps of their own, and the Go
timer as `armed`, `fired` (callback started, lock not taken yet), `off`. It
implements TrailingThrottle under the mapping of `Implements`: what is pending
or in the flush loop's hands is held, what executes is emitting.
**CoalescerObserved** adds an observer's clock: the ticks since a key last emitted.

**ThrottleManager** is `throttle.go` over a discrete clock. `swept` is what the
map holds after the opportunistic sweep; `allowedAt` is a history variable.

**SubscriptionManager** is the life of a message: the external server delivers
it (`Deliver`, `AckWaitExpires`, `Answer`), a worker evaluates it, submits its
deferred batches, runs its actions and answers. It composes TrailingThrottle as
the coalescer, which the refinement above justifies. `done`, `hopeless`,
`panicked` and `owed` are history.

**WorkerPool** looks at the same manager from the side of its goroutines: which
iterator a worker waits on, which contexts are cancelled, who stops what. `replaced`
holds the iterators that `Run`'s `Start` has overwritten: their workers read
`sub.iterator` anew each time round the loop (`Iterator`).

**RuleKVManager** has three actors: operators and network (external), the
watcher goroutine with one handler at a time (its critical section, its two
callbacks and its subscription calls are separate steps), and the main
goroutine through `createApp`, `Run` and `Close`. A watch is lost when its channel
closes, and stale when a reconnect leaves the channel open and nothing comes any
more; a rebuild may manage only some of the subjects or jobs it is given
(`failed`), and `createApp` fails when a schedule cannot be registered or the
initial sync takes longer than 60 seconds (`GiveUp`).

**Lifecycle** is `RunWithReload`, a step per statement that a signal or an edit
can fall between. The rule files are good, bad (the loader refuses them) or
unservable: they load, and `createApp` fails because of them all the same, since
a subject has no stream or consumer or the scheduler has no schedule
(`router.go:134-156`, `scheduler.go:68-73`). A Run that outlives `runStopTimeout`
goes on beside the next instance (`lingering`), and `Close` need not return.

**InboundServer** follows each webhook through the handler, the queue, a worker
or `handleSync`. Each read of the processor's rule set is a step of its own. It
composes TrailingThrottle as well.

**PatternMatcher** is the matching of subjects and paths, a recursive function
over token positions. **Processor** has three kinds of actors: workers that take
an input and evaluate the rules they find one by one, the watcher inside
`ReplaceKVRuleSet` (numbering and the swap are separate steps), and the scheduler,
whose jobs keep the rule objects they captured. A member of `Rules` is one parsed
object; an open throttle window is a member of `open` and may end at any time.

**KVCache** has the buckets and the network (external), one watcher goroutine
per bucket, the reconnect handler, the lookups of the rule workers and `Close`.
An entry is its revision and its kind; creating a watcher and putting it into
its handle are two steps, and so are fetching a value and writing it into the
cache. `applied`, `overtaken` and `missed` are history and name the code's gaps.

**ActionDelivery** follows one handler of a core subscription or one cron job
through its actions: `PublishWithRetry` (send, wait for the ack, back off, look
at the context), `ExecuteHTTPAction` (request, answer, back off) and the publish
of a response. Whether JetStream stored a message and whether its answer arrives
are separate choices. It composes TrailingThrottle for the deferred batches, and
both ways of shutting down (`Responder.Close`, `SchedulerApp.Run` and `Close`).

**StreamResolver** is the match, the score and the order of
`stream_resolver.go` together with `CreateConsumerForSubject` and
`AddSubscription`, whose two lookups are separate steps, each of which may time
out; operators create and delete streams and delete consumers. Subjects and filters
are sequences of tokens; what the server delivers and covers is external.
**RuleLoader** is `ParseAndValidateYAML` on a rule's shape: of its texts only the
marks matter that the loader looks for (an environment reference, empty,
malformed, a malformed KV or random reference). **Conditions** is the decoding of
payloads, the traversal of paths, the evaluator with every operator and the
building of payloads with merge and `forEach`, on values tagged with their Go
type; number, time and text functions of the library are parameters.
**HotReload** puts the first two together: rules are loaded from files at startup
or from the bucket while streams come and go. It relates what was validated to what
is subscribed. **RuleEvaluation** adds Conditions: messages are evaluated by the
rules in effect. The two are apart so that the first can be proved about: Conditions
needs RECURSIVE operators for its trees.

Operators whose comment begins with `Mutant:` are deliberately wrong variants of
the definition that follows them. They are not used by any specification: each
shows that some property would notice that mistake.

## Runs

Bounds were chosen so that each hazard of `PROJECT.json` occurs.

| Run | Instance | Shows |
|---|---|---|
| coalescer | 2 keys, 4 batches, one of them empty, one flush slot, an observer's clock | `IndInv`, fixed deadlines and emissions a window apart (`WindowKept`), windows close and `Stop` ends (`AllEnds`), refinement of TrailingThrottle |
| throttle | 2 keys with different windows, sweep interval longer than one of them | eviction is invisible, allowed messages are spaced |
| subscription | 1 message, poisoned or not, 2 workers, immediate, leading and trailing rules, 2 incarnations | acks and terms (`SettledHonestly`), clean stop, every message settles |
| rule_kv | 2 keys, all three trigger kinds, bounded operator changes, lost and silent watches, compaction, rebuilds that fail in part | convergence of subscriptions, core rules and jobs (`AtRestServed`), the bucket in effect, every start ends (`StartEnds`), shutdown |
| worker_pool | 2 subjects, 1 worker each, up to 3 starts of a subject (the watcher's, `Run`'s over it, and one after a removal), file and KV mode | subjects served, quiet after removal, one iterator (`OnlyTheMapServes`), no worker returns to an orphaned iterator (`LostIteratorDrains`), `Stop` ends |
| lifecycle | a few signals and edits, rules of all three worths, Run and `Close` that hang | one open instance, checked reloads (`ReloadSafe`), shutdown |
| processor | rules of both transports on one subject, an overlapping wildcard, a path pattern, a schedule; 2 workers, 2 KV updates, or the same rules from files | keys have one owner, bounded fires, no delivery missed by its own rule |
| inbound | 2 webhooks, queue of 1, 1 worker, one rule change | one answer each, accepted webhooks survive `Stop`, the grace period protects, `Stop` returns |
| kv_cache | 1 bucket, a key the filter lets through and one it does not, 1 worker, 2 changes with compaction, 1 lost connection or watch at any moment (also while the watcher is being created), cache on or off | cached values are current or about to be, convergence, goroutines end |
| delivery | 2 messages or fires, 5 plans with every kind of action, 3 publish attempts, 2 HTTP attempts | true reports, one reply, bounded retries, only racers dropped, runs and `Close` end |
| hot_reload | 2 keys, 4 streams with overlapping filters and a mirror, 4 subjects (one of 11 tokens), some 1,250 rule shapes, some 130 condition trees and actions on 24 payloads | the right stream, a consumer of one's own, servable rules, portable and fail-closed conditions, forms like JSON, independent elements |

In hot_reload puts, deletes, timeouts and changes of streams and consumers share the
bound `MaxChanges` = 3: enough for a subject to be started, fail or lose its consumer,
and be started again. A rule that only the loader or a message looks at is put into a
fresh system, as its last change: neither looks at the streams, so nothing is
lost, and stream changes and rule contents need not be multiplied.

`ack_means_fired` states what a document says and the code does not do, and ends
in a counterexample, recorded under `findings`: a failed first delivery uses up
its leading throttle, and the redelivery is suppressed and acked.

## Known gaps

These behaviours of the code are in the models too. The passing property named
with each says how far the promise does hold; where a module also has a formula
that states the promise itself, and TLC refutes it, the formula is named as well.

Delivery and shutdown:

* An action may succeed after its message was delivered again: the action
  deadline starts at processing, AckWait at delivery into the buffer.
  (`SettledHonestly` speaks of the deliveries that were acked.)
* A redelivery that submits its batch after the first one's window has closed is
  emitted a second time. (`Implements`: within one window there is one emission.)
* With rules from files a message covered by two subscriptions of one transport
  fires every matching rule once per delivery; `CHANGELOG.md:152` says exactly
  once. (`FireBound`; `FiresOnce` of Processor fails.)
* In KV mode `CompositeApp.Run` starts what the watcher has started already
  (`composite.go:31-34` says otherwise): the first iterator is orphaned, and on
  an idle subject its worker keeps `Stop` waiting for ever, and `Close` with it.
  (`OneIterator` of `OnlyTheMapServes` says that this happens once at most to each
  subject, `LostIteratorDrains` that workers leave the orphan and do not come back;
  `StopEnds` holds without orphans.)
* A webhook routed and verified by one rule set can be evaluated by the next;
  `docs/08-kv-rule-store.md:191` says there is no such race. (`NoUpdateRace` of
  InboundServer fails.)
* When the grace period ends early, a handler may still send on the closed queue
  and a worker may submit after the flush. (`GraceProtects` and
  `AcceptedSurvivesStop` hold within the grace period.)
* `Responder.Close` does not wait for the handler in progress, whose batch the
  stopped coalescer drops. (`DropsOnlyRacers`: no other is dropped.)
* A publish whose ack is late is stored again. (`ReportsHonest`: only then.)
* A SIGTERM during the unwind of a reload is discarded with its channel, although
  `lifecycle.go:24` promises a graceful shutdown (`ShutdownUnlessDiscarded`); a
  SIGHUP between `signal.Stop` and the next `signal.Notify` kills the process; a
  rule file edited between validation and `createApp` is loaded unchecked
  (`ReloadSafe` holds for what was on disk at validation).
* `validate` only loads the rules. Rules that load and cannot be served, such as one
  whose subject has no stream, pass it, and `createApp` then fails after the old
  instance is gone: the process ends, although `lifecycle.go:34-35` says that a bad
  rule edit can no longer take down a running process. (`ReloadSafe` names this
  case and the edit as the only two.)
* A Run that `runStopTimeout` gave up on goes on beside the next instance
  (`OneInstance` bounds their number); `Close` is bounded by nothing, so a `Stop`
  that hangs keeps a shutdown waiting (`ShutdownUnlessDiscarded` excepts it).

Rules in the bucket:

* A put that drops a subject from its key leaves the subscription; a rebuild of
  the core subscriptions may be overtaken by the one of `Run`; a schedule change
  between the scheduler's read and its callback is missed; a subject put before
  the subscription manager exists is never subscribed, only logged.
  (`AtRestServed` holds but for these, each of which it names.)
* A start that failed is not tried again by a put of the same subject. A subject or
  a schedule that a rebuild could not subscribe or register is logged and skipped
  until the next rebuild (`responder.go:110-113`, `scheduler.go:213-217`;
  `AtRestServed` names them as reported).
* After a reconnect the watcher of the rule bucket may be silent with its channel
  open (`nats.go:533-536` and 876-878 say so of the cache's watchers, which
  `restartKVWatchers` renews; nothing renews this one). Changes are then kept back
  until the channel closes. (`BucketInEffect` excepts them as `unseen`.)
* A delete marker compacted away before a watch brought it leaves the key's rules
  in effect (`rule_kv_manager.go:197` says so; also `unseen`).
* If the initial sync takes 60 seconds, or a schedule cannot be registered,
  `createApp` fails and the process ends. (`StartEnds`: it runs or gives up.)

Local KV cache:

* A lookup writes what it fetched without comparing revisions, and may overwrite
  a newer value; a lookup's newer value may be replaced by an older queued update
  for a moment. A reconnect misses a watcher that is just being rebuilt.
  (`LookupsFresh` and `Converges` hold but for these, each of which they name.)
* A bucket that could not be watched, or a key outside a bucket's filter, is cached at
  its first lookup (`kv_context.go:230`) and never refreshed, although
  `nats.go:420-423` calls such lookups correct, just slower, and `nats.go:443` says
  that unwatched buckets are read directly for the life of the process.
  (`LookupsFresh` and `Converges` except them as `Unwatched`.)
* `kv.localCache.enabled: false` does not turn the cache off: `builder.go:191`
  then skips `InitializeKVCache`, no watcher is made, and lookups fill and read
  the cache for ever (`docs/11-configuration.md:249`). (`OffMeansOff` fails.)
* A text value is found by a cached lookup and not by a direct one.

Streams and consumers:

* `matchPattern` accepts `a.b` against the filter `a.b.>` and `a.>` against
  `a.*`, so a subject can be accepted, or be bound to a stream, that does not
  cover it; `docs/08-kv-rule-store.md:197` says such rules are rejected.
  (`StreamFound` names the two shapes.)
* From about 12 tokens on a wildcard filter outscores an exact one; the comment
  above `calculateSpecificity` gives 310 where the code computes 210.
* `a.b` and `a-b`, or `a.*` and `a.wildcard`, share a consumer's name, and the
  broker never forgets for which subjects it made consumers, also when the stream
  or the consumer was deleted. (`OwnConsumer` holds for plain names, and its second
  half while nobody else creates or deletes a stream or deletes a consumer.)

Conditions:

* A template with white space around its braces is a literal in a rule from the
  bucket and a variable in a rule from a file. (`Portable` excepts it.)
* In a form `21.0` does not equal 21, and a number is no time for `recent`,
  unlike in JSON. (`FormLikeJSON` excepts both.)
* `contains` nothing holds of every text, and `not_in` of anything that is no
  array. (`FailsClosed` holds for what is missing from the message.)
* A `filter` without `forEach` is ignored and not validated. An HTTP action on an
  HTTP trigger is loaded and skipped (`docs/02-gateway.md:16`), and so is one on a
  NATS trigger while `features.gateway` is off (`docs/12-observability.md:71`).
  (`LoadedIsServable` names the two as `Skipped`; a layer whose feature is off
  receives nothing at all.)
* `>` matches zero trailing tokens (`pattern.go:150`), while `path_matcher.go:12`
  and `docs/01-core-concepts.md:85` say one or more. (`OwnDeliverySees`: it never
  matches too little.)

## Fairness

* Coalescer: timers expire, callbacks, executions and `Stop` run. Executions end
  because `execute` bounds them by a timeout. Nothing is assumed of `Submit`.
* Subscription: workers and server timers run, and an operator eventually stops
  crashing the process (`MaxStarts`). Actions end because of `actionCtx`.
* RuleKVManager: the watcher and the main goroutine run, and the timer of the wait
  for the initial sync fires. A shutdown, a change, and a watch that is lost or falls
  silent are never due; they are bounded by `MaxChanges`, and `runWatch` retries for
  ever.
* WorkerPool: workers run except in `Receive`: the server need not send anything. A
  Run that failed ends the process, and a shutdown that has begun goes on.
* Lifecycle: the main goroutine goes on where the code bounds it: `createApp`,
  `validate` and, by `runStopTimeout`, the wait for Run. Neither Run nor `Close` is
  assumed to return.
* InboundServer: `Stop` runs and the grace period ends; handlers and workers may
  be stuck for ever.
* KVCache: the client reconnects, the reconnect handler and the watcher
  goroutines run, and a watcher can be created again and again, since `runKVWatch`
  retries for ever (strong fairness of `Rewatch`: the connection may come and go).
* ActionDelivery: the goroutine of the run, the coalescer and `Close` go on. No
  answer of a server or an endpoint is assumed: the ack timeout, the client's
  timeout and the context end every wait. The deadline itself need not pass.
* HotReload and RuleEvaluation state safety only.

## Proofs

Every proof is an inductive invariant of its specification, proved to hold
initially and to survive every action, and short arguments from it. Bounds such as
`MaxChanges`, `MaxRuns` or `MaxStarts` are parameters of the theorems, so they hold
for behaviours of any length.

`CoalescerProofs` (any keys, batches, windows, action counts, flush concurrency).
`SingleHome` alone is not inductive: that `Fire` cannot start a batch which already
runs needs to know that a pending batch is of its own key and in no other place
(`Placed`), and that `Stop` leaves no pending entry behind (`StopPcMeans`). From
`IndInv` follow `SingleHome`, `WindowHasTimer`, `StopIsFinal`, the action property
`DeadlineFixed`, and the refinement `Implements`: what the abstract throttle holds
for a key is the pending batch, or the one `Stop` has taken and not yet flushed
(`HeldMeans`); every goroutine's step is then an Offer, Emit, Finish, Close, Expire,
Discard or a stutter, one proof step per action. `WindowKept` needs to relate the
observer's clock to the timer (`SinceMeans`): what an open window has still to run and
what has passed since the last emission make up at least a window of the key, and a
timer whose callback has started has run out. It assumes of the observer that it
counts as far as the longest window.

`RuleProofs` (any rules, streams, subjects, inputs and workers): the life of a rule.
* `KeyOwned` speaks of the past only, so `IndInv` adds that the keys in use carry
  their rule's present number (`OwnersKnown`), that numbers are distinct and below
  the counter (`IndexesDistinct`), and that every rule a worker or a cron job can
  reach already has its number (`VisibleKnown`). It assumes that an object which
  left the rule set does not come back, which holds because `RuleKVManager` parses a
  key again on every put. `IndexStable` follows.
* `FireBound` is a budget (`Affordable`): every firing, past or still possible for a
  worker that has the rule before it, has a delivery of its own that may fire the
  rule (`Spent`), and deliveries are handled once. Without KV rules those deliveries
  are of the rule's own subscriptions that the server matches; with KV rules there is
  one.
* `OwnDeliverySees` rests on the matcher. `MatchFromIs` gives the recursive function
  `MatchFrom` a closed form for every pattern and subject: tokens agree up to the
  end or up to a `>`. It is an induction over the tokens, done through the principle
  of the least counterexample (`LeastNatural`, from `WFMin` and the well-foundedness
  of `<` on the naturals). `DeliveredMatches` compares it with the server's rule.
  It assumes of patterns what the loader checks (`ValidTokens`) and of subjects
  that they have no empty token, which the server refuses.
* The throttle: each entry of the map is the last allowed time plus the window
  (`EntryMatches`) and no recorded time lies in the future (`TimesPast`), together
  `ThrottleInv`. From it follow `SweepInvisible` (a missing entry means that the
  window is over, so evicting it changes nothing), `NoLeak` and the action property
  `Spaced`. It assumes that windows are positive, which the loader checks.
* The loader (`LoaderSound`, for every set of features): folding and expanding keep a
  rule's shape (`FoldKeeps`, `ExpandKeeps`), so what `validateRule` accepts is what
  comes into effect; then each trigger and each action is one of a kind (`OneOf`) and
  the cases are few. It assumes of a source only what the YAML types can hold
  (`RuleSources`, `Writable`). `LoadedIsServable` is that this stays true of every
  key's rule.
* `StreamFound`, for any stream configuration. No covering filter is missed
  (`CoversMatches`): a message with tokens of its own in the place of the subject's
  wildcards is delivered by the subject and so by the filter. What matches covers, but
  for the two loose shapes (`MatchesCover`). That the best match exists needs a
  largest rank, hence a bound on ranks (`MatchScore`, `RankFacts`, `BestFound`), and
  that a filter equal to the subject wins up to 11 tokens is the arithmetic of the
  score. It assumes subjects and filters that `ValidatePattern` and the server accept
  and, for every subject, the telling message among `Messages`.
* `OwnConsumer`, for any subjects. Names of plain words are distinct
  (`NamesDistinct`): `FlattenIs` gives the recursive `FlattenSeq` a closed form by the
  least counterexample, `NameIs` the name's words, and the word before the last tells
  `>` from `*`. The invariant `HotInv` adds that every durable consumer was named for
  its own filter and that, while others make or delete no stream and delete no
  consumer, the broker's list is the server's and each consumer it remembers exists
  where `AddSubscription` will look (`Remembered`). The second half of `OwnConsumer`
  is not inductive without it: that `AddSubscription` finds a consumer depends on what
  `CreateConsumerForSubject` skipped.

`ActionDeliveryProofs` (any plans and limits). `ReportsHonest` and the action property
`RetriesBounded` need to count, at each point of the two retry loops, copies stored
against acks not seen (`CopiesCounted`) and calls against attempts together with why
another attempt is allowed (`AttemptsCounted`); that a plan is not empty while one of
its actions is in progress (`PlanLeft`); and that nothing is known before the first
(`SubmitFresh`). `DropsOnlyRacers` needs `ClosedMeans`: the coalescer closes in the
flushing phase, and what is in progress then is on record. It assumes positive
limits: `config.go:487` replaces a publish limit of zero by the default
and `httpclient.go:119` starts from one attempt.

`InboundServerProofs` (any requests, workers, queue size; one worker at least,
`config.go:672`). `AcceptedSurvivesStop` needs that an accepted request is in the
queue exactly once (`QueueMatches`) or with a worker (`WorkerHolds`), that workers
leave only when the queue is closed and empty, and how far `Stop` has come while the
grace period lasts (`StopMeans`). `AnsweredOnce` is what each stage says of its
answers (`StageMeans`).

`WorkerPoolProofs` (any subjects, workers, starts; one worker at least,
`config.go:600`). That a subject is served needs to know that nothing but a removal
stops an iterator, cancels a context or ends a worker before shutdown
(`Undisturbed`), that iterators and workers exist from their start on (`Opened`,
`Born`), that what is open and not replaced is an entry's last iterator (`MapMeans`),
that `Run` replaces each subject's iterator once at most and nothing before it
(`Replaced`), and that without KV rules there is one start (`FileMode`).
`LostIteratorDrains` follows: a worker of an overwritten start goes on to its
successor, which is open and unreplaced only if the map holds it.

The same module proves `ReloadSafe` of Lifecycle, for any number of signals and edits.
That the files were checked is seen at `createApp`, several steps after the check, so
`ReloadInv` carries it along: from the check to the next creation the files load or
were edited since (`Checked`), an instance is open exactly between its creation and
its `Close` (`OneAtATime`), each reload has a signal of its own (`ReloadsAsked`), and
each Run that outlives its instance has used up a timeout (`Overran`, `Overruns`).

`KVCacheProofs` (any finite buckets and keys, any workers, changes and faults). That a
stale value is about to be replaced needs to know how the watcher's channel, the
bucket and the cache relate: revisions only grow (`RevisionsMean`), a channel is in
their order (`QueueMeans`), a watcher that the server serves has brought a key's entry
or has it in its channel (`Synced`), and a watcher whose consumer died is about to be
stopped or was missed by the reconnect (`WatchersMean`). Lookups carry the revision
they started from (`LookupsMean`), and the cache is off exactly when no bucket could
be watched (`EnabledMeans`).

`SubscriptionManagerProofs` (any messages, workers, rules, redelivery limit, crashes).
An ack is decided at the end of a delivery from flags set along it, so the
invariant says what the flags mean in between (`JobsMean`). `CleanStopFlushes` needs
that the coalescer closes after the workers left and that, until the deadline,
whatever is owed is held (`FlushMeans`).

`RuleKVManagerProofs` (any finite set of keys, any contents, any number of changes).
The properties speak of moments of rest; the invariant says what makes up for the
difference at every other moment. What the rules need is subscribed, reported, or on
the handler's list (`SubsMean`, `HandlerMeans`); the responder and the scheduler serve
the rules in effect, but for what their last rebuild reported, unless a rebuild is due
(`CoreMeans`, `JobsMean`), apart from the two recorded races of startup; each phase of
the shutdown says what is over (`StopMeans`); and a key's last entry is in effect or
is the last of that key's in the watcher's channel, or the key is one whose change the
watch will not deliver (`QueueMeans`), which a fresh watch's replay re-establishes
(`ReplayFacts`). It assumes finitely many keys, none of them the sentinel's.

`IndexStable`, `NoLeak`, `DeadlineFixed`, Coalescer's `StopIsFinal` and
`ThrottleInv` are proved and not listed by a run.

Only model-checked:
* everything under fairness, which is out of the prover's reach: `AllEnds`,
  `EveryMessageSettles`, `StartEnds`, both `StopEnds`, `ShutdownUnlessDiscarded`,
  `Converges`, `GoroutinesEnd`, `RunEnds`;
* `Portable`, `FailsClosed`, `FormLikeJSON` and `ForEachPerElement` of RuleEvaluation,
  because they speak of recursive operators over condition trees and values.

## Not modelled

Composing texts from several template parts, time and random functions,
cryptography, configuration parsing, the CLI, tester and web front ends, logging
and metrics. The auth manager is a separate program that shares nothing with the
router but the bucket it writes. In Processor and the transports the conditions
and the building of an action have any outcome; Conditions says which.

## Plan

Every safety property that a run checks is proved, but for the four about condition
trees. A next result would be those four, with the operators of Conditions written as
folds over flattened trees.
