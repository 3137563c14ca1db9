------------------------ MODULE SubscriptionManager -------------------------
(***************************************************************************)
(* internal/broker/subscription.go: one JetStream subscription.  A pull    *)
(* consumer delivers messages into the iterator's buffer, workers evaluate *)
(* them, hand trailing batches to the coalescer, run the immediate actions *)
(* and ack, nak or terminate; Stop, a crash and a restart happen around    *)
(* them.  The server's side is external: it redelivers what is not settled *)
(* within AckWait of its delivery, at most MaxDeliver times in all.        *)
(*                                                                         *)
(* Every message matches every rule, and a rule is its one action.  The    *)
(* coalescer is the TrailingThrottle it implements.                        *)
(***************************************************************************)
EXTENDS Naturals, Sequences

CONSTANTS Msgs,        \* messages of the stream
          Workers,     \* worker goroutines of the subscription
          Rules,       \* rules of the trigger subject
          Leading,     \* rules with a leading throttle
          Trailing,    \* rules with a trailing throttle
          FetchBatch,  \* consumerCfg.FetchBatchSize
          AckWait,     \* consumerCfg.AckWaitTimeout, in ticks
          MaxDeliver,  \* consumerCfg.MaxDeliver
          MaxStarts,   \* bound on process incarnations
          None

ASSUME RuleAssumption ==
  /\ Leading \subseteq Rules
  /\ Trailing \subseteq Rules
  /\ Leading \cap Trailing = {}
ASSUME BoundAssumption ==
  /\ FetchBatch \in Nat \ {0}
  /\ AckWait \in Nat \ {0}
  /\ MaxDeliver \in Nat \ {0}
  /\ MaxStarts \in Nat \ {0}

Immediate == Rules \ Trailing
Copies == [msg : Msgs, n : 1 .. MaxDeliver]
Batches == [rule : Trailing, msg : Msgs, n : 1 .. MaxDeliver]

VARIABLES poison,     \* messages whose payload fails evaluation
          status,     \* the server's view of a message
          delivered,  \* how often the server has delivered it
          age,        \* ticks since its last delivery
          buffer,     \* the iterator's prefetched deliveries
          job,        \* per worker, the delivery it is processing
          throttled,  \* leading rules inside their window
          held, emitting, closed, expired,  \* the coalescer
          phase,      \* the process: up, draining, flushing, down
          starts,     \* incarnations so far
          done,       \* history: actions that have succeeded
          hopeless,   \* history: actions that have failed permanently
          panicked,   \* history: messages whose processing panicked
          owed        \* history: evaluated batches not yet emitted or replaced

server == <<poison, status, delivered, age>>
coalescer == <<held, emitting, closed, expired>>
history == <<done, hopeless, panicked, owed>>
process == <<phase, starts>>
vars == <<poison, status, delivered, age, buffer, job, throttled, held, emitting,
          closed, expired, phase, starts, done, hopeless, panicked, owed>>

Coalescer == INSTANCE TrailingThrottle WITH
  Keys <- Trailing, Key <- [b \in Batches |-> b.rule]

Statuses == {"ready", "pending", "acked", "termed", "exhausted"}
Settled == {"acked", "termed", "exhausted"}
Jobs == [msg : Msgs, n : 1 .. MaxDeliver, stage : {"evaluate", "act"},
         todo : SUBSET Immediate, failed : BOOLEAN, retryable : BOOLEAN,
         left : 0 .. AckWait]

\* None stands for no job and no batch.
ASSUME NoneAssumption == None \notin Jobs \cup Batches

TypeOK ==
  /\ poison \in SUBSET Msgs
  /\ status \in [Msgs -> Statuses]
  /\ delivered \in [Msgs -> 0 .. MaxDeliver]
  /\ age \in [Msgs -> 0 .. AckWait]
  /\ buffer \in Seq(Copies) /\ Len(buffer) <= FetchBatch
  /\ job \in [Workers -> Jobs \cup {None}]
  /\ throttled \in SUBSET Leading
  /\ held \in [Trailing -> Batches \cup {None}]
  /\ emitting \in SUBSET Batches
  /\ closed \in BOOLEAN /\ expired \in BOOLEAN
  /\ phase \in {"up", "draining", "flushing", "down"}
  /\ starts \in 1 .. MaxStarts
  /\ done \in SUBSET (Msgs \X Rules) /\ hopeless \in SUBSET (Msgs \X Rules)
  /\ panicked \in SUBSET Msgs
  /\ owed \in SUBSET Batches

Init ==
  /\ poison \in SUBSET Msgs
  /\ status = [m \in Msgs |-> "ready"]
  /\ delivered = [m \in Msgs |-> 0]
  /\ age = [m \in Msgs |-> 0]
  /\ buffer = <<>>
  /\ job = [w \in Workers |-> None]
  /\ throttled = {}
  /\ Coalescer!Init
  /\ phase = "up" /\ starts = 1
  /\ done = {} /\ hopeless = {} /\ panicked = {} /\ owed = {}

-----------------------------------------------------------------------------
\* The server (external).
Redeliverable(m) == IF delivered[m] < MaxDeliver THEN "ready" ELSE "exhausted"

Deliver(m) ==
  /\ phase = "up"
  /\ status[m] = "ready"
  /\ Len(buffer) < FetchBatch
  /\ status' = [status EXCEPT ![m] = "pending"]
  /\ delivered' = [delivered EXCEPT ![m] = @ + 1]
  /\ age' = [age EXCEPT ![m] = 0]
  /\ buffer' = Append(buffer, [msg |-> m, n |-> delivered[m] + 1])
  /\ UNCHANGED <<poison, job, throttled, coalescer, process, history>>

AckWaitExpires(m) ==
  /\ status[m] = "pending"
  /\ age[m] = AckWait
  /\ status' = [status EXCEPT ![m] = Redeliverable(m)]
  /\ UNCHANGED <<poison, delivered, age, buffer, job, throttled, coalescer, process, history>>

\* An ack or a term settles the message even when it answers an earlier
\* delivery; a nak makes a pending one due again.
Answer(m, verdict) ==
  CASE verdict = "ack" /\ status[m] # "termed" -> "acked"
    [] verdict = "term" /\ status[m] # "acked" -> "termed"
    [] verdict = "nak" /\ status[m] = "pending" -> Redeliverable(m)
    [] OTHER -> status[m]

\* The clock moves the server's ack timers and the workers' deadlines.
Tick ==
  /\ \/ \E m \in Msgs : status[m] = "pending" /\ age[m] < AckWait
     \/ \E w \in Workers : job[w] # None /\ job[w].stage = "act" /\ job[w].left > 0
  /\ age' = [m \in Msgs |-> IF status[m] = "pending" /\ age[m] < AckWait
                            THEN age[m] + 1 ELSE age[m]]
  /\ job' = [w \in Workers |->
               IF job[w] # None /\ job[w].stage = "act" /\ job[w].left > 0
               THEN [job[w] EXCEPT !.left = @ - 1] ELSE job[w]]
  /\ UNCHANGED <<poison, status, delivered, buffer, throttled, coalescer, process, history>>

\* A leading throttle's window ends (ThrottleManager).
ThrottleWindowEnds(r) ==
  /\ r \in throttled
  /\ throttled' = throttled \ {r}
  /\ UNCHANGED <<server, buffer, job, coalescer, process, history>>

-----------------------------------------------------------------------------
\* messageWorker: iterator.Next() hands out the oldest buffered delivery.
Take(w) ==
  /\ phase = "up"
  /\ job[w] = None
  /\ buffer # <<>>
  /\ job' = [job EXCEPT ![w] =
               [msg |-> Head(buffer).msg, n |-> Head(buffer).n, stage |-> "evaluate",
                todo |-> {}, failed |-> FALSE, retryable |-> FALSE, left |-> AckWait]]
  /\ buffer' = Tail(buffer)
  /\ UNCHANGED <<server, throttled, coalescer, process, history>>

\* The batches a delivery's trailing rules produce, one per key.
BatchOf(w, r) == [rule |-> r, msg |-> job[w].msg, n |-> job[w].n]

\* coalescer.Submit for each of them: the key's pending batch is replaced.
Submit(w) ==
  /\ held' = IF closed THEN held ELSE [r \in Trailing |-> BatchOf(w, r)]
  /\ owed' = (owed \ {held[r] : r \in Trailing}) \cup {BatchOf(w, r) : r \in Trailing}
  /\ UNCHANGED <<emitting, closed, expired>>

\* processMessage up to the actions: ProcessForSubscription drops the rules
\* a leading throttle suppresses and opens the windows of the others; then
\* the deferred batches are submitted and the action deadline starts.
Evaluate(w) ==
  /\ job[w] # None
  /\ job[w].stage = "evaluate"
  /\ job[w].msg \notin poison
  /\ job' = [job EXCEPT ![w].stage = "act", ![w].todo = Immediate \ throttled,
                        ![w].left = AckWait]
  /\ throttled' = Leading
  /\ Submit(w)
  /\ UNCHANGED <<server, buffer, process, done, hopeless, panicked>>

EvaluateFails(w) ==
  /\ job[w] # None
  /\ job[w].stage = "evaluate"
  /\ job[w].msg \in poison
  /\ job' = [job EXCEPT ![w].stage = "act", ![w].failed = TRUE, ![w].retryable = TRUE]
  /\ UNCHANGED <<server, buffer, throttled, coalescer, process, history>>

\* actionCtx is done: the deadline has passed or Stop has cancelled it.
Cancelled(w) == job[w].left = 0 \/ phase # "up"

\* Mutant: the last action's error decides.
AfterLastError(j, r, result) ==
  [j EXCEPT !.todo = @ \ {r}, !.failed = (result # "ok"),
            !.retryable = (result = "retryable")]

\* The loop goes on after an error and remembers whether a redelivery might
\* help.
After(j, r, result) ==
  [j EXCEPT !.todo = @ \ {r},
            !.failed = @ \/ result # "ok",
            !.retryable = @ \/ result = "retryable"]

\* executeAction: success, a failure worth a redelivery, or a permanent one;
\* a cancelled context makes it the second.
RunAction(w, r, result) ==
  /\ job[w] # None
  /\ job[w].stage = "act"
  /\ r \in job[w].todo
  /\ Cancelled(w) => result = "retryable"
  /\ job' = [job EXCEPT ![w] = After(@, r, result)]
  /\ done' = IF result = "ok" THEN done \cup {<<job[w].msg, r>>} ELSE done
  /\ hopeless' = IF result = "permanent" THEN hopeless \cup {<<job[w].msg, r>>} ELSE hopeless
  /\ UNCHANGED <<server, buffer, throttled, coalescer, process, panicked, owed>>

Verdict(j) == CASE ~j.failed -> "ack"
                [] j.failed /\ j.retryable -> "nak"
                [] OTHER -> "term"

\* Mutant: a failed message is neither acked nor naked and keeps its worker.
SettleSuccessOnly(w) ==
  /\ job[w] # None
  /\ job[w].stage = "act"
  /\ job[w].todo = {}
  /\ ~job[w].failed
  /\ status' = [status EXCEPT ![job[w].msg] = Answer(job[w].msg, Verdict(job[w]))]
  /\ job' = [job EXCEPT ![w] = None]
  /\ UNCHANGED <<poison, delivered, age, buffer, throttled, coalescer, process, history>>

\* processMessageWithRecovery answers; an answer that does not reach the
\* server is only logged.
Settle(w) ==
  /\ job[w] # None
  /\ job[w].stage = "act"
  /\ job[w].todo = {}
  /\ \/ status' = [status EXCEPT ![job[w].msg] = Answer(job[w].msg, Verdict(job[w]))]
     \/ UNCHANGED status
  /\ job' = [job EXCEPT ![w] = None]
  /\ UNCHANGED <<poison, delivered, age, buffer, throttled, coalescer, process, history>>

\* A panic in evaluation or in an action is recovered, and terminates the
\* message, if that answer reaches the server.
Panics(w) ==
  /\ job[w] # None
  /\ \/ status' = [status EXCEPT ![job[w].msg] = Answer(job[w].msg, "term")]
     \/ UNCHANGED status
  /\ job' = [job EXCEPT ![w] = None]
  /\ panicked' = panicked \cup {job[w].msg}
  /\ UNCHANGED <<poison, delivered, age, buffer, throttled, coalescer, process, done, hopeless, owed>>

-----------------------------------------------------------------------------
\* The coalescer closes a window and executes its batch.
Emit(r) ==
  /\ Coalescer!Emit(r)
  /\ owed' = owed \ {held[r]}
  /\ UNCHANGED <<server, buffer, job, throttled, process, done, hopeless, panicked>>

EmitEnds(b) ==
  /\ Coalescer!Finish(b)
  /\ UNCHANGED <<server, buffer, job, throttled, process, history>>

-----------------------------------------------------------------------------
\* Stop, steps 1 and 2: the iterator is stopped, which discards its buffer,
\* and the workers' contexts are cancelled.
StopIterators ==
  /\ phase = "up"
  /\ starts < MaxStarts
  /\ phase' = "draining"
  /\ buffer' = <<>>
  /\ UNCHANGED <<server, job, throttled, coalescer, starts, history>>

\* Mutant: the flush does not wait for the workers.
FlushEarly ==
  /\ phase = "draining"
  /\ phase' = "flushing"
  /\ Coalescer!Close
  /\ UNCHANGED <<server, buffer, job, throttled, starts, history>>

\* Steps 3 and 4: wg.Wait(), then coalescer.Stop begins.
Flush ==
  /\ phase = "draining"
  /\ \A w \in Workers : job[w] = None
  /\ phase' = "flushing"
  /\ Coalescer!Close
  /\ UNCHANGED <<server, buffer, job, throttled, starts, history>>

FlushDeadline ==
  /\ phase = "flushing"
  /\ Coalescer!Expire
  /\ UNCHANGED <<server, buffer, job, throttled, process, history>>

FlushDrops(r) ==
  /\ Coalescer!Discard(r)
  /\ UNCHANGED <<server, buffer, job, throttled, process, history>>

\* coalescer.Stop has returned, and with it Stop.
StopReturns ==
  /\ phase = "flushing"
  /\ \A r \in Trailing : held[r] = None
  /\ emitting = {}
  /\ phase' = "down"
  /\ UNCHANGED <<server, buffer, job, throttled, coalescer, starts, history>>

\* A new process, after Stop or in place of one that crashed, has empty
\* memory; what is owed by the crashed one is lost.
Boot ==
  /\ starts < MaxStarts
  /\ starts' = starts + 1
  /\ phase' = "up"
  /\ buffer' = <<>>
  /\ job' = [w \in Workers |-> None]
  /\ throttled' = {}
  /\ held' = [r \in Trailing |-> None]
  /\ emitting' = {}
  /\ closed' = FALSE
  /\ expired' = FALSE
  /\ owed' = {}
  /\ UNCHANGED <<server, done, hopeless, panicked>>

CrashAndRestart == phase # "down" /\ Boot
Restart == phase = "down" /\ Boot

-----------------------------------------------------------------------------
Results == {"ok", "retryable", "permanent"}

WorkerStep(w) ==
  \/ Take(w)
  \/ Evaluate(w)
  \/ EvaluateFails(w)
  \/ \E r \in Immediate, result \in Results : RunAction(w, r, result)
  \/ Settle(w)

StopStep == Flush \/ StopReturns \/ (\E r \in Trailing : FlushDrops(r))

Next ==
  \/ \E m \in Msgs : Deliver(m) \/ AckWaitExpires(m)
  \/ Tick
  \/ \E r \in Leading : ThrottleWindowEnds(r)
  \/ \E w \in Workers : WorkerStep(w) \/ Panics(w)
  \/ \E r \in Trailing : Emit(r)
  \/ \E b \in Batches : EmitEnds(b)
  \/ StopIterators
  \/ StopStep
  \/ FlushDeadline
  \/ CrashAndRestart
  \/ Restart

Spec == Init /\ [][Next]_vars

\* The server redelivers, workers and the coalescer make progress (every
\* action is bounded by actionCtx), Stop proceeds and the supervisor starts
\* the process again.  Crashes, panics and shutdowns are never due.
Fairness ==
  /\ \A m \in Msgs : WF_vars(Deliver(m)) /\ WF_vars(AckWaitExpires(m))
  /\ WF_vars(Tick)
  /\ \A w \in Workers : WF_vars(WorkerStep(w))
  /\ \A r \in Trailing : WF_vars(Emit(r))
  /\ \A b \in Batches : WF_vars(EmitEnds(b))
  /\ WF_vars(StopStep)
  /\ WF_vars(Restart)

FairSpec == Spec /\ Fairness

-----------------------------------------------------------------------------
\* A message is acked only when each of its unthrottled actions has succeeded
\* in some delivery, whatever crashes, lost answers, stops and redeliveries
\* came between (subscription.go:506-528).
AckIsEarned ==
  \A m \in Msgs : status[m] = "acked" =>
    /\ m \notin poison
    /\ \A r \in Immediate \ Leading : <<m, r>> \in done

\* "One failed action never stops the others": a message is terminated, a
\* panic apart, only when each of its unthrottled actions has either
\* succeeded or failed in a way no redelivery would fix
\* (subscription.go:506-528, docs/02-gateway.md:225-227).
TermIsHopeless ==
  \A m \in Msgs : status[m] = "termed" /\ m \notin panicked =>
    \A r \in Immediate \ Leading : <<m, r>> \in done \cup hopeless

\* What the server is told of a message is true of its actions.
SettledHonestly == AckIsEarned /\ TermIsHopeless

\* A Stop whose flush meets its deadline has emitted every trailing batch
\* that was evaluated and not replaced, including those of messages the
\* workers still held when Stop began (subscription.go:592-627).
CleanStopFlushes == phase = "down" /\ ~expired => owed = {}

\* Every message is acked or terminated, or has been delivered MaxDeliver
\* times: none is forgotten, in the buffer a Stop discards, by a worker that
\* crashed or by an answer that got lost.
EveryMessageSettles == \A m \in Msgs : <>[](status[m] \in Settled)

-----------------------------------------------------------------------------
\* docs/02-gateway.md:225 and 229: an outbound action's message is acked
\* "only on a successful HTTP response", so that a failing endpoint "does not
\* silently drop events".
AckMeansFired ==
  \A m \in Msgs : status[m] = "acked" => \A r \in Immediate : <<m, r>> \in done
=============================================================================
