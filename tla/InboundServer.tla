--------------------------- MODULE InboundServer ----------------------------
(***************************************************************************)
(* internal/gateway/server.go: the webhook server.  Every request passes   *)
(* the catch-all handler, which reads the processor's rule set several     *)
(* times; a synchronous route is answered by the handler itself, any other *)
(* is answered when it enters the bounded work queue and evaluated later   *)
(* by a worker.  KV reloads replace the rule set at any moment, and Stop   *)
(* runs in three waits that share one grace period.                        *)
(*                                                                         *)
(* A request stands for its path, method and body; the rule set is what it *)
(* says about that path.  Trailing batches share one window, and the       *)
(* coalescer is the TrailingThrottle it implements.                        *)
(***************************************************************************)
EXTENDS Naturals, Sequences

CONSTANTS Requests,    \* webhooks that may arrive
          Signed,      \* those that carry a valid HMAC
          Workers,     \* InboundWorkerCount goroutines
          QueueSize,   \* InboundQueueSize
          MaxActions,  \* bound on the immediate actions of one evaluation
          MaxUpdates,  \* bound on rule set replacements
          Exited,      \* a worker that has left its loop
          None

ASSUME RequestAssumption == Signed \subseteq Requests
\* config.go:672 refuses a server without workers.
ASSUME WorkerAssumption == Workers # {}
ASSUME NoneAssumption == None \notin Requests /\ Exited \notin Requests /\ None # Exited
ASSUME SizeAssumption ==
  QueueSize \in Nat \ {0} /\ MaxActions \in Nat /\ MaxUpdates \in Nat

VARIABLES rules,     \* what the processor's current rule set says of the path
          updates,   \* replacements so far
          stage,     \* where each request is
          routed,    \* the route its handler chose
          todo,      \* its outcome's immediate actions still to run
          answers,   \* the statuses recorded for it
          queue,     \* workQueue
          worker,    \* per worker, the request it is processing
          stop,      \* the progress of Stop
          held, emitting, closed, expired,  \* the coalescer; expired is ctx
          dropped    \* history: batches submitted to a stopped coalescer

coalescer == <<held, emitting, closed, expired>>
ruleState == <<rules, updates>>
vars == <<rules, updates, stage, routed, todo, answers, queue, worker, stop,
          held, emitting, closed, expired, dropped>>

Coalescer == INSTANCE TrailingThrottle WITH
  Keys <- {"window"}, Batches <- Requests, Key <- [r \in Requests |-> "window"]

RuleSets == [route : {"none", "plain", "sync"}, hmac : BOOLEAN]
Stages == {"new", "reading", "gate", "route", "enqueue", "queued", "evaluate",
           "submit", "act", "finished", "panicked", "crashed"}
Kinds == {"publish", "respond", "request"}
\* An error status, 200 for a queued webhook, the sync response, or a client that
\* left before the reply.
Statuses == {"refused", "accepted", "served", "gone"}

TypeOK ==
  /\ rules \in RuleSets /\ updates \in 0 .. MaxUpdates
  /\ stage \in [Requests -> Stages]
  /\ routed \in [Requests -> {"plain", "sync", None}]
  /\ todo \in [Requests -> Seq(Kinds)] /\ answers \in [Requests -> Seq(Statuses)]
  /\ queue \in Seq(Requests) /\ Len(queue) <= QueueSize
  /\ worker \in [Workers -> Requests \cup {None, Exited}]
  /\ stop \in {"serving", "shutdown", "draining", "flushing", "stopped"}
  /\ held \in [{"window"} -> Requests \cup {None}]
  /\ emitting \in SUBSET Requests /\ closed \in BOOLEAN /\ expired \in BOOLEAN
  /\ dropped \in SUBSET Requests

Init ==
  /\ rules \in RuleSets /\ updates = 0
  /\ stage = [r \in Requests |-> "new"]
  /\ routed = [r \in Requests |-> None]
  /\ todo = [r \in Requests |-> <<>>]
  /\ answers = [r \in Requests |-> <<>>]
  /\ queue = <<>>
  /\ worker = [w \in Workers |-> None]
  /\ stop = "serving"
  /\ Coalescer!Init
  /\ dropped = {}

\* A KV change swaps the processor's rule set.
ReplaceRules ==
  /\ updates < MaxUpdates
  /\ \E new \in RuleSets \ {rules} : rules' = new
  /\ updates' = updates + 1
  /\ UNCHANGED <<stage, routed, todo, answers, queue, worker, stop, coalescer, dropped>>

-----------------------------------------------------------------------------
\* webhookHandler, up to the choice of a route.
Goes(r, s) == stage' = [stage EXCEPT ![r] = s]
Writes(r, status) == answers' = [answers EXCEPT ![r] = Append(@, status)]
Refuses(r) == Goes(r, "finished") /\ Writes(r, "refused")
Proceeds(r, s) == Goes(r, s) /\ UNCHANGED answers

Match(r) ==
  /\ stop = "serving"
  /\ stage[r] = "new"
  /\ IF rules.route = "none" THEN Refuses(r) ELSE Proceeds(r, "reading")
  /\ UNCHANGED <<ruleState, routed, todo, queue, worker, stop, coalescer, dropped>>

ReadBody(r) ==
  /\ stage[r] = "reading"
  /\ Refuses(r) \/ Proceeds(r, "gate")
  /\ UNCHANGED <<ruleState, routed, todo, queue, worker, stop, coalescer, dropped>>

Unverified(r) == rules.route # "none" /\ rules.hmac /\ r \notin Signed

CheckHTTPHMAC(r) ==
  /\ stage[r] = "gate"
  /\ IF Unverified(r) THEN Refuses(r) ELSE Proceeds(r, "route")
  /\ UNCHANGED <<ruleState, routed, todo, queue, worker, stop, coalescer, dropped>>

HasSyncHTTPPath(r) ==
  /\ stage[r] = "route"
  /\ LET sync == rules.route = "sync" IN
     /\ routed' = [routed EXCEPT ![r] = IF sync THEN "sync" ELSE "plain"]
     /\ Goes(r, IF sync THEN "evaluate" ELSE "enqueue")
  /\ UNCHANGED <<ruleState, todo, answers, queue, worker, stop, coalescer, dropped>>

QueueClosed == stop \in {"draining", "flushing", "stopped"}

\* The non-blocking select; a send on the closed channel panics in any form.
Enqueue(r) ==
  /\ stage[r] = "enqueue"
  /\ ~QueueClosed
  /\ IF Len(queue) < QueueSize
       THEN /\ queue' = Append(queue, r)
            /\ Goes(r, "queued") /\ Writes(r, "accepted")
       ELSE Refuses(r) /\ UNCHANGED queue
  /\ UNCHANGED <<ruleState, routed, todo, worker, stop, coalescer, dropped>>

EnqueueOnClosed(r) ==
  /\ stage[r] = "enqueue"
  /\ QueueClosed
  /\ Goes(r, "crashed")
  /\ UNCHANGED <<ruleState, routed, todo, answers, queue, worker, stop, coalescer, dropped>>

-----------------------------------------------------------------------------
\* The workers, and the evaluation they share with handleSync.
Take(w) ==
  /\ worker[w] = None
  /\ queue # <<>>
  /\ worker' = [worker EXCEPT ![w] = Head(queue)]
  /\ queue' = Tail(queue)
  /\ Goes(Head(queue), "evaluate")
  /\ UNCHANGED <<ruleState, routed, todo, answers, stop, coalescer, dropped>>

\* Mutant: a worker that leaves as soon as the queue is closed, drained or not.
ExitUndrained(w) ==
  /\ worker[w] = None
  /\ QueueClosed
  /\ worker' = [worker EXCEPT ![w] = Exited]
  /\ UNCHANGED <<ruleState, stage, routed, todo, answers, queue, stop, coalescer, dropped>>

Exit(w) ==
  /\ worker[w] = None
  /\ queue = <<>>
  /\ QueueClosed
  /\ worker' = [worker EXCEPT ![w] = Exited]
  /\ UNCHANGED <<ruleState, stage, routed, todo, answers, queue, stop, coalescer, dropped>>

\* The worker processing r, if any, goes back to the queue.
Release(r) == worker' = [w \in Workers |-> IF worker[w] = r THEN None ELSE worker[w]]

\* What the rules of a route may ask for; conditions may also match nothing.
Actions(route) ==
  LET kinds == CASE route = "none" -> {}
                 [] route = "plain" -> {"publish"}
                 [] route = "sync" -> Kinds
  IN  UNION {[1 .. n -> kinds] : n \in 0 .. MaxActions}

\* ProcessHTTP: an outcome or an error.
Evaluate(r) ==
  /\ stage[r] = "evaluate"
  /\ \/ /\ \E acts \in Actions(rules.route), next \in {"submit", "act"} :
             /\ next = "submit" => rules.route # "none"
             /\ todo' = [todo EXCEPT ![r] = acts]
             /\ Goes(r, next)
        /\ UNCHANGED <<answers, worker>>
     \/ /\ IF routed[r] = "sync" THEN Writes(r, "refused") ELSE UNCHANGED answers
        /\ Goes(r, "finished")
        /\ Release(r)
        /\ UNCHANGED todo
  /\ UNCHANGED <<ruleState, routed, queue, stop, coalescer, dropped>>

\* A panic in evaluation or in an action is contained by the worker's recovery
\* or by net/http.
Panics(r) ==
  /\ stage[r] \in {"evaluate", "submit", "act"}
  /\ Goes(r, "panicked")
  /\ todo' = [todo EXCEPT ![r] = <<>>]
  /\ Release(r)
  /\ UNCHANGED <<ruleState, routed, answers, queue, stop, coalescer, dropped>>

\* coalescer.Submit drops the batch once the coalescer has stopped.
Submit(r) ==
  /\ stage[r] = "submit"
  /\ Goes(r, "act")
  /\ IF closed
       THEN dropped' = dropped \cup {r} /\ UNCHANGED coalescer
       ELSE Coalescer!Offer(r) /\ UNCHANGED dropped
  /\ UNCHANGED <<ruleState, routed, todo, answers, queue, worker, stop>>

\* Mutant: every respond and request action answers.
AnswersEvery(r, kind) ==
  IF kind = "publish" THEN UNCHANGED answers
  ELSE IF kind = "respond" THEN Writes(r, "served")
       ELSE \E reply \in {"served", "refused", "gone"} : Writes(r, reply)

\* writeRespond and bridgeRequest: the first of them wins.  For a client that
\* left before the reply the outcome is recorded and nothing is written.
Answers(r, kind) ==
  IF kind = "publish" \/ answers[r] # <<>> THEN UNCHANGED answers
  ELSE IF kind = "respond" THEN Writes(r, "served")
       ELSE \E reply \in {"served", "refused", "gone"} : Writes(r, reply)

\* One immediate action.  A worker has no client, so it only publishes; a
\* publish that fails is logged and the next action runs.
Act(r) ==
  /\ stage[r] = "act"
  /\ todo[r] # <<>>
  /\ IF routed[r] = "sync" THEN Answers(r, Head(todo[r])) ELSE UNCHANGED answers
  /\ todo' = [todo EXCEPT ![r] = Tail(@)]
  /\ UNCHANGED <<ruleState, stage, routed, queue, worker, stop, coalescer, dropped>>

Finish(r) ==
  /\ stage[r] = "act"
  /\ todo[r] = <<>>
  /\ Goes(r, "finished")
  /\ IF routed[r] = "sync" /\ answers[r] = <<>> THEN Writes(r, "refused") ELSE UNCHANGED answers
  /\ Release(r)
  /\ UNCHANGED <<ruleState, routed, todo, queue, stop, coalescer, dropped>>

-----------------------------------------------------------------------------
\* The coalescer: windows close, batches are published, and after the grace
\* period those still pending are dropped.
Deferred ==
  /\ \/ Coalescer!Emit("window")
     \/ Coalescer!Discard("window")
     \/ \E r \in Requests : Coalescer!Finish(r)
  /\ UNCHANGED <<ruleState, stage, routed, todo, answers, queue, worker, stop, dropped>>

\* The grace period shared by the waits of Stop.
GraceExpires ==
  /\ stop # "serving"
  /\ Coalescer!Expire
  /\ UNCHANGED <<ruleState, stage, routed, todo, answers, queue, worker, stop, dropped>>

\* Requests whose handler goroutine is still running.
Handling ==
  {r \in Requests : \/ stage[r] \in {"reading", "gate", "route", "enqueue"}
                    \/ stage[r] \in {"evaluate", "submit", "act"} /\ routed[r] = "sync"}

StopBegins ==
  /\ stop = "serving"
  /\ stop' = "shutdown"
  /\ UNCHANGED <<ruleState, stage, routed, todo, answers, queue, worker, coalescer, dropped>>

\* Mutant: Shutdown does not wait for the handlers.
ShutdownAtOnce ==
  /\ stop = "shutdown"
  /\ stop' = "draining"
  /\ UNCHANGED <<ruleState, stage, routed, todo, answers, queue, worker, coalescer, dropped>>

\* httpServer.Shutdown returns, in order or not, and the queue is closed.
ShutdownReturns ==
  /\ stop = "shutdown"
  /\ Handling = {} \/ expired
  /\ stop' = "draining"
  /\ UNCHANGED <<ruleState, stage, routed, todo, answers, queue, worker, coalescer, dropped>>

WorkersDone == \A w \in Workers : worker[w] = Exited

\* Mutant: a wait for the workers that the grace period does not bound.
DrainUnbounded ==
  /\ stop = "draining"
  /\ WorkersDone
  /\ stop' = "flushing"
  /\ Coalescer!Close
  /\ UNCHANGED <<ruleState, stage, routed, todo, answers, queue, worker, dropped>>

\* The wait for the workers ends and coalescer.Stop begins.
DrainReturns ==
  /\ stop = "draining"
  /\ WorkersDone \/ expired
  /\ stop' = "flushing"
  /\ Coalescer!Close
  /\ UNCHANGED <<ruleState, stage, routed, todo, answers, queue, worker, dropped>>

StopReturns ==
  /\ stop = "flushing"
  /\ held["window"] = None
  /\ emitting = {}
  /\ stop' = "stopped"
  /\ UNCHANGED <<ruleState, stage, routed, todo, answers, queue, worker, coalescer, dropped>>

Handler(r) == \/ Match(r) \/ ReadBody(r) \/ CheckHTTPHMAC(r) \/ HasSyncHTTPPath(r)
              \/ Enqueue(r) \/ EnqueueOnClosed(r)
              \/ Evaluate(r) \/ Submit(r) \/ Act(r) \/ Finish(r) \/ Panics(r)

Next == \/ ReplaceRules
        \/ \E r \in Requests : Handler(r)
        \/ \E w \in Workers : Take(w) \/ Exit(w)
        \/ Deferred
        \/ GraceExpires
        \/ StopBegins \/ ShutdownReturns \/ DrainReturns \/ StopReturns

Spec == Init /\ [][Next]_vars

\* Stop's own goroutine runs, time passes, and a deferred publish is bounded by
\* deferredActionTimeout.  Nothing is assumed of handlers and workers: Stop must
\* return although they are wedged.
FairSpec == /\ Spec
            /\ WF_vars(ShutdownReturns) /\ WF_vars(DrainReturns) /\ WF_vars(StopReturns)
            /\ WF_vars(GraceExpires)
            /\ WF_vars(Deferred)

-----------------------------------------------------------------------------
\* A webhook answered 200 survives shutdown: if Stop returns within the grace
\* period, every accepted request has been evaluated and acted on (or its
\* panic contained), and no deferred batch is still held.
AcceptedSurvivesStop ==
  stop = "stopped" /\ ~expired =>
    /\ \A r \in Requests :
         answers[r] = <<"accepted">> => stage[r] \in {"finished", "panicked"}
    /\ held["window"] = None

\* Only the end of the grace period breaks Stop's order: until then no handler
\* is left to send on the closed queue, which would panic, and no worker or
\* handler to submit a batch that the stopped coalescer drops
\* (server.go:255-259 and 278-280).
GraceProtects == ~expired => dropped = {} /\ \A r \in Requests : stage[r] # "crashed"

\* Every client is answered exactly once: never twice, and a handler that
\* returned without a panic has answered, or noticed that its client left.
AnsweredOnce ==
  \A r \in Requests :
    /\ Len(answers[r]) <= 1
    /\ stage[r] \in {"queued", "finished"} => Len(answers[r]) = 1

\* Stop returns although handlers or workers may be stuck for good.
StopEnds == stop = "shutdown" ~> stop = "stopped"

\* docs/08-kv-rule-store.md:191: "There is no race between rule updates and
\* in-flight requests", so the rules that evaluate a request are rules that
\* would route it the way its handler did.
NoUpdateRace ==
  \A r \in Requests : stage[r] = "evaluate" => rules.route = routed[r]
=============================================================================
