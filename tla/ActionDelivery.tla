--------------------------- MODULE ActionDelivery ---------------------------
(***************************************************************************)
(* How the immediate actions of a message or a cron fire reach the world:  *)
(* the handler of a core subscription (internal/broker/responder.go) or a  *)
(* cron job (internal/app/scheduler.go) evaluates its rules, hands trailing*)
(* batches to its coalescer and performs the rest through the retrying     *)
(* publisher (internal/broker/publisher.go) and the HTTP executor          *)
(* (internal/httpclient/httpclient.go), while the service is shut down.    *)
(*                                                                         *)
(* The two services share no state but the publisher, so a behaviour has   *)
(* one of them.  The coalescer is the abstract TrailingThrottle.           *)
(***************************************************************************)
EXTENDS Naturals, Sequences

CONSTANTS Plans,       \* the sequences of immediate actions rules produce
          MaxRuns,     \* bound on messages and fires
          MaxRetries,  \* publish.maxRetries
          MaxAttempts  \* retry.maxAttempts of the HTTP actions

Kinds == {"jetstream", "core", "http", "httpPublish", "respond"}

ASSUME PlanAssumption == Plans \subseteq Seq(Kinds)
ASSUME RetryAssumption == MaxRetries \in Nat \ {0} /\ MaxAttempts \in Nat \ {0}
ASSUME RunsAssumption == MaxRuns \in Nat

VARIABLES service,   \* "core" or "cron"
          phase,     \* serving, draining, flushing, stopped
          gaveUp,    \* gocron's Shutdown returned although a job was running
          runs,      \* messages and fires so far
          run,       \* the handler or job in progress
          warned,    \* scheduleMonitor.warned
          held, emitting, closed, expired,  \* the coalescer
          dropped,   \* history: batches a stopped coalescer refused
          racing     \* history: the run in progress when the coalescer stopped

vars == <<service, phase, gaveUp, runs, run, warned, held, emitting, closed, expired,
          dropped, racing>>
deferral == <<held, emitting, closed, expired, dropped, racing>>
shutdown == <<service, phase, gaveUp>>

Batches == 1 .. MaxRuns
None == 0
Coalescer == INSTANCE TrailingThrottle WITH
  Keys <- {"key"}, Key <- [b \in Batches |-> "key"]

\* What is known of the action in progress: stored and unknown count the copies
\* JetStream has stored and the publishes whose ack was not seen, answer is what
\* the server sends back, calls the requests the endpoint has received, status
\* its last answer.
Fresh == [attempt |-> 0, stored |-> 0, unknown |-> 0, calls |-> 0, status |-> "none",
          answer |-> "none", result |-> "none"]
Idle == [at |-> "idle", plan |-> <<>>, deferred |-> FALSE, reply |-> FALSE, replies |-> 0,
         responded |-> FALSE, late |-> FALSE, act |-> Fresh]

Statuses == {"none", "ok", "permanent", "retryable", "lost"}
Acts == [attempt : Nat, stored : Nat, unknown : Nat, calls : Nat, status : Statuses,
         answer : {"none", "ok", "err"}, result : {"none", "ok", "failed"}]
Ats == {"idle", "submit", "next", "publish", "ackWait", "backoff",
        "request", "response", "httpBackoff"}
Runs == [at : Ats, plan : Seq(Kinds), deferred : BOOLEAN, reply : BOOLEAN, replies : Nat,
         responded : BOOLEAN, late : BOOLEAN, act : Acts]

TypeOK ==
  /\ service \in {"core", "cron"}
  /\ phase \in {"serving", "draining", "flushing", "stopped"} /\ gaveUp \in BOOLEAN
  /\ runs \in 0 .. MaxRuns /\ warned \in BOOLEAN
  /\ run \in Runs
  /\ held \in [{"key"} -> Batches \cup {None}] /\ emitting \subseteq Batches
  /\ closed \in BOOLEAN /\ expired \in BOOLEAN
  /\ dropped \subseteq Batches /\ racing \subseteq Batches

Init ==
  /\ service \in {"core", "cron"}
  /\ phase = "serving" /\ gaveUp = FALSE
  /\ runs = 0 /\ run = Idle /\ warned = FALSE
  /\ Coalescer!Init
  /\ dropped = {} /\ racing = {}

Frame == UNCHANGED <<shutdown, runs, warned, deferral>>
Doing(action) == run.plan # <<>> /\ Head(run.plan) = action

-----------------------------------------------------------------------------
\* A message arrives or a fire is due: the rules are evaluated.  An error or an
\* empty outcome ends the run; a cron rule has no one to answer.
Begin ==
  /\ phase = "serving"
  /\ run.at = "idle"
  /\ runs < MaxRuns
  /\ runs' = runs + 1
  /\ \E plan \in Plans, deferred, reply \in BOOLEAN :
       /\ service = "cron" => ~reply /\ "respond" \notin {plan[i] : i \in DOMAIN plan}
       /\ run' = [Idle EXCEPT !.at = "submit", !.plan = plan, !.deferred = deferred, !.reply = reply]
  /\ UNCHANGED <<shutdown, warned, deferral>>

\* A fire that comes due while the job runs is discarded (singleton mode) and
\* reported once.
FireDropped ==
  /\ service = "cron" /\ phase = "serving"
  /\ run.at # "idle"
  /\ warned' = TRUE
  /\ UNCHANGED <<shutdown, runs, run, deferral>>

\* Coalescer.Submit: a stopped coalescer drops the batch.
SubmitBatch ==
  /\ run.at = "submit"
  /\ run' = [run EXCEPT !.at = "next"]
  /\ IF ~run.deferred THEN UNCHANGED <<held, emitting, closed, expired, dropped>>
     ELSE IF closed THEN /\ dropped' = dropped \cup {runs}
                         /\ UNCHANGED <<held, emitting, closed, expired>>
     ELSE Coalescer!Offer(runs) /\ UNCHANGED dropped
  /\ UNCHANGED <<shutdown, runs, warned, racing>>

\* The next action of the plan.  A cron job gives every action its own
\* deadline, the core handler has one for all of them.
Deadline == IF service = "cron" THEN FALSE ELSE run.late
Rest(result) ==
  run' = [run EXCEPT !.at = "next", !.plan = Tail(@), !.act.result = result]

StartPublish ==
  /\ run.at = "next"
  /\ Doing("jetstream") \/ Doing("core")
  /\ run' = [run EXCEPT !.at = "publish", !.late = Deadline, !.act = Fresh]
  /\ Frame

StartHTTP ==
  /\ run.at = "next"
  /\ Doing("http") \/ Doing("httpPublish")
  /\ run' = [run EXCEPT !.at = "request", !.late = Deadline, !.act = [Fresh EXCEPT !.attempt = 1]]
  /\ Frame

\* The gateway feature is off: the core handler has no executor.
SkipHTTP ==
  /\ run.at = "next"
  /\ service = "core"
  /\ Doing("http") \/ Doing("httpPublish")
  /\ run' = [run EXCEPT !.plan = Tail(@), !.act = Fresh]
  /\ Frame

\* The first respond wins, and only a request has somebody waiting.
Answers == run.reply /\ ~run.responded

\* The reply may fail to be sent; the deadline does not apply to it.
Respond ==
  /\ run.at = "next"
  /\ Doing("respond")
  /\ \E sent \in IF Answers THEN {0, 1} ELSE {0} :
       run' = [run EXCEPT !.plan = Tail(@), !.act = Fresh, !.replies = @ + sent,
                          !.responded = @ \/ Answers]
  /\ Frame

Return ==
  /\ run.at = "next"
  /\ run.plan = <<>>
  /\ run' = Idle
  /\ Frame

\* A panic in evaluation or in an action is recovered; the rest is not done.
Panics ==
  /\ run.at \in {"submit", "next"}
  /\ run' = Idle
  /\ Frame

\* The deadline of the action context passes.
DeadlinePasses ==
  /\ run.at \in {"publish", "ackWait", "backoff", "request", "response", "httpBackoff"}
  /\ ~run.late
  /\ run' = [run EXCEPT !.late = TRUE]
  /\ Frame

-----------------------------------------------------------------------------
\* ActionPublisher.PublishWithRetry, for an action or for the body of an HTTP
\* response.

\* Mutant: the publisher sends without looking at its context.
GateOpen == TRUE

\* The check of ctx.Err() before each attempt.
Gate == ~run.late

\* What PublishWithRetry reports ends the action, except for publishResponse.
PublishEnds(result) ==
  Rest(IF Doing("httpPublish") THEN "ok" ELSE result)

Cancelled ==
  /\ run.at = "publish"
  /\ ~Gate
  /\ PublishEnds("failed")
  /\ Frame

\* publishJetStream sends, and the server stores the message or not, and its
\* answer arrives or not; publishCore knows only that the client took it.  The
\* body of a response goes out in the configured mode, either of them.
SendJetStream ==
  /\ run.at = "publish" /\ Gate
  /\ ~Doing("core")
  /\ \E outcome \in {<<1, "ok">>, <<1, "none">>, <<0, "err">>, <<0, "none">>} :
       run' = [run EXCEPT !.at = "ackWait", !.act.stored = @ + outcome[1], !.act.answer = outcome[2]]
  /\ Frame

SendCore ==
  /\ run.at = "publish" /\ Gate
  /\ ~Doing("jetstream")
  /\ run' = [run EXCEPT !.at = "next", !.plan = Tail(@), !.act.stored = 1, !.act.result = "ok"]
  /\ Frame

\* The client's buffer is full or the connection is closed: nothing is sent.
SendFails ==
  /\ run.at = "publish" /\ Gate
  /\ run' = [run EXCEPT !.at = "backoff"]
  /\ Frame

AckOk ==
  /\ run.at = "ackWait" /\ run.act.answer = "ok"
  /\ PublishEnds("ok")
  /\ Frame

\* No stream for the subject, or a server error: not stored.
AckErr ==
  /\ run.at = "ackWait" /\ run.act.answer = "err"
  /\ run' = [run EXCEPT !.at = "backoff"]
  /\ Frame

\* Mutant: only the server's answer ends the wait for the ack.
AckTimeoutNever ==
  /\ run.at = "ackWait" /\ run.act.answer = "err"
  /\ run' = [run EXCEPT !.at = "backoff", !.act.unknown = @ + 1]
  /\ Frame

\* Mutant: a publish whose ack is late counts as done.
AckTimeoutOk ==
  /\ run.at = "ackWait"
  /\ PublishEnds("ok")
  /\ Frame

\* AckTimeout or the caller's deadline passes first, stored or not.
AckTimeout ==
  /\ run.at = "ackWait"
  /\ run' = [run EXCEPT !.at = "backoff", !.act.unknown = @ + 1]
  /\ Frame

LastTry == run.act.attempt = MaxRetries - 1

GiveUp ==
  /\ run.at = "backoff"
  /\ LastTry \/ run.late
  /\ PublishEnds("failed")
  /\ Frame

Retry ==
  /\ run.at = "backoff"
  /\ ~LastTry
  /\ run' = [run EXCEPT !.at = "publish", !.act.attempt = @ + 1]
  /\ Frame

-----------------------------------------------------------------------------
\* Executor.ExecuteHTTPAction and makeHTTPRequest.

\* A request with an expired context is not sent; an error says nothing about
\* whether the endpoint got it.
Request ==
  /\ run.at = "request"
  /\ IF run.late
     THEN run' = [run EXCEPT !.at = "response", !.act.status = "lost"]
     ELSE \E status \in Statuses \ {"none"}, got \in {0, 1} :
            /\ status # "lost" => got = 1
            /\ run' = [run EXCEPT !.at = "response", !.act.status = status, !.act.calls = @ + got]
  /\ Frame

\* A 2xx answer ends the action, after its body was published where asked for.
Succeeds ==
  /\ run.at = "response"
  /\ run.act.status = "ok"
  /\ IF Doing("httpPublish")
     THEN run' = [run EXCEPT !.at = "publish", !.act.attempt = 0]
     ELSE Rest("ok")
  /\ Frame

\* Not after the last attempt, nor after a 4xx other than 408 and 429.
NoMoreAttempts == run.act.attempt = MaxAttempts \/ run.act.status = "permanent"

Fails ==
  /\ run.at = "response"
  /\ run.act.status # "ok"
  /\ IF NoMoreAttempts THEN Rest("failed")
     ELSE run' = [run EXCEPT !.at = "httpBackoff"]
  /\ Frame

\* The select between the context and the delay.
HTTPBackoff ==
  /\ run.at = "httpBackoff"
  /\ \/ run.late /\ Rest("failed")
     \/ run' = [run EXCEPT !.at = "request", !.act.attempt = @ + 1]
  /\ Frame

-----------------------------------------------------------------------------
\* The coalescer executes its batches through the same publisher and executor
\* (executeSideEffect, executeDeferred); their outcome is only counted.
Emit == Coalescer!Emit("key") /\ UNCHANGED <<shutdown, runs, run, warned, dropped, racing>>
EmitEnds == (\E b \in Batches : Coalescer!Finish(b)) /\ UNCHANGED <<shutdown, runs, run, warned, dropped, racing>>
FlushDeadline ==
  /\ phase = "flushing"
  /\ Coalescer!Expire
  /\ UNCHANGED <<shutdown, runs, run, warned, dropped, racing>>
FlushDrops == Coalescer!Discard("key") /\ UNCHANGED <<shutdown, runs, run, warned, dropped, racing>>

\* Responder.Close removes the subscriptions; SchedulerApp.Run calls Shutdown.
CloseBegins ==
  /\ phase = "serving"
  /\ phase' = "draining"
  /\ UNCHANGED <<service, gaveUp, runs, run, warned, deferral>>

\* Mutant: the flush comes first, while messages still arrive.
FlushFirst == phase = "serving"

\* Unsubscribing does not wait for the handler in progress; Shutdown waits for
\* the running job, or gives up (gocron's stop timeout).
Drained == phase = "draining" /\ (service = "core" \/ run.at = "idle" \/ gaveUp)

ShutdownGivesUp ==
  /\ service = "cron" /\ phase = "draining"
  /\ run.at # "idle"
  /\ gaveUp' = TRUE
  /\ UNCHANGED <<service, phase, runs, run, warned, deferral>>

StopCoalescer ==
  /\ Drained
  /\ ~closed
  /\ phase' = IF phase = "draining" THEN "flushing" ELSE phase
  /\ Coalescer!Close
  /\ racing' = IF run.at = "idle" THEN racing ELSE racing \cup {runs}
  /\ UNCHANGED <<service, gaveUp, runs, run, warned, dropped>>

CloseReturns ==
  /\ phase = "flushing"
  /\ held["key"] = None
  /\ emitting = {} \/ expired
  /\ phase' = "stopped"
  /\ UNCHANGED <<service, gaveUp, runs, run, warned, deferral>>

Publisher ==
  \/ Cancelled \/ SendJetStream \/ SendCore \/ SendFails
  \/ AckOk \/ AckErr \/ AckTimeout \/ GiveUp \/ Retry

Runner ==
  \/ SubmitBatch \/ StartPublish \/ StartHTTP \/ SkipHTTP \/ Respond \/ Return \/ Panics
  \/ Publisher
  \/ Request \/ Succeeds \/ Fails \/ HTTPBackoff

Next ==
  \/ Begin \/ FireDropped \/ Runner \/ DeadlinePasses
  \/ Emit \/ EmitEnds \/ FlushDeadline \/ FlushDrops
  \/ CloseBegins \/ ShutdownGivesUp \/ StopCoalescer \/ CloseReturns

\* A goroutine that can go on does; a timeout passes; the coalescer's timers
\* and executions end.
Fairness ==
  /\ WF_vars(Runner)
  /\ WF_vars(Emit) /\ WF_vars(EmitEnds)
  /\ WF_vars(StopCoalescer) /\ WF_vars(CloseReturns)

Spec == Init /\ [][Next]_vars /\ Fairness

-----------------------------------------------------------------------------
\* A publish that reports success has been stored, and JetStream holds a second
\* copy only if the ack of an earlier attempt was not seen in time.
PublishHonest ==
  run.at = "next" =>
    /\ (run.act.result = "ok" /\ run.act.calls = 0 => run.act.stored > 0)
    /\ (run.act.stored > 1 => run.act.unknown > 0)

\* An endpoint is called no more often than the rule allows, and never again
\* once it has accepted the request or refused it for good, also when
\* publishing its answer fails (StatusError.Permanent, publishResponse).
NoNeedlessCall ==
  [][ run'.act.calls > run.act.calls /\ run.act.calls > 0 =>
        /\ run.act.status \in {"retryable", "lost"}
        /\ run'.act.calls <= MaxAttempts ]_vars

\* Once the deadline of the actions has passed, nothing more is sent for them:
\* an action multiplying its retries holds the subscription no longer.
NoSendAfterDeadline ==
  [][ run.late /\ run'.late /\ run'.at # "idle" =>
        run'.act.stored <= run.act.stored /\ run'.act.calls <= run.act.calls ]_vars

\* A requester gets at most one answer, whatever several rules respond.
RepliedOnce == run.replies <= 1

\* What a handler reports, and what a requester sees, is what happened once.
ReportsHonest == PublishHonest /\ RepliedOnce

\* Retries end where they can do no good: at success, at a permanent refusal,
\* at the attempt limit and at the deadline.
RetriesBounded == NoNeedlessCall /\ NoSendAfterDeadline

\* A batch is dropped by the stopped coalescer only if its message was being
\* handled at the moment of Stop; a cron job's only if Shutdown gave up on it.
DropsOnlyRacers ==
  /\ dropped \subseteq racing
  /\ service = "cron" /\ dropped # {} => gaveUp

\* A handler or job ends although the server never answers, and so does Close.
RunEnds == (run.at # "idle" ~> run.at = "idle") /\ (phase = "draining" ~> phase = "stopped")
=============================================================================
