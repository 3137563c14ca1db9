------------------------ MODULE ActionDeliveryProofs ------------------------
(***************************************************************************)
(* The honesty of what a handler reports, the bounds on its retries and    *)
(* the orderly end of its coalescer, for every set of plans and every      *)
(* retry limit.                                                            *)
(***************************************************************************)
EXTENDS ActionDelivery, TLAPS

\* Where a publish is, JetStream holds no more copies than there were lost
\* acks, and one more while an ack is awaited; a response is published only
\* after its endpoint was called.
CopiesCounted ==
  LET act == run.act IN
  /\ run.at \in {"publish", "backoff", "request", "response", "httpBackoff"}
       => act.stored <= act.unknown
  /\ run.at = "ackWait" =>
       /\ act.stored <= act.unknown + 1
       /\ act.answer = "err" => act.stored <= act.unknown
       /\ act.answer = "ok" => act.stored > 0
  /\ run.at \in {"publish", "ackWait", "backoff"} /\ Doing("httpPublish") => act.calls > 0

\* The endpoint has been called at most once per attempt, and an attempt that
\* may be followed by another was answered in a way that allows it.
AttemptsCounted ==
  LET act == run.act IN
  /\ run.at = "request" =>
       /\ act.calls < act.attempt /\ act.attempt <= MaxAttempts
       /\ act.calls > 0 => act.status \in {"retryable", "lost"}
  /\ run.at = "response" =>
       /\ act.calls <= act.attempt /\ act.attempt <= MaxAttempts
       /\ act.status # "none"
       /\ act.status = "ok" => act.calls > 0
  /\ run.at = "httpBackoff" =>
       /\ act.calls <= act.attempt /\ act.attempt < MaxAttempts
       /\ act.status \in {"retryable", "lost"}

\* An action in progress is the first of the plan.
PlanLeft == run.at \notin {"idle", "submit", "next"} => run.plan # <<>>

\* Nothing is known of an action before the first one starts.
SubmitFresh == run.at = "submit" => run.act = Fresh

Unanswered == ~run.responded => run.replies = 0

\* A run is counted, the coalescer closes in the flushing phase, and a run that outlives that
\* moment is on record.
ClosedMeans ==
  /\ run.at # "idle" => runs \in Batches
  /\ closed => phase \in {"flushing", "stopped"}
  /\ closed /\ run.at # "idle" => runs \in racing
  /\ closed /\ run.at # "idle" /\ service = "cron" => gaveUp

Calls == CopiesCounted /\ AttemptsCounted /\ PlanLeft /\ SubmitFresh /\ Unanswered /\ ReportsHonest
IndInv == TypeOK /\ Calls /\ ClosedMeans /\ DropsOnlyRacers

\* An idle handler has a record of the right type and has reported nothing.
LEMMA InitCalls == run = Idle => run \in Runs /\ Calls
<1> SUFFICES ASSUME run = Idle PROVE run \in Runs /\ Calls
  OBVIOUS
<1>1. Fresh \in Acts
  BY DEF Fresh, Acts, Statuses
<1>2. run \in Runs
  BY <1>1 DEF Idle, Runs, Ats
<1>3. Calls
  BY DEF Calls, CopiesCounted, AttemptsCounted, PlanLeft, SubmitFresh, Unanswered, ReportsHonest,
     PublishHonest, RepliedOnce, Idle, Fresh
<1> QED
  BY <1>2, <1>3

\* Every step of a handler keeps its record and what is true of it.
LEMMA NextCalls == run \in Runs /\ Calls /\ [Next]_vars => run' \in Runs /\ Calls'
<1> SUFFICES ASSUME run \in Runs, Calls, [Next]_vars PROVE run' \in Runs /\ Calls'
  OBVIOUS
<1> DEFINE Goal == run' \in Runs /\ Calls'
<1> SUFFICES Goal
  OBVIOUS
<1>f. Fresh \in Acts /\ Fresh.calls = 0 /\ Fresh.stored = 0 /\ Fresh.result = "none"
  BY DEF Fresh, Acts, Statuses
<1>a. run.act \in Acts
  BY DEF Runs
<1>p. run.plan # <<>> => Tail(run.plan) \in Seq(Kinds)
  BY DEF Runs
<1> USE PlanAssumption, RetryAssumption, <1>a DEF Ats, Statuses, Doing
<1>1. CASE Begin
  <2>1. run' \in Runs
    BY <1>1, <1>p, <1>f DEF Begin, Idle, Runs, Acts
  <2>2. Calls'
    BY <1>1, <1>f DEF Begin, Idle, Calls, CopiesCounted, AttemptsCounted, PlanLeft, SubmitFresh,
       Unanswered, ReportsHonest, PublishHonest, RepliedOnce, Runs, Acts
  <2> QED
    BY <2>1, <2>2
<1>2. CASE SubmitBatch
  <2> DEFINE a == run.act
  <2>1. a \in Acts
    BY <1>f DEF Acts
  <2>2. run.at = "submit" /\ run.act = Fresh
    BY <1>2 DEF SubmitBatch, Calls, PlanLeft, CopiesCounted, AttemptsCounted, SubmitFresh
  <2>3. run' \in Runs
    BY <1>2, <2>1, <2>2, <1>p DEF SubmitBatch, Runs
  <2>4. /\ run'.act = a /\ run'.at = "next" /\ run'.plan = run.plan
        /\ run'.replies = run.replies /\ run'.responded = run.responded
    BY <1>2, <2>1, <2>2, <1>p DEF SubmitBatch, Runs
  <2>5. Calls'
    BY <2>1, <2>2, <2>4, <1>f DEF Calls, CopiesCounted, AttemptsCounted, PlanLeft, SubmitFresh,
       Unanswered, ReportsHonest, PublishHonest, RepliedOnce, Runs, Acts
  <2> QED
    BY <2>3, <2>5
<1>3. CASE StartPublish
  <2>1. run' \in Runs
    BY <1>3, <1>p, <1>f DEF StartPublish, Deadline, Runs, Acts
  <2>2. Calls'
    BY <1>3, <1>f DEF StartPublish, Deadline, Calls, CopiesCounted, AttemptsCounted, PlanLeft, SubmitFresh,
       Unanswered, ReportsHonest, PublishHonest, RepliedOnce, Runs, Acts
  <2> QED
    BY <2>1, <2>2
<1>4. CASE StartHTTP
  <2>1. run' \in Runs
    BY <1>4, <1>p, <1>f DEF StartHTTP, Deadline, Runs, Acts
  <2>2. Calls'
    BY <1>4, <1>f DEF StartHTTP, Deadline, Calls, CopiesCounted, AttemptsCounted, PlanLeft, SubmitFresh,
       Unanswered, ReportsHonest, PublishHonest, RepliedOnce, Runs, Acts
  <2> QED
    BY <2>1, <2>2
<1>5. CASE SkipHTTP
  <2> DEFINE a == Fresh
  <2>1. a \in Acts
    BY <1>f DEF Acts
  <2>2. run.at = "next" /\ run.plan # <<>>
    BY <1>5 DEF SkipHTTP, Calls, PlanLeft, CopiesCounted, AttemptsCounted, SubmitFresh
  <2>3. run' \in Runs
    BY <1>5, <2>1, <2>2, <1>p DEF SkipHTTP, Runs
  <2>4. /\ run'.act = a /\ run'.at = "next" /\ run'.plan = Tail(run.plan)
        /\ run'.replies = run.replies /\ run'.responded = run.responded
    BY <1>5, <2>1, <2>2, <1>p DEF SkipHTTP, Runs
  <2>5. Calls'
    BY <2>1, <2>2, <2>4, <1>f DEF Calls, CopiesCounted, AttemptsCounted, PlanLeft, SubmitFresh,
       Unanswered, ReportsHonest, PublishHonest, RepliedOnce, Runs, Acts
  <2> QED
    BY <2>3, <2>5
<1>6. CASE Respond
  <2>p. PICK sent \in IF Answers THEN {0, 1} ELSE {0} :
          run' = [run EXCEPT !.plan = Tail(@), !.act = Fresh, !.replies = @ + sent,
                             !.responded = @ \/ Answers]
    BY <1>6 DEF Respond
  <2>1. sent \in {0, 1} /\ (sent = 1 => ~run.responded)
    BY <2>p DEF Answers
  <2>2. run.at = "next" /\ run.plan # <<>>
    BY <1>6 DEF Respond
  <2>3. (run.responded \/ Answers) \in BOOLEAN /\ run.replies + sent \in Nat
    BY <2>1 DEF Answers, Runs
  <2>4. run' \in Runs
    BY <2>p, <2>2, <2>3, <1>f, <1>p DEF Runs
  <2>5. /\ run'.act = Fresh /\ run'.at = "next" /\ run'.replies = run.replies + sent
        /\ sent = 1 => run'.responded
        /\ run.responded => run'.responded
    BY <2>p, <2>1, <2>2 DEF Runs, Answers
  <2>6. Calls'
    BY <2>1, <2>5, <1>f DEF Calls, CopiesCounted, AttemptsCounted, PlanLeft, SubmitFresh,
       Unanswered, ReportsHonest, PublishHonest, RepliedOnce, Runs, Acts, Fresh
  <2> QED
    BY <2>4, <2>6
<1>7. CASE Return \/ Panics
  <2>1. run' = Idle
    BY <1>7 DEF Return, Panics
  <2>2. run' \in Runs
    BY <2>1, <1>f DEF Idle, Runs
  <2>3. Calls'
    BY <2>1, <1>f DEF Idle, Fresh, Calls, CopiesCounted, AttemptsCounted, PlanLeft, SubmitFresh,
       Unanswered, ReportsHonest, PublishHonest, RepliedOnce, Runs, Acts
  <2> QED
    BY <2>2, <2>3
<1>8. CASE DeadlinePasses
  <2>1. run' \in Runs
    BY <1>8, <1>p, <1>f DEF DeadlinePasses, Runs, Acts
  <2>2. Calls'
    BY <1>8, <1>f DEF DeadlinePasses, Calls, CopiesCounted, AttemptsCounted, PlanLeft, SubmitFresh,
       Unanswered, ReportsHonest, PublishHonest, RepliedOnce, Runs, Acts
  <2> QED
    BY <2>1, <2>2
<1>9. CASE Cancelled \/ GiveUp
  <2> DEFINE a == [run.act EXCEPT !.result = IF Doing("httpPublish") THEN "ok" ELSE "failed"]
  <2>1. a \in Acts
    BY <1>f DEF Acts
  <2>2. run.at \in {"publish", "backoff"} /\ run.plan # <<>>
    BY <1>9 DEF Cancelled, GiveUp, PublishEnds, Rest, Calls, PlanLeft, CopiesCounted, AttemptsCounted, SubmitFresh
  <2>3. run' \in Runs
    BY <1>9, <2>1, <2>2, <1>p DEF Cancelled, GiveUp, PublishEnds, Rest, Runs
  <2>4. /\ run'.act = a /\ run'.at = "next" /\ run'.plan = Tail(run.plan)
        /\ run'.replies = run.replies /\ run'.responded = run.responded
    BY <1>9, <2>1, <2>2, <1>p DEF Cancelled, GiveUp, PublishEnds, Rest, Runs
  <2>5. Calls'
    BY <2>1, <2>2, <2>4, <1>f DEF Calls, CopiesCounted, AttemptsCounted, PlanLeft, SubmitFresh,
       Unanswered, ReportsHonest, PublishHonest, RepliedOnce, Runs, Acts
  <2> QED
    BY <2>3, <2>5
<1>10. CASE SendJetStream
  <2>p. PICK o \in {<<1, "ok">>, <<1, "none">>, <<0, "err">>, <<0, "none">>} :
          run' = [run EXCEPT !.at = "ackWait", !.act.stored = @ + o[1], !.act.answer = o[2]]
    BY <1>10 DEF SendJetStream
  <2>o. /\ o[1] \in {0, 1} /\ o[2] \in {"none", "ok", "err"}
        /\ o[2] = "ok" => o[1] = 1
        /\ o[2] = "err" => o[1] = 0
    OBVIOUS
  <2>n. run.act.stored + o[1] \in Nat
    BY <2>o DEF Acts
  <2> DEFINE a == [run.act EXCEPT !.stored = @ + o[1], !.answer = o[2]]
  <2>1. a \in Acts
    BY <2>o, <2>n DEF Acts
  <2>2. run.at = "publish" /\ run.plan # <<>>
    BY <1>10, <2>p DEF SendJetStream, Calls, PlanLeft, CopiesCounted, AttemptsCounted, SubmitFresh
  <2>3. run' \in Runs
    BY <2>p, <2>1, <2>2, <1>p DEF SendJetStream, Runs
  <2>4. /\ run'.act = a /\ run'.at = "ackWait" /\ run'.plan = run.plan
        /\ run'.replies = run.replies /\ run'.responded = run.responded
    BY <2>p, <2>1, <2>2, <1>p DEF SendJetStream, Runs
  <2>5. Calls'
    BY <2>o, <2>1, <2>2, <2>4 DEF Calls, CopiesCounted, AttemptsCounted, PlanLeft, SubmitFresh,
       Unanswered, ReportsHonest, PublishHonest, RepliedOnce, Runs, Acts
  <2> QED
    BY <2>3, <2>5
<1>11. CASE SendCore
  <2> DEFINE a == [run.act EXCEPT !.stored = 1, !.result = "ok"]
  <2>1. a \in Acts
    BY <1>f DEF Acts
  <2>2. run.at = "publish" /\ run.plan # <<>>
    BY <1>11 DEF SendCore, Calls, PlanLeft, CopiesCounted, AttemptsCounted, SubmitFresh
  <2>3. run' \in Runs
    BY <1>11, <2>1, <2>2, <1>p DEF SendCore, Runs
  <2>4. /\ run'.act = a /\ run'.at = "next" /\ run'.plan = Tail(run.plan)
        /\ run'.replies = run.replies /\ run'.responded = run.responded
    BY <1>11, <2>1, <2>2, <1>p DEF SendCore, Runs
  <2>5. Calls'
    BY <2>1, <2>2, <2>4, <1>f DEF Calls, CopiesCounted, AttemptsCounted, PlanLeft, SubmitFresh,
       Unanswered, ReportsHonest, PublishHonest, RepliedOnce, Runs, Acts
  <2> QED
    BY <2>3, <2>5
<1>12. CASE SendFails \/ AckErr
  <2>1. run' \in Runs
    BY <1>12, <1>p, <1>f DEF SendFails, AckErr, Runs, Acts
  <2>2. Calls'
    BY <1>12, <1>f DEF SendFails, AckErr, Calls, CopiesCounted, AttemptsCounted, PlanLeft, SubmitFresh,
       Unanswered, ReportsHonest, PublishHonest, RepliedOnce, Runs, Acts
  <2> QED
    BY <2>1, <2>2
<1>13. CASE AckOk
  <2> DEFINE a == [run.act EXCEPT !.result = "ok"]
  <2>1. a \in Acts
    BY <1>f DEF Acts
  <2>2. run.at = "ackWait" /\ run.act.answer = "ok" /\ run.plan # <<>>
    BY <1>13 DEF AckOk, PublishEnds, Rest, Calls, PlanLeft, CopiesCounted, AttemptsCounted, SubmitFresh
  <2>3. run' \in Runs
    BY <1>13, <2>1, <2>2, <1>p DEF AckOk, PublishEnds, Rest, Runs
  <2>4. /\ run'.act = a /\ run'.at = "next" /\ run'.plan = Tail(run.plan)
        /\ run'.replies = run.replies /\ run'.responded = run.responded
    BY <1>13, <2>1, <2>2, <1>p DEF AckOk, PublishEnds, Rest, Runs
  <2>5. Calls'
    BY <2>1, <2>2, <2>4, <1>f DEF Calls, CopiesCounted, AttemptsCounted, PlanLeft, SubmitFresh,
       Unanswered, ReportsHonest, PublishHonest, RepliedOnce, Runs, Acts
  <2> QED
    BY <2>3, <2>5
<1>14. CASE AckTimeout
  <2> DEFINE a == [run.act EXCEPT !.unknown = @ + 1]
  <2>1. a \in Acts
    BY <1>f DEF Acts
  <2>2. run.at = "ackWait" /\ run.plan # <<>>
    BY <1>14 DEF AckTimeout, Calls, PlanLeft, CopiesCounted, AttemptsCounted, SubmitFresh
  <2>3. run' \in Runs
    BY <1>14, <2>1, <2>2, <1>p DEF AckTimeout, Runs
  <2>4. /\ run'.act = a /\ run'.at = "backoff" /\ run'.plan = run.plan
        /\ run'.replies = run.replies /\ run'.responded = run.responded
    BY <1>14, <2>1, <2>2, <1>p DEF AckTimeout, Runs
  <2>5. Calls'
    BY <2>1, <2>2, <2>4, <1>f DEF Calls, CopiesCounted, AttemptsCounted, PlanLeft, SubmitFresh,
       Unanswered, ReportsHonest, PublishHonest, RepliedOnce, Runs, Acts
  <2> QED
    BY <2>3, <2>5
<1>15. CASE Retry
  <2> DEFINE a == [run.act EXCEPT !.attempt = @ + 1]
  <2>1. a \in Acts
    BY <1>f DEF Acts
  <2>2. run.at = "backoff" /\ run.plan # <<>>
    BY <1>15 DEF Retry, Calls, PlanLeft, CopiesCounted, AttemptsCounted, SubmitFresh
  <2>3. run' \in Runs
    BY <1>15, <2>1, <2>2, <1>p DEF Retry, Runs
  <2>4. /\ run'.act = a /\ run'.at = "publish" /\ run'.plan = run.plan
        /\ run'.replies = run.replies /\ run'.responded = run.responded
    BY <1>15, <2>1, <2>2, <1>p DEF Retry, Runs
  <2>5. Calls'
    BY <2>1, <2>2, <2>4, <1>f DEF Calls, CopiesCounted, AttemptsCounted, PlanLeft, SubmitFresh,
       Unanswered, ReportsHonest, PublishHonest, RepliedOnce, Runs, Acts
  <2> QED
    BY <2>3, <2>5
<1>16. CASE Request /\ run.late
  <2> DEFINE a == [run.act EXCEPT !.status = "lost"]
  <2>1. a \in Acts
    BY <1>f DEF Acts
  <2>2. run.at = "request" /\ run.plan # <<>>
    BY <1>16 DEF Request, Calls, PlanLeft, CopiesCounted, AttemptsCounted, SubmitFresh
  <2>3. run' \in Runs
    BY <1>16, <2>1, <2>2, <1>p DEF Request, Runs
  <2>4. /\ run'.act = a /\ run'.at = "response" /\ run'.plan = run.plan
        /\ run'.replies = run.replies /\ run'.responded = run.responded
    BY <1>16, <2>1, <2>2, <1>p DEF Request, Runs
  <2>5. Calls'
    BY <2>1, <2>2, <2>4, <1>f DEF Calls, CopiesCounted, AttemptsCounted, PlanLeft, SubmitFresh,
       Unanswered, ReportsHonest, PublishHonest, RepliedOnce, Runs, Acts
  <2> QED
    BY <2>3, <2>5
<1>17. CASE Request /\ ~run.late
  <2>p. PICK status \in Statuses \ {"none"}, got \in {0, 1} :
          /\ status # "lost" => got = 1
          /\ run' = [run EXCEPT !.at = "response", !.act.status = status, !.act.calls = @ + got]
    BY <1>17 DEF Request
  <2>o. /\ run.act.calls + got \in Nat
        /\ status \in Statuses \ {"none"} /\ got \in {0, 1} /\ (status # "lost" => got = 1)
    BY <2>p DEF Acts
  <2> DEFINE a == [run.act EXCEPT !.status = status, !.calls = @ + got]
  <2>1. a \in Acts
    BY <2>o DEF Acts
  <2>2. run.at = "request" /\ run.plan # <<>>
    BY <1>17, <2>p DEF Request, Calls, PlanLeft, CopiesCounted, AttemptsCounted, SubmitFresh
  <2>3. run' \in Runs
    BY <2>p, <2>1, <2>2, <1>p DEF Request, Runs
  <2>4. /\ run'.act = a /\ run'.at = "response" /\ run'.plan = run.plan
        /\ run'.replies = run.replies /\ run'.responded = run.responded
    BY <2>p, <2>1, <2>2, <1>p DEF Request, Runs
  <2>a. /\ a.status = status /\ a.calls = run.act.calls + got
        /\ a.attempt = run.act.attempt /\ a.stored = run.act.stored /\ a.unknown = run.act.unknown
    BY DEF Acts
  <2> HIDE DEF a
  <2>5. Calls'
    BY <2>o, <2>a, <2>2, <2>4 DEF Calls, CopiesCounted, AttemptsCounted, PlanLeft, SubmitFresh,
       Unanswered, ReportsHonest, PublishHonest, RepliedOnce, Runs, Acts
  <2> QED
    BY <2>3, <2>5
<1>18. CASE Succeeds /\ Doing("httpPublish")
  <2> DEFINE a == [run.act EXCEPT !.attempt = 0]
  <2>1. a \in Acts
    BY <1>f DEF Acts
  <2>2. run.at = "response" /\ run.act.status = "ok" /\ run.plan # <<>>
    BY <1>18 DEF Succeeds, Calls, PlanLeft, CopiesCounted, AttemptsCounted, SubmitFresh
  <2>3. run' \in Runs
    BY <1>18, <2>1, <2>2, <1>p DEF Succeeds, Runs
  <2>4. /\ run'.act = a /\ run'.at = "publish" /\ run'.plan = run.plan
        /\ run'.replies = run.replies /\ run'.responded = run.responded
    BY <1>18, <2>1, <2>2, <1>p DEF Succeeds, Runs
  <2>5. Calls'
    BY <2>1, <2>2, <2>4, <1>f DEF Calls, CopiesCounted, AttemptsCounted, PlanLeft, SubmitFresh,
       Unanswered, ReportsHonest, PublishHonest, RepliedOnce, Runs, Acts
  <2> QED
    BY <2>3, <2>5
<1>19. CASE Succeeds /\ ~Doing("httpPublish")
  <2> DEFINE a == [run.act EXCEPT !.result = "ok"]
  <2>1. a \in Acts
    BY <1>f DEF Acts
  <2>2. run.at = "response" /\ run.act.status = "ok" /\ run.plan # <<>>
    BY <1>19 DEF Succeeds, Rest, Calls, PlanLeft, CopiesCounted, AttemptsCounted, SubmitFresh
  <2>3. run' \in Runs
    BY <1>19, <2>1, <2>2, <1>p DEF Succeeds, Rest, Runs
  <2>4. /\ run'.act = a /\ run'.at = "next" /\ run'.plan = Tail(run.plan)
        /\ run'.replies = run.replies /\ run'.responded = run.responded
    BY <1>19, <2>1, <2>2, <1>p DEF Succeeds, Rest, Runs
  <2>5. Calls'
    BY <2>1, <2>2, <2>4, <1>f DEF Calls, CopiesCounted, AttemptsCounted, PlanLeft, SubmitFresh,
       Unanswered, ReportsHonest, PublishHonest, RepliedOnce, Runs, Acts
  <2> QED
    BY <2>3, <2>5
<1>20. CASE Fails /\ NoMoreAttempts
  <2> DEFINE a == [run.act EXCEPT !.result = "failed"]
  <2>1. a \in Acts
    BY <1>f DEF Acts
  <2>2. run.at = "response" /\ run.plan # <<>>
    BY <1>20 DEF Fails, Rest, Calls, PlanLeft, CopiesCounted, AttemptsCounted, SubmitFresh
  <2>3. run' \in Runs
    BY <1>20, <2>1, <2>2, <1>p DEF Fails, Rest, Runs
  <2>4. /\ run'.act = a /\ run'.at = "next" /\ run'.plan = Tail(run.plan)
        /\ run'.replies = run.replies /\ run'.responded = run.responded
    BY <1>20, <2>1, <2>2, <1>p DEF Fails, Rest, Runs
  <2>5. Calls'
    BY <2>1, <2>2, <2>4, <1>f DEF Calls, CopiesCounted, AttemptsCounted, PlanLeft, SubmitFresh,
       Unanswered, ReportsHonest, PublishHonest, RepliedOnce, Runs, Acts
  <2> QED
    BY <2>3, <2>5
<1>21. CASE Fails /\ ~NoMoreAttempts
  <2> DEFINE a == run.act
  <2>1. a \in Acts
    BY <1>f DEF Acts
  <2>2. run.at = "response" /\ run.act.status # "ok" /\ run.act.status # "permanent"
        /\ run.act.attempt # MaxAttempts /\ run.plan # <<>>
    BY <1>21 DEF Fails, NoMoreAttempts, Calls, PlanLeft, CopiesCounted, AttemptsCounted, SubmitFresh
  <2>3. run' \in Runs
    BY <1>21, <2>1, <2>2, <1>p DEF Fails, NoMoreAttempts, Runs
  <2>4. /\ run'.act = a /\ run'.at = "httpBackoff" /\ run'.plan = run.plan
        /\ run'.replies = run.replies /\ run'.responded = run.responded
    BY <1>21, <2>1, <2>2, <1>p DEF Fails, NoMoreAttempts, Runs
  <2>5. Calls'
    BY <2>1, <2>2, <2>4, <1>f DEF Calls, CopiesCounted, AttemptsCounted, PlanLeft, SubmitFresh,
       Unanswered, ReportsHonest, PublishHonest, RepliedOnce, Runs, Acts
  <2> QED
    BY <2>3, <2>5
<1>22. CASE HTTPBackoff /\ Rest("failed")
  <2> DEFINE a == [run.act EXCEPT !.result = "failed"]
  <2>1. a \in Acts
    BY <1>f DEF Acts
  <2>2. run.at = "httpBackoff" /\ run.plan # <<>>
    BY <1>22 DEF HTTPBackoff, Rest, Calls, PlanLeft, CopiesCounted, AttemptsCounted, SubmitFresh
  <2>3. run' \in Runs
    BY <1>22, <2>1, <2>2, <1>p DEF HTTPBackoff, Rest, Runs
  <2>4. /\ run'.act = a /\ run'.at = "next" /\ run'.plan = Tail(run.plan)
        /\ run'.replies = run.replies /\ run'.responded = run.responded
    BY <1>22, <2>1, <2>2, <1>p DEF HTTPBackoff, Rest, Runs
  <2>5. Calls'
    BY <2>1, <2>2, <2>4, <1>f DEF Calls, CopiesCounted, AttemptsCounted, PlanLeft, SubmitFresh,
       Unanswered, ReportsHonest, PublishHonest, RepliedOnce, Runs, Acts
  <2> QED
    BY <2>3, <2>5
<1>23. CASE HTTPBackoff /\ run' = [run EXCEPT !.at = "request", !.act.attempt = @ + 1]
  <2> DEFINE a == [run.act EXCEPT !.attempt = @ + 1]
  <2>1. a \in Acts
    BY <1>f DEF Acts
  <2>2. run.at = "httpBackoff" /\ run.plan # <<>>
    BY <1>23 DEF HTTPBackoff, Calls, PlanLeft, CopiesCounted, AttemptsCounted, SubmitFresh
  <2>3. run' \in Runs
    BY <1>23, <2>1, <2>2, <1>p DEF HTTPBackoff, Runs
  <2>4. /\ run'.act = a /\ run'.at = "request" /\ run'.plan = run.plan
        /\ run'.replies = run.replies /\ run'.responded = run.responded
    BY <1>23, <2>1, <2>2, <1>p DEF HTTPBackoff, Runs
  <2>5. Calls'
    BY <2>1, <2>2, <2>4, <1>f DEF Calls, CopiesCounted, AttemptsCounted, PlanLeft, SubmitFresh,
       Unanswered, ReportsHonest, PublishHonest, RepliedOnce, Runs, Acts
  <2> QED
    BY <2>3, <2>5
<1>24. ASSUME UNCHANGED run PROVE Goal
  BY <1>24 DEF Calls, CopiesCounted, AttemptsCounted, PlanLeft, SubmitFresh,
       Unanswered, ReportsHonest, PublishHonest, RepliedOnce, Runs, Acts
<1>25. CASE \/ FireDropped \/ Emit \/ EmitEnds \/ FlushDeadline \/ FlushDrops
            \/ CloseBegins \/ ShutdownGivesUp \/ StopCoalescer \/ CloseReturns
            \/ UNCHANGED vars
  <2>1. UNCHANGED run
    BY <1>25 DEF FireDropped, Emit, EmitEnds, FlushDeadline, FlushDrops, CloseBegins,
       ShutdownGivesUp, StopCoalescer, CloseReturns, vars
  <2> QED
    BY <1>24, <2>1
<1>26. CASE Request \/ Succeeds \/ Fails
  BY <1>16, <1>17, <1>18, <1>19, <1>20, <1>21, <1>26
<1>27. CASE HTTPBackoff
  <2>1. Rest("failed") \/ run' = [run EXCEPT !.at = "request", !.act.attempt = @ + 1]
    BY <1>27 DEF HTTPBackoff
  <2> QED
    BY <1>22, <1>23, <1>27, <2>1
<1> QED
  <2> HIDE DEF Goal
  <2> QED
    BY <1>1, <1>2, <1>3, <1>4, <1>5, <1>6, <1>7, <1>8, <1>9, <1>10, <1>11, <1>12, <1>13, <1>14,
       <1>15, <1>25, <1>26, <1>27 DEF Next, Runner, Publisher

-----------------------------------------------------------------------------
\* A service that has just started satisfies the invariant.
LEMMA InitInd == Init => IndInv
<1> SUFFICES ASSUME Init PROVE IndInv
  OBVIOUS
<1>1. run \in Runs /\ Calls
  BY InitCalls DEF Init
<1>2. TypeOK
  <2>1. held = [k \in {"key"} |-> None] /\ emitting = {} /\ closed = FALSE /\ expired = FALSE
    BY DEF Init, Coalescer!Init
  <2>2. held \in [{"key"} -> Batches \cup {None}]
    BY <2>1
  <2>3. /\ service \in {"core", "cron"} /\ phase = "serving" /\ gaveUp = FALSE
        /\ runs = 0 /\ warned = FALSE /\ dropped = {} /\ racing = {}
    BY DEF Init
  <2>4. runs \in 0 .. MaxRuns
    BY <2>3, RunsAssumption
  <2> QED
    BY <1>1, <2>1, <2>2, <2>3, <2>4 DEF TypeOK
<1>3. ClosedMeans /\ DropsOnlyRacers
  BY DEF Init, Coalescer!Init, ClosedMeans, DropsOnlyRacers, Idle
<1> QED
  BY <1>1, <1>2, <1>3 DEF IndInv

\* Every step of a handler, a job, the coalescer or the shutdown keeps the
\* inductive invariant.
LEMMA NextInd == IndInv /\ [Next]_vars => IndInv'
<1> SUFFICES ASSUME IndInv, [Next]_vars PROVE IndInv'
  OBVIOUS
<1>c. run \in Runs /\ run' \in Runs /\ Calls'
  BY NextCalls DEF IndInv, TypeOK
<1>t. TypeOK /\ ClosedMeans /\ DropsOnlyRacers
  BY DEF IndInv
<1> DEFINE Goal == TypeOK' /\ ClosedMeans' /\ DropsOnlyRacers'
<1> SUFFICES Goal
  BY <1>c DEF IndInv
<1> USE RunsAssumption, <1>c, <1>t DEF Batches, None
<1>1. CASE Begin
  <2>1. /\ phase = "serving" /\ runs' = runs + 1 /\ runs < MaxRuns
        /\ UNCHANGED <<service, phase, gaveUp, warned, held, emitting, closed, expired, dropped, racing>>
    BY <1>1 DEF Begin, shutdown, deferral
  <2>2. TypeOK'
    BY <2>1 DEF TypeOK
  <2>3. ClosedMeans' /\ DropsOnlyRacers'
    BY <2>1 DEF ClosedMeans, DropsOnlyRacers, TypeOK
  <2> QED
    BY <2>2, <2>3
<1>2. CASE SubmitBatch
  <2>1. /\ run.at = "submit"
        /\ UNCHANGED <<service, phase, gaveUp, runs, warned, racing>>
    BY <1>2 DEF SubmitBatch, shutdown
  <2>2. CASE run.deferred /\ closed
    <3>1. dropped' = dropped \cup {runs} /\ UNCHANGED <<held, emitting, closed, expired>>
      BY <1>2, <2>2 DEF SubmitBatch
    <3>2. runs \in racing /\ (service = "cron" => gaveUp)
      BY <2>1, <2>2 DEF ClosedMeans
    <3>3. TypeOK'
      BY <2>1, <3>1, <3>2 DEF TypeOK
    <3>4. ClosedMeans' /\ DropsOnlyRacers'
      BY <2>1, <3>1, <3>2 DEF ClosedMeans, DropsOnlyRacers
    <3> QED
      BY <3>3, <3>4
  <2>3. CASE ~(run.deferred /\ closed)
    <3>1. /\ UNCHANGED <<emitting, closed, expired, dropped>>
          /\ UNCHANGED held \/ (~closed /\ held' = [held EXCEPT !["key"] = runs] /\ runs \in Batches)
      <4>1. CASE run.deferred
        <5>1. Coalescer!Offer(runs) /\ UNCHANGED dropped /\ ~closed
          BY <1>2, <2>3, <4>1 DEF SubmitBatch
        <5>2. runs \in Batches
          BY <2>1 DEF ClosedMeans
        <5> QED
          BY <5>1, <5>2 DEF Coalescer!Offer
      <4>2. CASE ~run.deferred
        BY <1>2, <4>2 DEF SubmitBatch
      <4> QED
        BY <4>1, <4>2
    <3>2. TypeOK'
      BY <2>1, <3>1 DEF TypeOK
    <3>3. ClosedMeans' /\ DropsOnlyRacers'
      BY <2>1, <3>1 DEF ClosedMeans, DropsOnlyRacers
    <3> QED
      BY <3>2, <3>3
  <2> QED
    BY <2>2, <2>3
\* The other steps of the handler touch the handler alone.
<1>3. ASSUME Frame, run'.at = "idle" \/ run.at # "idle" PROVE Goal
  <2>1. UNCHANGED <<service, phase, gaveUp, runs, warned, held, emitting, closed, expired,
                    dropped, racing>>
    BY <1>3 DEF Frame, shutdown, deferral
  <2>2. TypeOK'
    BY <2>1 DEF TypeOK
  <2>3. ClosedMeans' /\ DropsOnlyRacers'
    BY <1>3, <2>1 DEF ClosedMeans, DropsOnlyRacers
  <2> QED
    BY <2>2, <2>3
<1>4. CASE \/ StartPublish \/ StartHTTP \/ SkipHTTP \/ Respond \/ Return \/ Panics \/ DeadlinePasses
           \/ Request \/ Succeeds \/ Fails \/ HTTPBackoff
  <2>1. Frame /\ (run.at # "idle")
    BY <1>4 DEF StartPublish, StartHTTP, SkipHTTP, Respond, Return, Panics, DeadlinePasses,
       Request, Succeeds, Fails, HTTPBackoff
  <2> QED
    BY <1>3, <2>1
<1>5. CASE Publisher
  <2>1. Frame /\ (run.at # "idle")
    BY <1>5 DEF Publisher, Cancelled, SendJetStream, SendCore, SendFails, AckOk, AckErr,
       AckTimeout, GiveUp, Retry
  <2> QED
    BY <1>3, <2>1
<1>6. CASE FireDropped
  <2>1. UNCHANGED <<service, phase, gaveUp, runs, run, held, emitting, closed, expired,
                    dropped, racing>> /\ warned' = TRUE
    BY <1>6 DEF FireDropped, shutdown, deferral
  <2>2. TypeOK'
    BY <2>1 DEF TypeOK
  <2> QED
    BY <2>1, <2>2 DEF ClosedMeans, DropsOnlyRacers
<1>7. CASE Emit \/ EmitEnds \/ FlushDeadline \/ FlushDrops
  <2>1. UNCHANGED <<service, phase, gaveUp, runs, run, warned, closed, dropped, racing>>
    BY <1>7 DEF Emit, EmitEnds, FlushDeadline, FlushDrops, shutdown, Coalescer!Emit,
       Coalescer!Finish, Coalescer!Expire, Coalescer!Discard
  <2>2. held' \in [{"key"} -> Batches \cup {None}] /\ emitting' \subseteq Batches /\ expired' \in BOOLEAN
    BY <1>7 DEF Emit, EmitEnds, FlushDeadline, FlushDrops, TypeOK, Coalescer!Emit,
       Coalescer!Finish, Coalescer!Expire, Coalescer!Discard
  <2>3. TypeOK'
    BY <2>1, <2>2 DEF TypeOK
  <2> QED
    BY <2>1, <2>3 DEF ClosedMeans, DropsOnlyRacers
<1>8. CASE CloseBegins \/ ShutdownGivesUp \/ CloseReturns
  <2>1. /\ UNCHANGED <<service, runs, run, warned, held, emitting, closed, expired, dropped, racing>>
        /\ gaveUp' = gaveUp \/ gaveUp' = TRUE
        /\ \/ UNCHANGED phase
           \/ phase = "serving" /\ phase' = "draining"
           \/ phase = "flushing" /\ phase' = "stopped"
    BY <1>8 DEF CloseBegins, ShutdownGivesUp, CloseReturns, deferral
  <2>2. TypeOK'
    BY <2>1 DEF TypeOK
  <2> QED
    BY <2>1, <2>2 DEF ClosedMeans, DropsOnlyRacers
<1>9. CASE StopCoalescer
  <2>1. /\ phase = "draining" /\ phase' = "flushing"
        /\ service = "core" \/ run.at = "idle" \/ gaveUp
        /\ closed' = TRUE /\ ~closed
        /\ racing' = IF run.at = "idle" THEN racing ELSE racing \cup {runs}
        /\ UNCHANGED <<service, gaveUp, runs, run, warned, held, emitting, expired, dropped>>
    BY <1>9 DEF StopCoalescer, Drained, Coalescer!Close
  <2>2. run.at # "idle" => runs \in Batches
    BY DEF ClosedMeans
  <2>3. TypeOK'
    BY <2>1, <2>2 DEF TypeOK
  <2>4. ClosedMeans' /\ DropsOnlyRacers'
    BY <2>1 DEF ClosedMeans, DropsOnlyRacers, TypeOK
  <2> QED
    BY <2>3, <2>4
<1>10. CASE UNCHANGED vars
  BY <1>10 DEF vars, TypeOK, ClosedMeans, DropsOnlyRacers
<1> QED
  <2> HIDE DEF Goal
  <2> QED
    BY <1>1, <1>2, <1>4, <1>5, <1>6, <1>7, <1>8, <1>9, <1>10 DEF Next, Runner

\* The inductive invariant holds of every reachable state.
THEOREM Inductive == Spec => []IndInv
BY InitInd, NextInd, PTL DEF Spec

\* A publish reported as done has been stored, a second copy has a lost ack for
\* its reason, and a requester is answered at most once, whatever the server
\* loses, delays or refuses (publisher.go, responder.go).
THEOREM ReportsAreHonest == Spec => []ReportsHonest
<1>1. IndInv => ReportsHonest
  BY DEF IndInv, Calls
<1> QED
  BY <1>1, Inductive, PTL

\* A batch is refused by the stopped coalescer only if its message was being
\* handled when it stopped, a cron job's only if Shutdown gave up on the job.
THEOREM OnlyRacersDrop == Spec => []DropsOnlyRacers
<1>1. IndInv => DropsOnlyRacers
  BY DEF IndInv
<1> QED
  BY <1>1, Inductive, PTL

-----------------------------------------------------------------------------
\* A step that neither calls nor stores.
Silent == run'.act.calls <= run.act.calls /\ run'.act.stored <= run.act.stored

\* Only three steps send anything, and none of them after the deadline.
LEMMA Senders ==
  ASSUME run \in Runs, run' \in Runs, [Next]_vars
  PROVE  Silent \/ (~run.late /\ (SendJetStream \/ SendCore \/ Request))
<1>a. run.act \in Acts /\ run'.act \in Acts
  BY DEF Runs
<1>f. Fresh.calls = 0 /\ Fresh.stored = 0
  BY DEF Fresh
<1> DEFINE Goal == Silent \/ (~run.late /\ (SendJetStream \/ SendCore \/ Request))
<1> SUFFICES Goal
  OBVIOUS
<1>1. ASSUME run'.act = Fresh PROVE Goal
  BY <1>1, <1>a, <1>f DEF Silent, Acts
<1>2. ASSUME run'.act.calls = run.act.calls, run'.act.stored = run.act.stored PROVE Goal
  BY <1>2, <1>a DEF Silent, Acts
<1>3. CASE Begin \/ StartPublish \/ SkipHTTP \/ Respond \/ Return \/ Panics
  <2>1. CASE Begin
    BY <1>1, <2>1 DEF Begin, Idle
  <2>2. CASE StartPublish \/ SkipHTTP
    BY <1>1, <2>2 DEF StartPublish, SkipHTTP, Runs
  <2>3. CASE Respond
    BY <1>1, <2>3 DEF Respond, Runs
  <2>4. CASE Return \/ Panics
    BY <1>1, <2>4 DEF Return, Panics, Idle
  <2> QED
    BY <1>3, <2>1, <2>2, <2>3, <2>4
<1>4. CASE StartHTTP
  <2>1. run'.act.calls = 0 /\ run'.act.stored = 0
    BY <1>4, <1>f DEF StartHTTP, Runs, Fresh
  <2> QED
    BY <2>1, <1>a DEF Silent, Acts
<1>5. CASE SubmitBatch \/ DeadlinePasses \/ SendFails \/ AckErr \/ AckTimeout \/ Retry
  <2>1. \/ run'.act = run.act
        \/ run'.act = [run.act EXCEPT !.unknown = @ + 1]
        \/ run'.act = [run.act EXCEPT !.attempt = @ + 1]
    BY <1>5 DEF SubmitBatch, DeadlinePasses, SendFails, AckErr, AckTimeout, Retry, Runs
  <2>2. run'.act.calls = run.act.calls /\ run'.act.stored = run.act.stored
    BY <2>1, <1>a DEF Acts
  <2> QED
    BY <1>2, <2>2
<1>6. ASSUME NEW x, Rest(x) PROVE Goal
  <2>1. run'.act.calls = run.act.calls /\ run'.act.stored = run.act.stored
    BY <1>6, <1>a DEF Rest, Runs, Acts
  <2> QED
    BY <1>2, <2>1
<1>7. CASE Cancelled \/ GiveUp \/ AckOk
  BY <1>6, <1>7 DEF Cancelled, GiveUp, AckOk, PublishEnds
<1>8. CASE Succeeds \/ Fails \/ HTTPBackoff
  <2>1. CASE \/ run' = [run EXCEPT !.at = "publish", !.act.attempt = 0]
             \/ run' = [run EXCEPT !.at = "httpBackoff"]
             \/ run' = [run EXCEPT !.at = "request", !.act.attempt = @ + 1]
    <3>1. \/ run'.act = run.act
          \/ run'.act = [run.act EXCEPT !.attempt = 0]
          \/ run'.act = [run.act EXCEPT !.attempt = @ + 1]
      BY <2>1 DEF Runs
    <3>2. run'.act.calls = run.act.calls /\ run'.act.stored = run.act.stored
      BY <3>1, <1>a DEF Acts
    <3> QED
      BY <1>2, <3>2
  <2> QED
    BY <1>6, <1>8, <2>1 DEF Succeeds, Fails, HTTPBackoff
<1>9. CASE SendJetStream \/ SendCore
  BY <1>9 DEF SendJetStream, SendCore, Gate
<1>10. CASE Request
  <2>1. CASE run.late
    <3>1. run'.act = [run.act EXCEPT !.status = "lost"]
      BY <1>10, <2>1 DEF Request, Runs
    <3>2. run'.act.calls = run.act.calls /\ run'.act.stored = run.act.stored
      BY <3>1, <1>a DEF Acts
    <3> QED
      BY <1>2, <3>2
  <2> QED
    BY <1>10, <2>1
<1>11. CASE \/ FireDropped \/ Emit \/ EmitEnds \/ FlushDeadline \/ FlushDrops
            \/ CloseBegins \/ ShutdownGivesUp \/ StopCoalescer \/ CloseReturns
            \/ UNCHANGED vars
  <2>1. UNCHANGED run
    BY <1>11 DEF FireDropped, Emit, EmitEnds, FlushDeadline, FlushDrops, CloseBegins,
       ShutdownGivesUp, StopCoalescer, CloseReturns, vars
  <2> QED
    BY <1>2, <2>1
<1> QED
  <2> HIDE DEF Goal
  <2> QED
    BY <1>3, <1>4, <1>5, <1>7, <1>8, <1>9, <1>10, <1>11 DEF Next, Runner, Publisher

\* An endpoint is called again only after an answer that allows it and within
\* the attempt limit, and nothing is sent after the deadline
\* (httpclient.go, publisher.go).
THEOREM RetriesAreBounded == Spec => RetriesBounded
<1> DEFINE Needed == run'.act.calls > run.act.calls /\ run.act.calls > 0 =>
                       /\ run.act.status \in {"retryable", "lost"}
                       /\ run'.act.calls <= MaxAttempts
           InTime == run.late /\ run'.late /\ run'.at # "idle" =>
                       run'.act.stored <= run.act.stored /\ run'.act.calls <= run.act.calls
<1>1. ASSUME IndInv, IndInv', [Next]_vars PROVE Needed /\ InTime
  <2>1. run \in Runs /\ run' \in Runs /\ run.act \in Acts /\ run'.act \in Acts
    BY <1>1 DEF IndInv, TypeOK, Runs
  <2>2. Silent \/ (~run.late /\ (SendJetStream \/ SendCore \/ Request))
    BY <1>1, <2>1, Senders
  <2>3. InTime
    BY <2>2 DEF Silent
  <2>4. CASE Silent
    BY <2>1, <2>4 DEF Silent, Acts
  <2>5. CASE SendJetStream \/ SendCore
    <3>1. CASE SendJetStream
      <4>1. PICK o \in {<<1, "ok">>, <<1, "none">>, <<0, "err">>, <<0, "none">>} :
              run' = [run EXCEPT !.at = "ackWait", !.act.stored = @ + o[1], !.act.answer = o[2]]
        BY <3>1 DEF SendJetStream
      <4>2. run'.act = [run.act EXCEPT !.stored = @ + o[1], !.answer = o[2]]
        BY <2>1, <4>1 DEF Runs
      <4>3. run'.act.calls = run.act.calls
        BY <2>1, <4>2 DEF Acts
      <4> QED
        BY <2>1, <2>3, <4>3 DEF Acts
    <3>2. CASE SendCore
      <4>1. run'.act = [run.act EXCEPT !.stored = 1, !.result = "ok"]
        BY <2>1, <3>2 DEF SendCore, Runs
      <4>2. run'.act.calls = run.act.calls
        BY <2>1, <4>1 DEF Acts
      <4> QED
        BY <2>1, <2>3, <4>2 DEF Acts
    <3> QED
      BY <2>5, <3>1, <3>2
  <2>6. CASE Request /\ ~run.late
    <3>0. PICK status \in Statuses, got \in {0, 1} :
            run' = [run EXCEPT !.at = "response", !.act.status = status, !.act.calls = @ + got]
      BY <2>6 DEF Request
    <3>a. run'.act = [run.act EXCEPT !.status = status, !.calls = @ + got]
      BY <2>1, <3>0 DEF Runs
    <3>b. run'.act.calls = run.act.calls + got
      BY <2>1, <3>a DEF Acts
    <3>c. run.act.calls \in Nat
      BY <2>1 DEF Acts
    <3>d. run'.act.calls <= run.act.calls + 1
      BY <3>b, <3>c
    <3>1. run.at = "request" /\ run'.act.calls <= run.act.calls + 1
      BY <2>6, <3>d DEF Request
    <3>2. /\ run.act.calls < run.act.attempt /\ run.act.attempt <= MaxAttempts
          /\ run.act.calls > 0 => run.act.status \in {"retryable", "lost"}
      BY <1>1, <3>1 DEF IndInv, Calls, AttemptsCounted
    <3>3. Needed
      BY <2>1, <3>1, <3>2, RetryAssumption DEF Acts
    <3> QED
      BY <2>3, <3>3
  <2> QED
    BY <2>2, <2>4, <2>5, <2>6
<1>2. IndInv /\ IndInv' /\ [Next]_vars => [Needed]_vars /\ [InTime]_vars
  BY <1>1
<1>3. Spec => [][Needed]_vars /\ [][InTime]_vars
  <2> HIDE DEF Needed, InTime
  <2> QED
    BY <1>2, Inductive, PTL DEF Spec
<1> QED
  BY <1>3 DEF RetriesBounded, NoNeedlessCall, NoSendAfterDeadline
=============================================================================
