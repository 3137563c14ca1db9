--------------------- MODULE SubscriptionManagerProofs ----------------------
(***************************************************************************)
(* What an ack and a term say of a message's actions, and what a clean     *)
(* Stop says of its trailing batches, for every set of messages, workers   *)
(* and rules, every redelivery limit and any number of crashes.            *)
(***************************************************************************)
EXTENDS SubscriptionManager, TLAPS

Unthrottled == Immediate \ Leading

\* The server has a delivery left for a message that is due.
DueMeans == \A m \in Msgs : status[m] = "ready" => delivered[m] < MaxDeliver

\* While a delivery's actions run, its flags tell what became of those that
\* are done with.
JobMeans(w) ==
  job[w] # None /\ job[w].stage = "act" =>
    /\ ~job[w].failed => /\ job[w].msg \notin poison
                         /\ \A r \in Unthrottled : r \in job[w].todo \/ <<job[w].msg, r>> \in done
    /\ ~job[w].retryable =>
         \A r \in Unthrottled : r \in job[w].todo \/ <<job[w].msg, r>> \in done \cup hopeless
JobsMean == \A w \in Workers : JobMeans(w)

\* Stop closes the coalescer after the workers have left, so that until its
\* deadline whatever is owed is held.
FlushMeans ==
  /\ closed <=> phase \in {"flushing", "down"}
  /\ closed => \A w \in Workers : job[w] = None
  /\ ~expired => \A b \in owed : \E r \in Trailing : b = held[r]
  /\ CleanStopFlushes

IndInv == TypeOK /\ DueMeans /\ JobsMean /\ SettledHonestly /\ FlushMeans
\* A process that has just started satisfies the invariant.
LEMMA InitInd == Init => IndInv
<1> SUFFICES ASSUME Init PROVE IndInv
  OBVIOUS
<1>1. held = [r \in Trailing |-> None] /\ emitting = {} /\ closed = FALSE /\ expired = FALSE
  BY DEF Init, Coalescer!Init
<1>2. TypeOK
  <2>1. <<>> \in Seq(Copies) /\ Len(<<>>) = 0 /\ 0 <= FetchBatch
    BY BoundAssumption
  <2>2. buffer \in Seq(Copies) /\ Len(buffer) <= FetchBatch
    BY <2>1 DEF Init
  <2>3. /\ delivered \in [Msgs -> 0 .. MaxDeliver] /\ age \in [Msgs -> 0 .. AckWait]
        /\ starts \in 1 .. MaxStarts
    BY BoundAssumption DEF Init
  <2> QED
    BY <1>1, <2>2, <2>3 DEF Init, TypeOK, Statuses
<1>3. DueMeans
  BY BoundAssumption DEF Init, DueMeans
<1>4. JobsMean /\ SettledHonestly /\ FlushMeans
  BY <1>1 DEF Init, JobsMean, JobMeans, SettledHonestly, AckIsEarned, TermIsHopeless, FlushMeans,
     CleanStopFlushes
<1> QED
  BY <1>2, <1>3, <1>4 DEF IndInv

\* What the server makes of an answer, and of a message whose answer is late.
LEMMA AnswerType ==
  ASSUME TypeOK, DueMeans, NEW m \in Msgs, NEW verdict \in {"ack", "nak", "term"}
  PROVE  /\ Answer(m, verdict) \in Statuses /\ Redeliverable(m) \in {"ready", "exhausted"}
         /\ Answer(m, verdict) = "ready" => delivered[m] < MaxDeliver
         /\ Redeliverable(m) = "ready" => delivered[m] < MaxDeliver
         /\ Answer(m, verdict) = "acked" => verdict = "ack" \/ status[m] = "acked"
         /\ Answer(m, verdict) = "termed" => verdict = "term" \/ status[m] = "termed"
<1>1. /\ Redeliverable(m) \in {"ready", "exhausted"}
      /\ Redeliverable(m) = "ready" => delivered[m] < MaxDeliver
  BY DEF Redeliverable
<1>2. status[m] \in Statuses /\ (status[m] = "ready" => delivered[m] < MaxDeliver)
  BY DEF TypeOK, DueMeans
<1>3. \/ Answer(m, verdict) = "acked" /\ verdict = "ack"
      \/ Answer(m, verdict) = "termed" /\ verdict = "term"
      \/ Answer(m, verdict) = Redeliverable(m)
      \/ Answer(m, verdict) = status[m]
  BY DEF Answer
<1> QED
  BY <1>1, <1>2, <1>3 DEF Statuses

\* A job's verdict is one of the three answers.
LEMMA VerdictType ==
  ASSUME NEW j \in Jobs
  PROVE  /\ Verdict(j) \in {"ack", "nak", "term"}
         /\ Verdict(j) = "ack" => ~j.failed
         /\ Verdict(j) = "term" => ~j.retryable
BY DEF Verdict, Jobs

\* Answering for a message, or losing the answer, keeps the server's record
\* in its type.
LEMMA AnswerStep ==
  ASSUME TypeOK, DueMeans, NEW m \in Msgs, NEW verdict \in {"ack", "nak", "term"},
         status' = [status EXCEPT ![m] = Answer(m, verdict)] \/ UNCHANGED status,
         UNCHANGED delivered
  PROVE  /\ status' \in [Msgs -> Statuses] /\ DueMeans'
         /\ \A q \in Msgs \ {m} : status'[q] = status[q]
         /\ status'[m] = "acked" => verdict = "ack" \/ status[m] = "acked"
         /\ status'[m] = "termed" => verdict = "term" \/ status[m] = "termed"
<1>1. status'[m] \in {status[m], Answer(m, verdict)} /\ \A q \in Msgs \ {m} : status'[q] = status[q]
  BY DEF TypeOK
<1>2. status' \in [Msgs -> Statuses]
  BY AnswerType DEF TypeOK
<1>3. DueMeans'
  BY <1>1, AnswerType DEF DueMeans
<1> QED
  BY <1>1, <1>2, <1>3, AnswerType

\* A delivery's record after the steps of its worker.
LEMMA JobType ==
  ASSUME NEW j \in Jobs
  PROVE  /\ \A set \in SUBSET Immediate :
              [j EXCEPT !.stage = "act", !.todo = set, !.left = AckWait] \in Jobs
         /\ [j EXCEPT !.stage = "act", !.failed = TRUE, !.retryable = TRUE] \in Jobs
         /\ \A r \in Immediate, result \in Results : After(j, r, result) \in Jobs
         /\ j.left > 0 => [j EXCEPT !.left = @ - 1] \in Jobs
<1> USE BoundAssumption
<1>1. AckWait \in 0 .. AckWait /\ \A n \in 0 .. AckWait : n > 0 => n - 1 \in 0 .. AckWait
  OBVIOUS
<1>2. ASSUME NEW set \in SUBSET Immediate
      PROVE  [j EXCEPT !.stage = "act", !.todo = set, !.left = AckWait] \in Jobs
  BY <1>1 DEF Jobs
<1>3. [j EXCEPT !.stage = "act", !.failed = TRUE, !.retryable = TRUE] \in Jobs
  BY DEF Jobs
<1>4. ASSUME NEW r \in Immediate, NEW result \in Results PROVE After(j, r, result) \in Jobs
  <2>1. (j.failed \/ result # "ok") \in BOOLEAN /\ (j.retryable \/ result = "retryable") \in BOOLEAN
    OBVIOUS
  <2>2. j.todo \ {r} \in SUBSET Immediate
    BY DEF Jobs
  <2> QED
    BY <2>1, <2>2 DEF After, Jobs
<1>5. j.left > 0 => [j EXCEPT !.left = @ - 1] \in Jobs
  BY <1>1 DEF Jobs
<1> QED
  BY <1>2, <1>3, <1>4, <1>5

\* Every step keeps the variables in their types and the deliveries counted.
LEMMA NextType == TypeOK /\ DueMeans /\ [Next]_vars => TypeOK' /\ DueMeans'
<1> SUFFICES ASSUME TypeOK, DueMeans, [Next]_vars PROVE TypeOK' /\ DueMeans'
  OBVIOUS
<1> DEFINE Goal == TypeOK' /\ DueMeans'
<1> SUFFICES Goal
  OBVIOUS
<1> USE BoundAssumption DEF Goal
<1>1. ASSUME NEW m \in Msgs, Deliver(m) PROVE Goal
  <2> DEFINE c == [msg |-> m, n |-> delivered[m] + 1]
  <2>1. /\ status[m] = "ready" /\ Len(buffer) < FetchBatch
        /\ status' = [status EXCEPT ![m] = "pending"]
        /\ delivered' = [delivered EXCEPT ![m] = delivered[m] + 1]
        /\ age' = [age EXCEPT ![m] = 0]
        /\ buffer' = Append(buffer, c)
    BY <1>1 DEF Deliver
  <2>2. delivered[m] + 1 \in 1 .. MaxDeliver /\ delivered[m] + 1 \in 0 .. MaxDeliver
    BY <2>1 DEF DueMeans, TypeOK
  <2>3. c \in Copies
    BY <2>2 DEF Copies
  <2> HIDE DEF c
  <2>4. buffer \in Seq(Copies) /\ Len(buffer) \in Nat
    BY DEF TypeOK
  <2>5. Append(buffer, c) \in Seq(Copies) /\ Len(Append(buffer, c)) = Len(buffer) + 1
    BY <2>3, <2>4
  <2>6. buffer' \in Seq(Copies) /\ Len(buffer') <= FetchBatch
    BY <2>1, <2>4, <2>5
  <2>7. /\ status' \in [Msgs -> Statuses]
        /\ delivered' \in [Msgs -> 0 .. MaxDeliver]
        /\ age' \in [Msgs -> 0 .. AckWait]
    BY <2>1, <2>2 DEF TypeOK, Statuses
  <2>8. DueMeans'
    BY <2>1 DEF DueMeans, TypeOK
  <2> QED
    BY <1>1, <2>6, <2>7, <2>8 DEF Deliver, TypeOK, coalescer, process, history
<1>2. ASSUME NEW m \in Msgs, AckWaitExpires(m) PROVE Goal
  <2>1. status' = [status EXCEPT ![m] = Redeliverable(m)] /\ UNCHANGED delivered
    BY <1>2 DEF AckWaitExpires
  <2>2. Redeliverable(m) \in Statuses /\ (Redeliverable(m) = "ready" => delivered[m] < MaxDeliver)
    BY DEF Redeliverable, Statuses
  <2>3. status' \in [Msgs -> Statuses]
    BY <2>1, <2>2 DEF TypeOK
  <2>4. DueMeans'
    BY <2>1, <2>2 DEF TypeOK, DueMeans
  <2> QED
    BY <1>2, <2>3, <2>4 DEF AckWaitExpires, TypeOK, coalescer, process, history
<1>3. CASE Tick
  <2>1. age' \in [Msgs -> 0 .. AckWait]
    BY <1>3 DEF Tick, TypeOK
  <2>2. \A w \in Workers : job'[w] \in Jobs \cup {None}
    <3> SUFFICES ASSUME NEW w \in Workers PROVE job'[w] \in Jobs \cup {None}
      OBVIOUS
    <3>1. job[w] \in Jobs \cup {None}
      BY DEF TypeOK
    <3>2. \/ job'[w] = job[w]
          \/ job[w] # None /\ job[w].left > 0 /\ job'[w] = [job[w] EXCEPT !.left = @ - 1]
      BY <1>3 DEF Tick
    <3> QED
      BY <3>1, <3>2, JobType
  <2>3. job' \in [Workers -> Jobs \cup {None}]
    BY <1>3, <2>2 DEF Tick
  <2> QED
    BY <1>3, <2>1, <2>3 DEF Tick, TypeOK, DueMeans, coalescer, process, history
<1>4. ASSUME NEW r \in Leading, ThrottleWindowEnds(r) PROVE Goal
  BY <1>4 DEF ThrottleWindowEnds, TypeOK, DueMeans, server, coalescer, process, history
<1>5. ASSUME NEW w \in Workers, Take(w) PROVE Goal
  <2> DEFINE j == [msg |-> Head(buffer).msg, n |-> Head(buffer).n, stage |-> "evaluate",
                   todo |-> {}, failed |-> FALSE, retryable |-> FALSE, left |-> AckWait]
  <2>1. job' = [job EXCEPT ![w] = j] /\ buffer # <<>> /\ buffer' = Tail(buffer)
    BY <1>5 DEF Take
  <2>2. Head(buffer) \in Copies /\ buffer' \in Seq(Copies) /\ Len(buffer') <= FetchBatch
    <3>1. buffer \in Seq(Copies) /\ Len(buffer) \in Nat /\ Len(buffer) <= FetchBatch
      BY DEF TypeOK
    <3>2. Head(buffer) \in Copies /\ Tail(buffer) \in Seq(Copies) /\ Len(Tail(buffer)) = Len(buffer) - 1
      BY <2>1, <3>1
    <3> QED
      BY <2>1, <3>1, <3>2
  <2>3. Head(buffer).msg \in Msgs /\ Head(buffer).n \in 1 .. MaxDeliver
    BY <2>2 DEF Copies
  <2>4. AckWait \in 0 .. AckWait
    OBVIOUS
  <2>5. j \in Jobs
    BY <2>3, <2>4 DEF Jobs
  <2> HIDE DEF j
  <2>6. job' \in [Workers -> Jobs \cup {None}]
    BY <2>1, <2>5 DEF TypeOK
  <2> QED
    BY <1>5, <2>2, <2>6 DEF Take, TypeOK, DueMeans, server, coalescer, process, history
<1>6. ASSUME NEW w \in Workers, Evaluate(w) PROVE Goal
  <2> DEFINE j == [job[w] EXCEPT !.stage = "act", !.todo = Immediate \ throttled, !.left = AckWait]
  <2>1. job[w] # None /\ job' = [job EXCEPT ![w] = j]
    BY <1>6 DEF Evaluate, TypeOK
  <2>2. job[w] \in Jobs /\ Immediate \ throttled \in SUBSET Immediate
    BY <2>1 DEF TypeOK
  <2>3. j \in Jobs
    BY <2>2, JobType
  <2> HIDE DEF j
  <2>4. job' \in [Workers -> Jobs \cup {None}]
    BY <2>1, <2>3 DEF TypeOK
  <2>5. \A r \in Trailing : BatchOf(w, r) \in Batches
    BY <2>2 DEF BatchOf, Batches, Jobs
  <2>6. held' \in [Trailing -> Batches \cup {None}] /\ owed' \in SUBSET Batches
    BY <1>6, <2>5 DEF Evaluate, Submit, TypeOK
  <2>7. throttled' \in SUBSET Leading
    BY <1>6 DEF Evaluate
  <2> QED
    BY <1>6, <2>4, <2>6, <2>7 DEF Evaluate, Submit, TypeOK, DueMeans, server, process
<1>7. ASSUME NEW w \in Workers, EvaluateFails(w) PROVE Goal
  <2> DEFINE j == [job[w] EXCEPT !.stage = "act", !.failed = TRUE, !.retryable = TRUE]
  <2>1. job[w] # None /\ job' = [job EXCEPT ![w] = j]
    BY <1>7 DEF EvaluateFails, TypeOK
  <2>2. job[w] \in Jobs
    BY <2>1 DEF TypeOK
  <2>3. j \in Jobs
    BY <2>2, JobType
  <2> HIDE DEF j
  <2>4. job' \in [Workers -> Jobs \cup {None}]
    BY <2>1, <2>3 DEF TypeOK
  <2> QED
    BY <1>7, <2>4 DEF EvaluateFails, TypeOK, DueMeans, server, coalescer, process, history
<1>8. ASSUME NEW w \in Workers, NEW r \in Immediate, NEW result \in Results, RunAction(w, r, result)
      PROVE  Goal
  <2>1. job[w] # None /\ job' = [job EXCEPT ![w] = After(job[w], r, result)]
    BY <1>8 DEF RunAction, TypeOK
  <2>2. job[w] \in Jobs
    BY <2>1 DEF TypeOK
  <2>3. After(job[w], r, result) \in Jobs
    BY <2>2, JobType
  <2>4. job' \in [Workers -> Jobs \cup {None}]
    BY <2>1, <2>3 DEF TypeOK
  <2>5. <<job[w].msg, r>> \in Msgs \X Rules
    BY <2>2 DEF Jobs, Immediate
  <2>6. done' \in SUBSET (Msgs \X Rules) /\ hopeless' \in SUBSET (Msgs \X Rules)
    BY <1>8, <2>5 DEF RunAction, TypeOK
  <2> QED
    BY <1>8, <2>4, <2>6 DEF RunAction, TypeOK, DueMeans, server, coalescer, process
<1>9. ASSUME NEW w \in Workers, Settle(w) \/ Panics(w) PROVE Goal
  <2>1. job[w] \in Jobs /\ job[w].msg \in Msgs
    BY <1>9 DEF Settle, Panics, TypeOK, Jobs
  <2>2. PICK verdict \in {"ack", "nak", "term"} :
          status' = [status EXCEPT ![job[w].msg] = Answer(job[w].msg, verdict)] \/ UNCHANGED status
    BY <1>9, <2>1, VerdictType DEF Settle, Panics
  <2>3. UNCHANGED delivered
    BY <1>9 DEF Settle, Panics
  <2>4. status' \in [Msgs -> Statuses] /\ DueMeans'
    BY <2>1, <2>2, <2>3, AnswerStep
  <2>5. job' \in [Workers -> Jobs \cup {None}] /\ panicked' \in SUBSET Msgs
    BY <1>9, <2>1 DEF Settle, Panics, TypeOK, history
  <2> QED
    BY <1>9, <2>4, <2>5 DEF Settle, Panics, TypeOK, coalescer, process, history
<1>10. ASSUME NEW r \in Trailing, Emit(r) \/ FlushDrops(r) PROVE Goal
  <2>1. /\ held' \in [Trailing -> Batches \cup {None}] /\ emitting' \in SUBSET Batches
        /\ owed' \in SUBSET Batches
        /\ UNCHANGED <<closed, expired>>
    BY <1>10 DEF Emit, FlushDrops, Coalescer!Emit, Coalescer!Discard, TypeOK, history
  <2> QED
    BY <1>10, <2>1 DEF Emit, FlushDrops, TypeOK, DueMeans, server, process, history
<1>11. ASSUME NEW b \in Batches, EmitEnds(b) PROVE Goal
  BY <1>11 DEF EmitEnds, Coalescer!Finish, TypeOK, DueMeans, server, process, history
<1>12. CASE StopIterators
  <2>1. buffer' \in Seq(Copies) /\ Len(buffer') <= FetchBatch
    <3>1. <<>> \in Seq(Copies) /\ Len(<<>>) = 0 /\ 0 <= FetchBatch
      OBVIOUS
    <3> QED
      BY <1>12, <3>1 DEF StopIterators
  <2> QED
    BY <1>12, <2>1 DEF StopIterators, TypeOK, DueMeans, server, coalescer, history
<1>13. CASE Flush \/ FlushDeadline \/ StopReturns
  BY <1>13 DEF Flush, FlushDeadline, StopReturns, Coalescer!Close, Coalescer!Expire, TypeOK, DueMeans,
     server, coalescer, process, history
<1>14. CASE Boot
  <2>1. buffer' \in Seq(Copies) /\ Len(buffer') <= FetchBatch
    <3>1. <<>> \in Seq(Copies) /\ Len(<<>>) = 0 /\ 0 <= FetchBatch
      OBVIOUS
    <3> QED
      BY <1>14, <3>1 DEF Boot
  <2>2. starts' \in 1 .. MaxStarts
    BY <1>14 DEF Boot, TypeOK
  <2> QED
    BY <1>14, <2>1, <2>2 DEF Boot, TypeOK, DueMeans, server
<1>15. CASE UNCHANGED vars
  BY <1>15 DEF vars, TypeOK, DueMeans
<1> QED
  <2> HIDE DEF Goal
  <2> QED
    BY <1>1, <1>2, <1>3, <1>4, <1>5, <1>6, <1>7, <1>8, <1>9, <1>10, <1>11, <1>12, <1>13, <1>14, <1>15
       DEF Next, WorkerStep, StopStep, CrashAndRestart, Restart

\* A step of one worker, with its action's outcome recorded, keeps what the
\* jobs mean if it keeps what that worker's job means.
LEMMA OneJob ==
  ASSUME JobsMean, NEW w \in Workers, JobMeans(w)',
         \A v \in Workers \ {w} : job'[v] = job[v],
         poison' = poison, done \subseteq done', hopeless \subseteq hopeless'
  PROVE  JobsMean'
<1> SUFFICES ASSUME NEW v \in Workers \ {w} PROVE JobMeans(v)'
  BY DEF JobsMean
<1>1. JobMeans(v) /\ job'[v] = job[v]
  BY DEF JobsMean
<1> QED
  BY <1>1 DEF JobMeans

\* A step that takes no success or failure back keeps every settled message
\* honest if the messages it settles are.
LEMMA SettlesOne ==
  ASSUME SettledHonestly, NEW m \in Msgs,
         \A q \in Msgs \ {m} : status'[q] = status[q],
         poison' = poison, done \subseteq done', hopeless \subseteq hopeless', panicked \subseteq panicked',
         status'[m] = "acked" => \/ status[m] = "acked"
                                 \/ /\ m \notin poison
                                    /\ \A r \in Unthrottled : <<m, r>> \in done,
         status'[m] = "termed" => \/ status[m] = "termed"
                                  \/ m \in panicked'
                                  \/ \A r \in Unthrottled : <<m, r>> \in done \cup hopeless
  PROVE  SettledHonestly'
<1>1. AckIsEarned'
  BY DEF SettledHonestly, AckIsEarned, Unthrottled
<1>2. TermIsHopeless'
  BY DEF SettledHonestly, TermIsHopeless, Unthrottled
<1> QED
  BY <1>1, <1>2 DEF SettledHonestly

\* Every step of the server, a worker, the coalescer, Stop or a restart keeps
\* the inductive invariant.
LEMMA NextInd == IndInv /\ [Next]_vars => IndInv'
<1> SUFFICES ASSUME IndInv, [Next]_vars PROVE IndInv'
  OBVIOUS
<1> DEFINE Goal == JobsMean' /\ SettledHonestly' /\ FlushMeans'
<1>0. /\ TypeOK /\ DueMeans /\ JobsMean /\ SettledHonestly /\ FlushMeans
      /\ TypeOK' /\ DueMeans'
  BY NextType DEF IndInv
<1> SUFFICES Goal
  BY <1>0 DEF IndInv
<1> USE <1>0
\* What each part of the state protects.
<1>j. ASSUME UNCHANGED <<job, poison>>, done' = done, hopeless' = hopeless PROVE JobsMean'
  BY <1>j DEF JobsMean, JobMeans
<1>s. ASSUME UNCHANGED <<status, poison>>, done \subseteq done', hopeless \subseteq hopeless',
             panicked \subseteq panicked'
      PROVE  SettledHonestly'
  BY <1>s DEF SettledHonestly, AckIsEarned, TermIsHopeless
<1>f. ASSUME UNCHANGED <<held, closed, expired, phase, owed>>,
             closed => \A w \in Workers : job'[w] = None
      PROVE  FlushMeans'
  BY <1>f DEF FlushMeans, CleanStopFlushes
<1>1. ASSUME NEW m \in Msgs, Deliver(m) \/ AckWaitExpires(m) PROVE Goal
  <2>1. /\ UNCHANGED <<poison, job, held, closed, expired, phase, owed, done, hopeless, panicked>>
        /\ status' = [status EXCEPT ![m] = "pending"] \/ status' = [status EXCEPT ![m] = Redeliverable(m)]
    BY <1>1 DEF Deliver, AckWaitExpires, coalescer, process, history
  <2>2. /\ \A q \in Msgs \ {m} : status'[q] = status[q]
        /\ status'[m] \notin {"acked", "termed"}
    BY <2>1 DEF TypeOK, Redeliverable
  <2>3. SettledHonestly'
    BY <2>1, <2>2, SettlesOne
  <2>4. FlushMeans'
    BY <1>f, <2>1 DEF FlushMeans
  <2> QED
    BY <1>j, <2>1, <2>3, <2>4
<1>2. CASE Tick
  <2>1. UNCHANGED <<poison, status, held, closed, expired, phase, owed, done, hopeless, panicked>>
    BY <1>2 DEF Tick, coalescer, process, history
  <2>2. ASSUME NEW w \in Workers
        PROVE  \/ job'[w] = job[w]
               \/ job[w] \in Jobs /\ job[w] # None /\ job'[w] = [job[w] EXCEPT !.left = @ - 1]
    BY <1>2 DEF Tick, TypeOK
  <2>3. JobsMean'
    <3> SUFFICES ASSUME NEW w \in Workers PROVE JobMeans(w)'
      BY DEF JobsMean
    <3>1. JobMeans(w)
      BY DEF JobsMean
    <3>2. CASE job'[w] = job[w]
      BY <2>1, <3>1, <3>2 DEF JobMeans
    <3>3. CASE job[w] \in Jobs /\ job[w] # None /\ job'[w] = [job[w] EXCEPT !.left = @ - 1]
      <4>1. /\ job'[w].stage = job[w].stage /\ job'[w].todo = job[w].todo
            /\ job'[w].failed = job[w].failed /\ job'[w].retryable = job[w].retryable
            /\ job'[w].msg = job[w].msg
        BY <3>3 DEF Jobs
      <4> QED
        BY <2>1, <3>1, <3>3, <4>1 DEF JobMeans
    <3> QED
      BY <2>2, <3>2, <3>3
  <2>4. FlushMeans'
    <3>1. ASSUME closed PROVE \A w \in Workers : job'[w] = None
      BY <2>2, <3>1 DEF FlushMeans
    <3> QED
      BY <1>f, <2>1, <3>1
  <2> QED
    BY <1>s, <2>1, <2>3, <2>4
<1>3. ASSUME NEW r \in Leading, ThrottleWindowEnds(r) PROVE Goal
  <2>1. UNCHANGED <<poison, status, job, held, closed, expired, phase, owed, done, hopeless, panicked>>
    BY <1>3 DEF ThrottleWindowEnds, server, coalescer, process, history
  <2> QED
    BY <1>j, <1>s, <1>f, <2>1 DEF FlushMeans
<1>4. ASSUME NEW w \in Workers, Take(w) PROVE Goal
  <2>1. /\ UNCHANGED <<poison, status, held, closed, expired, phase, owed, done, hopeless, panicked>>
        /\ \A v \in Workers \ {w} : job'[v] = job[v]
        /\ job'[w].stage = "evaluate"
        /\ phase = "up"
    BY <1>4 DEF Take, server, coalescer, process, history, TypeOK
  <2>2. JobMeans(w)'
    BY <2>1 DEF JobMeans
  <2>3. JobsMean'
    BY <2>1, <2>2, OneJob
  <2>4. FlushMeans'
    BY <1>f, <2>1 DEF FlushMeans
  <2> QED
    BY <1>s, <2>1, <2>3, <2>4
<1>5. ASSUME NEW w \in Workers, Evaluate(w) PROVE Goal
  <2> DEFINE j == [job[w] EXCEPT !.stage = "act", !.todo = Immediate \ throttled, !.left = AckWait]
  <2>1. /\ job[w] # None /\ job[w].msg \notin poison
        /\ job'[w] = j /\ \A v \in Workers \ {w} : job'[v] = job[v]
        /\ UNCHANGED <<poison, status, closed, expired, phase, done, hopeless, panicked>>
        /\ Submit(w)
    BY <1>5 DEF Evaluate, Submit, server, process, TypeOK
  <2>2. job[w] \in Jobs
    BY <2>1 DEF TypeOK
  <2>3. j.msg = job[w].msg /\ j.todo = Immediate \ throttled
    BY <2>2 DEF Jobs
  <2> HIDE DEF j
  <2>4. JobMeans(w)'
    BY <2>1, <2>3 DEF JobMeans, Unthrottled, TypeOK
  <2>5. JobsMean'
    BY <2>1, <2>4, OneJob
  <2>6. ~closed
    BY <2>1 DEF FlushMeans
  <2>7. held' = [r \in Trailing |-> BatchOf(w, r)]
    BY <2>1, <2>6 DEF Submit
  <2>8. ~expired => \A b \in owed' : \E r \in Trailing : b = held'[r]
    <3> SUFFICES ASSUME ~expired, NEW b \in owed' PROVE \E r \in Trailing : b = held'[r]
      OBVIOUS
    <3>1. CASE \E r \in Trailing : b = BatchOf(w, r)
      BY <2>7, <3>1
    <3>2. CASE b \in owed /\ b \notin {held[r] : r \in Trailing}
      BY <3>2 DEF FlushMeans
    <3> QED
      BY <2>1, <3>1, <3>2 DEF Submit
  <2>9. FlushMeans'
    BY <2>1, <2>6, <2>8 DEF FlushMeans, CleanStopFlushes
  <2> QED
    BY <1>s, <2>1, <2>5, <2>9
<1>6. ASSUME NEW w \in Workers, EvaluateFails(w) PROVE Goal
  <2> DEFINE j == [job[w] EXCEPT !.stage = "act", !.failed = TRUE, !.retryable = TRUE]
  <2>1. /\ job[w] # None
        /\ job'[w] = j /\ \A v \in Workers \ {w} : job'[v] = job[v]
        /\ UNCHANGED <<poison, status, held, owed, closed, expired, phase, done, hopeless, panicked>>
    BY <1>6 DEF EvaluateFails, server, coalescer, history, process, TypeOK
  <2>2. job[w] \in Jobs
    BY <2>1 DEF TypeOK
  <2>3. j.failed /\ j.retryable
    BY <2>2 DEF Jobs
  <2> HIDE DEF j
  <2>4. JobsMean'
    BY <2>1, <2>3, OneJob DEF JobMeans
  <2>5. FlushMeans'
    BY <1>f, <2>1 DEF FlushMeans
  <2> QED
    BY <1>s, <2>1, <2>4, <2>5
<1>7. ASSUME NEW w \in Workers, NEW r \in Immediate, NEW result \in Results, RunAction(w, r, result)
      PROVE  Goal
  <2> DEFINE j == After(job[w], r, result)
  <2>1. /\ job[w] # None /\ job[w].stage = "act"
        /\ job'[w] = j /\ \A v \in Workers \ {w} : job'[v] = job[v]
        /\ UNCHANGED <<poison, status, held, owed, closed, expired, phase, panicked>>
        /\ done \subseteq done' /\ hopeless \subseteq hopeless'
        /\ result = "ok" => <<job[w].msg, r>> \in done'
        /\ result = "permanent" => <<job[w].msg, r>> \in hopeless'
    BY <1>7 DEF RunAction, server, coalescer, history, process, TypeOK
  <2>2. job[w] \in Jobs
    BY <2>1 DEF TypeOK
  <2>3. /\ j.msg = job[w].msg /\ j.stage = job[w].stage /\ j.todo = job[w].todo \ {r}
        /\ j.failed = (job[w].failed \/ result # "ok")
        /\ j.retryable = (job[w].retryable \/ result = "retryable")
    BY <2>2 DEF Jobs, After
  <2> HIDE DEF j
  <2>4. JobMeans(w)
    BY DEF JobsMean
  <2>5. ASSUME ~j.failed
        PROVE  /\ j.msg \notin poison'
               /\ \A q \in Unthrottled : q \in j.todo \/ <<j.msg, q>> \in done'
    <3>1. ~job[w].failed /\ result = "ok"
      BY <2>3, <2>5
    <3> QED
      BY <2>1, <2>3, <2>4, <3>1 DEF JobMeans
  <2>6. ASSUME ~j.retryable
        PROVE  \A q \in Unthrottled : q \in j.todo \/ <<j.msg, q>> \in done' \cup hopeless'
    <3>1. ~job[w].retryable /\ result # "retryable"
      BY <2>3, <2>6
    <3>2. result \in {"ok", "permanent"}
      BY <3>1 DEF Results
    <3> QED
      BY <2>1, <2>3, <2>4, <3>1, <3>2 DEF JobMeans
  <2>7. JobMeans(w)'
    BY <2>1, <2>5, <2>6 DEF JobMeans
  <2>8. JobsMean'
    BY <2>1, <2>7, OneJob
  <2>9. FlushMeans'
    BY <1>f, <2>1 DEF FlushMeans
  <2> QED
    BY <1>s, <2>1, <2>8, <2>9
<1>8. ASSUME NEW w \in Workers, Settle(w) \/ Panics(w) PROVE Goal
  <2> DEFINE m == job[w].msg
  <2>1. /\ job[w] # None
        /\ job'[w] = None /\ \A v \in Workers \ {w} : job'[v] = job[v]
        /\ UNCHANGED <<poison, delivered, held, owed, closed, expired, phase, done, hopeless>>
        /\ panicked \subseteq panicked'
    BY <1>8 DEF Settle, Panics, coalescer, history, process, TypeOK
  <2>2. job[w] \in Jobs /\ m \in Msgs
    BY <2>1 DEF TypeOK, Jobs
  <2>3. JobsMean'
    BY <2>1, OneJob DEF JobMeans
  <2>4. FlushMeans'
    BY <1>f, <2>1 DEF FlushMeans
  <2>5. PICK verdict \in {"ack", "nak", "term"} :
          /\ status' = [status EXCEPT ![m] = Answer(m, verdict)] \/ UNCHANGED status
          /\ verdict = "ack" => job[w].stage = "act" /\ job[w].todo = {} /\ ~job[w].failed
          /\ verdict = "term" => \/ m \in panicked'
                                 \/ job[w].stage = "act" /\ job[w].todo = {} /\ ~job[w].retryable
    <3>1. CASE Settle(w)
      <4>1. Verdict(job[w]) \in {"ack", "nak", "term"}
        BY <2>2, VerdictType
      <4> QED
        BY <2>2, <3>1, <4>1, VerdictType DEF Settle
    <3>2. CASE Panics(w)
      BY <3>2 DEF Panics
    <3> QED
      BY <1>8, <3>1, <3>2
  <2>6. /\ \A q \in Msgs \ {m} : status'[q] = status[q]
        /\ status'[m] = "acked" => verdict = "ack" \/ status[m] = "acked"
        /\ status'[m] = "termed" => verdict = "term" \/ status[m] = "termed"
    BY <2>1, <2>2, <2>5, AnswerStep
  <2>7. JobMeans(w)
    BY DEF JobsMean
  <2>8. verdict = "ack" => m \notin poison /\ \A r \in Unthrottled : <<m, r>> \in done
    BY <2>1, <2>5, <2>7 DEF JobMeans
  <2>9. verdict = "term" => m \in panicked' \/ \A r \in Unthrottled : <<m, r>> \in done \cup hopeless
    BY <2>1, <2>5, <2>7 DEF JobMeans
  <2> HIDE DEF m
  <2>10. SettledHonestly'
    BY <2>1, <2>2, <2>6, <2>8, <2>9, SettlesOne
  <2> QED
    BY <2>3, <2>4, <2>10
<1>9. ASSUME NEW k \in Trailing, Emit(k) PROVE Goal
  <2>1. /\ UNCHANGED <<poison, status, job, closed, expired, phase, done, hopeless, panicked>>
        /\ held' = [held EXCEPT ![k] = None] /\ owed' = owed \ {held[k]}
    BY <1>9 DEF Emit, Coalescer!Emit, server, process
  <2>2. ~expired => \A b \in owed' : \E r \in Trailing : b = held'[r]
    <3> SUFFICES ASSUME ~expired, NEW b \in owed' PROVE \E r \in Trailing : b = held'[r]
      OBVIOUS
    <3>1. PICK r \in Trailing : b = held[r]
      BY <2>1 DEF FlushMeans
    <3>2. r # k
      BY <2>1, <3>1
    <3> QED
      BY <2>1, <3>1, <3>2 DEF TypeOK
  <2>3. FlushMeans'
    BY <2>1, <2>2 DEF FlushMeans, CleanStopFlushes
  <2> QED
    BY <1>j, <1>s, <2>1, <2>3
<1>10. ASSUME NEW b \in Batches, EmitEnds(b) PROVE Goal
  <2>1. UNCHANGED <<poison, status, job, held, closed, expired, phase, owed, done, hopeless, panicked>>
    BY <1>10 DEF EmitEnds, Coalescer!Finish, server, process, history
  <2> QED
    BY <1>j, <1>s, <1>f, <2>1 DEF FlushMeans
<1>11. CASE StopIterators \/ Flush \/ FlushDeadline
  <2>1. /\ UNCHANGED <<poison, status, job, held, owed, done, hopeless, panicked>>
        /\ \/ phase = "up" /\ phase' = "draining" /\ UNCHANGED <<closed, expired>>
           \/ /\ phase = "draining" /\ phase' = "flushing" /\ closed' /\ UNCHANGED expired
              /\ \A w \in Workers : job[w] = None
           \/ phase = "flushing" /\ expired' /\ UNCHANGED <<phase, closed>>
    BY <1>11 DEF StopIterators, Flush, FlushDeadline, Coalescer!Close, Coalescer!Expire, server,
       coalescer, process, history
  <2>2. FlushMeans'
    BY <2>1 DEF FlushMeans, CleanStopFlushes
  <2> QED
    BY <1>j, <1>s, <2>1, <2>2
<1>12. ASSUME NEW r \in Trailing, FlushDrops(r) PROVE Goal
  <2>1. /\ UNCHANGED <<poison, status, job, closed, phase, owed, done, hopeless, panicked>>
        /\ expired /\ expired'
    BY <1>12 DEF FlushDrops, Coalescer!Discard, server, process, history
  <2>2. FlushMeans'
    BY <2>1 DEF FlushMeans, CleanStopFlushes
  <2> QED
    BY <1>j, <1>s, <2>1, <2>2
<1>13. CASE StopReturns
  <2>1. /\ UNCHANGED <<poison, status, job, held, closed, expired, owed, done, hopeless, panicked>>
        /\ phase = "flushing" /\ phase' = "down"
        /\ \A r \in Trailing : held[r] = None
    BY <1>13 DEF StopReturns, server, coalescer, history
  <2>2. ~expired => owed = {}
    BY <2>1, NoneAssumption DEF FlushMeans, TypeOK
  <2>3. FlushMeans'
    BY <2>1, <2>2 DEF FlushMeans, CleanStopFlushes
  <2> QED
    BY <1>j, <1>s, <2>1, <2>3
<1>14. CASE Boot
  <2>1. /\ UNCHANGED <<poison, status, done, hopeless, panicked>>
        /\ phase' = "up" /\ closed' = FALSE /\ owed' = {}
        /\ job' = [w \in Workers |-> None]
    BY <1>14 DEF Boot, server
  <2>2. JobsMean' /\ FlushMeans'
    BY <2>1 DEF JobsMean, JobMeans, FlushMeans, CleanStopFlushes
  <2> QED
    BY <1>s, <2>1, <2>2
<1>15. CASE UNCHANGED vars
  BY <1>15, <1>j, <1>s, <1>f DEF vars, FlushMeans
<1> QED
  <2> HIDE DEF Goal
  <2> QED
    BY <1>1, <1>2, <1>3, <1>4, <1>5, <1>6, <1>7, <1>8, <1>9, <1>10, <1>11, <1>12, <1>13, <1>14, <1>15
       DEF Next, WorkerStep, StopStep, CrashAndRestart, Restart

\* The inductive invariant holds of every reachable state.
THEOREM Inductive == Spec => []IndInv
BY InitInd, NextInd, PTL DEF Spec

\* What the server is told of a message is true: an ack was earned by every
\* unthrottled action, and a term, a panic apart, means that no redelivery
\* would help, across crashes, lost answers and concurrent redeliveries.
THEOREM SettlesHonestly == Spec => []SettledHonestly
<1>1. IndInv => SettledHonestly
  BY DEF IndInv
<1> QED
  BY <1>1, Inductive, PTL

\* A Stop whose flush meets its deadline owes no trailing batch.
THEOREM CleanStopOwesNothing == Spec => []CleanStopFlushes
<1>1. IndInv => CleanStopFlushes
  BY DEF IndInv, FlushMeans
<1> QED
  BY <1>1, Inductive, PTL
=============================================================================
