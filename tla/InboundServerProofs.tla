------------------------ MODULE InboundServerProofs -------------------------
(***************************************************************************)
(* The webhook server's promises across shutdown, for every number of      *)
(* requests and workers and every queue size.                              *)
(***************************************************************************)
EXTENDS InboundServer, TLAPS

InQueue(r) == \E i \in DOMAIN queue : queue[i] = r

\* The queue holds the requests that wait in it, each of them once.
QueueMatches ==
  /\ \A r \in Requests : stage[r] = "queued" <=> InQueue(r)
  /\ \A i, j \in DOMAIN queue : queue[i] = queue[j] => i = j

\* What a request's stage says of its answers.
StageOK(r) ==
  /\ stage[r] \in {"new", "reading", "gate", "route", "enqueue", "crashed"} => answers[r] = <<>>
  /\ stage[r] \in {"enqueue", "queued"} => routed[r] = "plain"
  /\ stage[r] \in {"evaluate", "submit"} /\ routed[r] = "sync" => answers[r] = <<>>
  /\ stage[r] \in {"evaluate", "submit", "act"} /\ routed[r] # "sync" => Len(answers[r]) = 1
  /\ Len(answers[r]) <= 1
  /\ stage[r] \in {"queued", "finished"} => Len(answers[r]) = 1
StageMeans == \A r \in Requests : StageOK(r)

\* A queued request that has been taken has a worker until it is done.
Taken(r) == stage[r] \in {"evaluate", "submit", "act"} /\ routed[r] # "sync"
WorkerHolds == \A r \in Requests : Taken(r) => \E w \in Workers : worker[w] = r

\* How far Stop has come says what may still be running, unless its grace
\* period is over.
StopMeans ==
  /\ closed <=> stop \in {"flushing", "stopped"}
  /\ stop = "stopped" => held["window"] = None
  /\ (\E w \in Workers : worker[w] = Exited) => QueueClosed /\ queue = <<>>
  /\ QueueClosed /\ ~expired => Handling = {}
  /\ stop \in {"flushing", "stopped"} /\ ~expired => WorkersDone

Rest == QueueMatches /\ StageMeans /\ WorkerHolds /\ StopMeans /\ GraceProtects
IndInv == TypeOK /\ Rest

\* At most one status is recorded when none was, and one is one.
LEMMA Lengths ==
  \A s \in Seq(Statuses) :
    /\ s = <<>> => Len(s) <= 1
    /\ Len(s) = 1 => Len(s) <= 1 /\ s # <<>>
    /\ Len(s) <= 1 /\ s # <<>> => Len(s) = 1
    /\ \A x \in Statuses : s = <<>> => Len(Append(s, x)) = 1 /\ Append(s, x) \in Seq(Statuses)
<1> SUFFICES ASSUME NEW s \in Seq(Statuses)
             PROVE  /\ s = <<>> => Len(s) <= 1
                    /\ Len(s) = 1 => Len(s) <= 1 /\ s # <<>>
                    /\ Len(s) <= 1 /\ s # <<>> => Len(s) = 1
                    /\ \A x \in Statuses :
                         s = <<>> => Len(Append(s, x)) = 1 /\ Append(s, x) \in Seq(Statuses)
  OBVIOUS
<1>1. Len(s) \in Nat /\ (s = <<>> <=> Len(s) = 0)
  OBVIOUS
<1>2. \A x \in Statuses : Len(Append(s, x)) = Len(s) + 1 /\ Append(s, x) \in Seq(Statuses)
  OBVIOUS
<1> DEFINE n == Len(s)
           empty == s = <<>>
<1>3. n \in Nat /\ (empty <=> n = 0)
  BY <1>1
<1> HIDE DEF n, empty
<1>4. /\ empty => n <= 1 /\ n + 1 = 1
      /\ n = 1 => n <= 1 /\ ~empty
      /\ n <= 1 /\ ~empty => n = 1
  BY <1>3
<1>5. /\ s = <<>> => Len(s) <= 1 /\ Len(s) + 1 = 1
      /\ Len(s) = 1 => Len(s) <= 1 /\ s # <<>>
      /\ Len(s) <= 1 /\ s # <<>> => Len(s) = 1
  BY <1>4, Zenon DEF n, empty
<1>6. ASSUME NEW x \in Statuses, s = <<>>
      PROVE  Len(Append(s, x)) = 1 /\ Append(s, x) \in Seq(Statuses)
  BY <1>2, <1>5, <1>6, Zenon
<1> QED
  BY <1>5, <1>6, Zenon

\* The server New returns satisfies the invariant.
LEMMA InitInd == Init => IndInv
<1> SUFFICES ASSUME Init PROVE IndInv
  OBVIOUS
<1> USE NoneAssumption, SizeAssumption, WorkerAssumption DEF Init
<1>0. held = [k \in {"window"} |-> None] /\ emitting = {} /\ closed = FALSE /\ expired = FALSE
  BY DEF Coalescer!Init
<1>1. TypeOK
  <2>1. held \in [{"window"} -> Requests \cup {None}]
    BY <1>0
  <2>2. <<>> \in Seq(Kinds) /\ <<>> \in Seq(Statuses) /\ queue \in Seq(Requests) /\ Len(queue) <= QueueSize
    OBVIOUS
  <2>3. updates \in 0 .. MaxUpdates
    OBVIOUS
  <2> QED
    BY <1>0, <2>1, <2>2, <2>3 DEF TypeOK, Stages
<1>2. QueueMatches
  BY DEF QueueMatches, InQueue
<1>3. StageMeans
  <2>1. \A r \in Requests : stage[r] = "new" /\ answers[r] = <<>>
    OBVIOUS
  <2>2. <<>> \in Seq(Statuses)
    OBVIOUS
  <2> HIDE DEF Init
  <2>3. \A r \in Requests : Len(answers[r]) <= 1
    BY <2>1, <2>2, Lengths
  <2> QED
    BY <2>1, <2>3 DEF StageMeans, StageOK
<1>4. WorkerHolds
  BY DEF WorkerHolds, Taken
<1>5. StopMeans
  BY <1>0 DEF StopMeans, QueueClosed
<1>6. GraceProtects
  BY DEF GraceProtects
<1> QED
  BY <1>1, <1>2, <1>3, <1>4, <1>5, <1>6 DEF IndInv, Rest

\* A step of one request that leaves the queue alone keeps the invariant if
\* it keeps what is said of that request.
LEMMA RequestStep ==
  ASSUME TypeOK, TypeOK', Rest, NEW r \in Requests,
         \A q \in Requests \ {r} :
           stage'[q] = stage[q] /\ answers'[q] = answers[q] /\ routed'[q] = routed[q],
         UNCHANGED <<queue, stop, closed, expired>>,
         held' = held \/ ~closed,
         stage[r] # "queued", stage'[r] # "queued",
         StageOK(r)',
         worker' = worker \/ (Release(r) /\ ~Taken(r)'),
         Taken(r)' => Taken(r),
         r \in Handling' => r \in Handling \/ stop = "serving",
         ~expired => dropped' = dropped /\ stage'[r] # "crashed"
  PROVE  Rest'
<1> USE NoneAssumption
<1>1. QueueMatches'
  BY DEF QueueMatches, InQueue, Rest
<1>2. StageMeans'
  BY DEF StageMeans, StageOK, Rest
<1>3. WorkerHolds'
  <2> SUFFICES ASSUME NEW q \in Requests, Taken(q)' PROVE \E w \in Workers : worker'[w] = q
    BY DEF WorkerHolds
  <2>1. Taken(q)
    BY DEF Taken
  <2>2. PICK w \in Workers : worker[w] = q
    BY <2>1 DEF WorkerHolds, Rest
  <2>3. worker'[w] = q
    BY <2>2 DEF Release, TypeOK
  <2> QED
    BY <2>3
<1>4. \A w \in Workers : worker'[w] = Exited <=> worker[w] = Exited
  BY DEF Release, TypeOK
<1>5. QueueClosed /\ ~expired => Handling' = {}
  BY DEF Rest, StopMeans, Handling, QueueClosed
<1>6. StopMeans'
  BY <1>4, <1>5 DEF StopMeans, Rest, WorkersDone, QueueClosed
<1>7. GraceProtects'
  BY DEF GraceProtects, Rest
<1> QED
  BY <1>1, <1>2, <1>3, <1>6, <1>7 DEF Rest

\* The immediate actions of an outcome are a sequence of the known kinds.
LEMMA ActionsType ==
  ASSUME NEW route \in {"none", "plain", "sync"} PROVE Actions(route) \subseteq Seq(Kinds)
<1> SUFFICES ASSUME NEW acts \in Actions(route) PROVE acts \in Seq(Kinds)
  OBVIOUS
<1> DEFINE kinds == CASE route = "none" -> {}
                      [] route = "plain" -> {"publish"}
                      [] route = "sync" -> Kinds
<1>1. kinds \subseteq Kinds
  BY DEF Kinds
<1>2. acts \in UNION {[1 .. n -> kinds] : n \in 0 .. MaxActions}
  BY DEF Actions
<1> HIDE DEF kinds
<1>3. PICK n \in 0 .. MaxActions : acts \in [1 .. n -> kinds]
  BY <1>2
<1>4. n \in Nat
  BY SizeAssumption
<1> QED
  BY <1>1, <1>3, <1>4

\* Every step keeps the variables in their types.
LEMMA NextType == TypeOK /\ [Next]_vars => TypeOK'
<1> SUFFICES ASSUME TypeOK, [Next]_vars PROVE TypeOK'
  OBVIOUS
<1> USE NoneAssumption, SizeAssumption DEF TypeOK, Stages
<1>1. CASE ReplaceRules
  BY <1>1 DEF ReplaceRules, coalescer
<1>a. \A r \in Requests, x \in Statuses : Append(answers[r], x) \in Seq(Statuses)
  OBVIOUS
<1>b. ASSUME NEW r \in Requests, NEW s \in Stages, Goes(r, s) PROVE stage' \in [Requests -> Stages]
  BY <1>b DEF Goes
<1>c. ASSUME NEW r \in Requests, NEW x \in Statuses, Writes(r, x)
      PROVE  answers' \in [Requests -> Seq(Statuses)]
  BY <1>a, <1>c DEF Writes
<1>d. ASSUME NEW r \in Requests, Release(r)
      PROVE  worker' \in [Workers -> Requests \cup {None, Exited}]
  BY <1>d DEF Release
<1>e. ASSUME NEW r \in Requests, Refuses(r)
      PROVE  stage' \in [Requests -> Stages] /\ answers' \in [Requests -> Seq(Statuses)]
  BY <1>b, <1>c, <1>e DEF Refuses, Statuses
<1>2. ASSUME NEW r \in Requests, Match(r) \/ ReadBody(r) \/ CheckHTTPHMAC(r) PROVE TypeOK'
  <2>1. stage' \in [Requests -> Stages] /\ answers' \in [Requests -> Seq(Statuses)]
    BY <1>2, <1>b, <1>e DEF Match, ReadBody, CheckHTTPHMAC, Proceeds
  <2> QED
    BY <1>2, <2>1 DEF Match, ReadBody, CheckHTTPHMAC, ruleState, coalescer
<1>3. ASSUME NEW r \in Requests, HasSyncHTTPPath(r) PROVE TypeOK'
  BY <1>3 DEF HasSyncHTTPPath, Goes, ruleState, coalescer
<1>4. ASSUME NEW r \in Requests, Enqueue(r) PROVE TypeOK'
  <2>1. stage' \in [Requests -> Stages] /\ answers' \in [Requests -> Seq(Statuses)]
    BY <1>4, <1>b, <1>c, <1>e DEF Enqueue, Statuses
  <2>2. queue' \in Seq(Requests) /\ Len(queue') <= QueueSize
    <3>1. CASE queue' = Append(queue, r) /\ Len(queue) < QueueSize
      <4>1. Len(queue') = Len(queue) + 1 /\ queue' \in Seq(Requests)
        BY <3>1
      <4> QED
        BY <3>1, <4>1
    <3> QED
      BY <1>4, <3>1 DEF Enqueue
  <2> QED
    BY <1>4, <2>1, <2>2 DEF Enqueue, ruleState, coalescer
<1>5. ASSUME NEW r \in Requests, EnqueueOnClosed(r) PROVE TypeOK'
  BY <1>5 DEF EnqueueOnClosed, Goes, ruleState, coalescer
<1>6. ASSUME NEW w \in Workers, Take(w) PROVE TypeOK'
  <2>1. Head(queue) \in Requests /\ queue' \in Seq(Requests) /\ Len(queue') <= QueueSize
    BY <1>6 DEF Take
  <2>2. stage' \in [Requests -> Stages]
    BY <1>6, <2>1, <1>b DEF Take
  <2>3. worker' \in [Workers -> Requests \cup {None, Exited}]
    BY <1>6, <2>1 DEF Take
  <2> QED
    BY <1>6, <2>1, <2>2, <2>3 DEF Take, ruleState, coalescer
<1>7. ASSUME NEW w \in Workers, Exit(w) PROVE TypeOK'
  BY <1>7 DEF Exit, ruleState, coalescer
<1>8. ASSUME NEW r \in Requests, Evaluate(r) PROVE TypeOK'
  <2>1. stage' \in [Requests -> Stages]
    BY <1>8, <1>b DEF Evaluate
  <2>2. answers' \in [Requests -> Seq(Statuses)]
    BY <1>8, <1>c DEF Evaluate, Statuses
  <2>3. todo' \in [Requests -> Seq(Kinds)]
    BY <1>8, ActionsType DEF Evaluate, RuleSets
  <2>4. worker' \in [Workers -> Requests \cup {None, Exited}]
    BY <1>8, <1>d DEF Evaluate
  <2> QED
    BY <1>8, <2>1, <2>2, <2>3, <2>4 DEF Evaluate, ruleState, coalescer
<1>9. ASSUME NEW r \in Requests, Panics(r) PROVE TypeOK'
  <2>1. stage' \in [Requests -> Stages] /\ todo' \in [Requests -> Seq(Kinds)]
    BY <1>9, <1>b DEF Panics
  <2> QED
    BY <1>9, <2>1, <1>d DEF Panics, ruleState, coalescer
<1>10. ASSUME NEW r \in Requests, Submit(r) PROVE TypeOK'
  <2>1. stage' \in [Requests -> Stages]
    BY <1>10, <1>b DEF Submit
  <2>2. /\ held' \in [{"window"} -> Requests \cup {None}]
        /\ dropped' \in SUBSET Requests
        /\ UNCHANGED <<emitting, closed, expired>>
    BY <1>10 DEF Submit, Coalescer!Offer, coalescer
  <2> QED
    BY <1>10, <2>1, <2>2 DEF Submit, ruleState
<1>11. ASSUME NEW r \in Requests, Act(r) PROVE TypeOK'
  <2>1. answers' \in [Requests -> Seq(Statuses)]
    <3>1. answers' = answers \/ \E x \in Statuses : Writes(r, x)
      BY <1>11 DEF Act, Answers, Statuses
    <3> QED
      BY <3>1, <1>c
  <2>2. todo' \in [Requests -> Seq(Kinds)]
    BY <1>11 DEF Act
  <2> QED
    BY <1>11, <2>1, <2>2 DEF Act, ruleState, coalescer
<1>12. ASSUME NEW r \in Requests, Finish(r) PROVE TypeOK'
  <2>1. stage' \in [Requests -> Stages] /\ worker' \in [Workers -> Requests \cup {None, Exited}]
    BY <1>12, <1>b, <1>d DEF Finish
  <2>2. answers' \in [Requests -> Seq(Statuses)]
    BY <1>12, <1>c DEF Finish, Statuses
  <2> QED
    BY <1>12, <2>1, <2>2 DEF Finish, ruleState, coalescer
<1>13. CASE Deferred \/ GraceExpires
  <2>1. /\ held' \in [{"window"} -> Requests \cup {None}] /\ emitting' \in SUBSET Requests
        /\ expired' \in BOOLEAN /\ UNCHANGED closed
    BY <1>13 DEF Deferred, GraceExpires, Coalescer!Emit, Coalescer!Discard, Coalescer!Finish,
       Coalescer!Expire
  <2> QED
    BY <1>13, <2>1 DEF Deferred, GraceExpires, ruleState
<1>14. CASE StopBegins \/ ShutdownReturns \/ StopReturns
  BY <1>14 DEF StopBegins, ShutdownReturns, StopReturns, ruleState, coalescer
<1>15. CASE DrainReturns
  BY <1>15 DEF DrainReturns, Coalescer!Close, ruleState
<1>16. CASE UNCHANGED vars
  BY <1>16 DEF vars
<1> QED
  <2> HIDE DEF TypeOK
  <2> QED
    BY <1>1, <1>2, <1>3, <1>4, <1>5, <1>6, <1>7, <1>8, <1>9, <1>10, <1>11, <1>12, <1>13, <1>14,
       <1>15, <1>16 DEF Next, Handler

\* Every step of a handler, a worker, the coalescer or Stop keeps the
\* inductive invariant.
LEMMA NextInd == IndInv /\ [Next]_vars => IndInv'
<1> SUFFICES ASSUME IndInv, [Next]_vars PROVE IndInv'
  OBVIOUS
<1>0. TypeOK /\ TypeOK' /\ Rest
  BY NextType DEF IndInv
<1> SUFFICES Rest'
  BY <1>0 DEF IndInv
<1> USE NoneAssumption, <1>0
<1>l. \A r \in Requests, x \in Statuses :
        answers[r] = <<>> => /\ Len(Append(answers[r], x)) = 1 /\ Len(Append(answers[r], x)) <= 1
                             /\ Append(answers[r], x) # <<>>
  BY Lengths DEF TypeOK
<1>m. \A r \in Requests : /\ answers[r] \in Seq(Statuses) /\ answers'[r] \in Seq(Statuses)
                         /\ Len(answers[r]) <= 1
  BY DEF TypeOK, Rest, StageMeans, StageOK
<1>1. CASE ReplaceRules
  BY <1>1 DEF ReplaceRules, Rest, QueueMatches, InQueue, StageMeans, StageOK, WorkerHolds, Taken,
     StopMeans, GraceProtects, QueueClosed, Handling, WorkersDone, coalescer
<1>2. ASSUME NEW r \in Requests, Match(r) \/ ReadBody(r) \/ CheckHTTPHMAC(r) PROVE Rest'
  <2>1. /\ stage[r] \in {"new", "reading", "gate"}
        /\ stage[r] = "new" => stop = "serving"
        /\ UNCHANGED <<routed, queue, worker, stop, held, closed, expired, dropped>>
        /\ \A q \in Requests \ {r} : stage'[q] = stage[q] /\ answers'[q] = answers[q]
    BY <1>2 DEF Match, ReadBody, CheckHTTPHMAC, Refuses, Proceeds, Goes, Writes, coalescer, TypeOK
  <2>2. \/ stage'[r] \in {"reading", "gate", "route"} /\ answers'[r] = answers[r]
        \/ stage'[r] = "finished" /\ answers'[r] = Append(answers[r], "refused")
    BY <1>2 DEF Match, ReadBody, CheckHTTPHMAC, Refuses, Proceeds, Goes, Writes, TypeOK
  <2>3. answers[r] = <<>> /\ Len(answers[r]) <= 1
    BY <2>1 DEF Rest, StageMeans, StageOK
  <2>4. StageOK(r)'
    <3>1. CASE stage'[r] \in {"reading", "gate", "route"} /\ answers'[r] = answers[r]
      BY <2>3, <3>1 DEF StageOK
    <3>2. CASE stage'[r] = "finished" /\ answers'[r] = Append(answers[r], "refused")
      <4>1. Len(answers'[r]) = 1 /\ Len(answers'[r]) <= 1
        BY <2>3, <3>2, <1>l DEF Statuses
      <4> QED
        BY <3>2, <4>1 DEF StageOK
    <3> QED
      BY <2>2, <3>1, <3>2
  <2>5. r \in Handling' => r \in Handling \/ stop = "serving"
    BY <2>1 DEF Handling
  <2> QED
    BY <2>1, <2>2, <2>4, <2>5, RequestStep DEF Taken
<1>3. ASSUME NEW r \in Requests, HasSyncHTTPPath(r) PROVE Rest'
  <2>1. /\ stage[r] = "route"
        /\ UNCHANGED <<answers, queue, worker, stop, held, closed, expired, dropped>>
        /\ \A q \in Requests \ {r} : stage'[q] = stage[q] /\ routed'[q] = routed[q]
        /\ \/ stage'[r] = "evaluate" /\ routed'[r] = "sync"
           \/ stage'[r] = "enqueue" /\ routed'[r] = "plain"
    BY <1>3 DEF HasSyncHTTPPath, Goes, coalescer, TypeOK
  <2>2. StageOK(r)'
    BY <2>1 DEF StageOK, Rest, StageMeans
  <2>3. r \in Handling
    BY <2>1 DEF Handling
  <2> QED
    BY <2>1, <2>2, <2>3, RequestStep DEF Taken
<1>4. ASSUME NEW r \in Requests, EnqueueOnClosed(r) PROVE Rest'
  <2>1. /\ stage[r] = "enqueue" /\ stage'[r] = "crashed" /\ QueueClosed
        /\ UNCHANGED <<routed, answers, queue, worker, stop, held, closed, expired, dropped>>
        /\ \A q \in Requests \ {r} : stage'[q] = stage[q]
    BY <1>4 DEF EnqueueOnClosed, Goes, coalescer, TypeOK
  <2>2. StageOK(r)'
    BY <2>1 DEF StageOK, Rest, StageMeans
  <2>3. r \in Handling
    BY <2>1 DEF Handling
  <2>4. expired
    BY <2>1, <2>3 DEF Rest, StopMeans
  <2> QED
    BY <2>1, <2>2, <2>3, <2>4, RequestStep DEF Taken
<1>5. ASSUME NEW r \in Requests, Evaluate(r) PROVE Rest'
  <2>1. /\ stage[r] = "evaluate"
        /\ UNCHANGED <<routed, queue, stop, held, closed, expired, dropped>>
        /\ \A q \in Requests \ {r} : stage'[q] = stage[q] /\ answers'[q] = answers[q]
    BY <1>5 DEF Evaluate, Goes, Writes, coalescer, TypeOK
  <2>2. \/ stage'[r] \in {"submit", "act"} /\ answers'[r] = answers[r] /\ worker' = worker
        \/ /\ stage'[r] = "finished" /\ Release(r)
           /\ answers'[r] = IF routed[r] = "sync" THEN Append(answers[r], "refused") ELSE answers[r]
    BY <1>5 DEF Evaluate, Goes, Writes, TypeOK
  <2>3. StageOK(r)'
    <3>0. StageOK(r)
      BY DEF Rest, StageMeans
    <3>1. CASE stage'[r] \in {"submit", "act"} /\ answers'[r] = answers[r]
      BY <2>1, <3>0, <3>1 DEF StageOK
    <3>2. CASE stage'[r] = "finished" /\ routed[r] = "sync" /\ answers'[r] = Append(answers[r], "refused")
      <4>1. answers[r] = <<>>
        BY <2>1, <3>0, <3>2 DEF StageOK
      <4>2. Len(answers'[r]) = 1 /\ Len(answers'[r]) <= 1
        BY <3>2, <4>1, <1>l DEF Statuses
      <4> QED
        BY <3>2, <4>2 DEF StageOK
    <3>3. CASE stage'[r] = "finished" /\ routed[r] # "sync" /\ answers'[r] = answers[r]
      BY <2>1, <3>0, <3>3 DEF StageOK
    <3> QED
      BY <2>2, <3>1, <3>2, <3>3
  <2>4. r \in Handling' => r \in Handling
    BY <2>1, <2>2 DEF Handling
  <2> QED
    BY <2>1, <2>2, <2>3, <2>4, RequestStep DEF Taken
<1>6. ASSUME NEW r \in Requests, Panics(r) PROVE Rest'
  <2>1. /\ stage[r] \in {"evaluate", "submit", "act"} /\ stage'[r] = "panicked"
        /\ UNCHANGED <<routed, answers, queue, stop, held, closed, expired, dropped>>
        /\ \A q \in Requests \ {r} : stage'[q] = stage[q]
        /\ Release(r)
    BY <1>6 DEF Panics, Goes, coalescer, TypeOK
  <2>2. StageOK(r)'
    BY <2>1 DEF StageOK, Rest, StageMeans
  <2> QED
    BY <2>1, <2>2, RequestStep DEF Taken, Handling
<1>7. ASSUME NEW r \in Requests, Submit(r) PROVE Rest'
  <2>1. /\ stage[r] = "submit" /\ stage'[r] = "act"
        /\ UNCHANGED <<routed, answers, queue, worker, stop, closed, expired>>
        /\ \A q \in Requests \ {r} : stage'[q] = stage[q]
        /\ held' = held \/ ~closed
        /\ dropped' = dropped \/ closed
    BY <1>7 DEF Submit, Goes, coalescer, Coalescer!Offer, TypeOK
  <2>2. StageOK(r)'
    BY <2>1 DEF StageOK, Rest, StageMeans
  <2>3. r \in Handling' => r \in Handling
    BY <2>1 DEF Handling
  <2>4. ~expired => dropped' = dropped
    <3> SUFFICES ASSUME ~expired, closed PROVE FALSE
      BY <2>1
    <3>1. Handling = {} /\ WorkersDone
      BY DEF Rest, StopMeans, QueueClosed
    <3>2. Taken(r)
      BY <2>1, <3>1 DEF Handling, Taken
    <3> QED
      BY <3>1, <3>2 DEF Rest, WorkerHolds, WorkersDone
  <2> QED
    BY <2>1, <2>2, <2>3, <2>4, RequestStep DEF Taken
<1>8. ASSUME NEW r \in Requests, Act(r) PROVE Rest'
  <2>1. /\ stage[r] = "act" /\ stage' = stage
        /\ UNCHANGED <<routed, queue, worker, stop, held, closed, expired, dropped>>
        /\ \A q \in Requests \ {r} : answers'[q] = answers[q]
    BY <1>8 DEF Act, Answers, Writes, coalescer, TypeOK
  <2>2. \/ answers'[r] = answers[r]
        \/ /\ routed[r] = "sync" /\ answers[r] = <<>>
           /\ \E x \in Statuses : answers'[r] = Append(answers[r], x)
    BY <1>8 DEF Act, Answers, Writes, TypeOK, Statuses
  <2>3. StageOK(r)'
    BY <2>1, <2>2, <1>l DEF StageOK, Rest, StageMeans
  <2>4. r \in Handling' => r \in Handling
    BY <2>1 DEF Handling
  <2> QED
    BY <2>1, <2>3, <2>4, RequestStep DEF Taken
<1>9. ASSUME NEW r \in Requests, Finish(r) PROVE Rest'
  <2>1. /\ stage[r] = "act" /\ stage'[r] = "finished"
        /\ UNCHANGED <<routed, queue, stop, held, closed, expired, dropped>>
        /\ \A q \in Requests \ {r} : stage'[q] = stage[q] /\ answers'[q] = answers[q]
        /\ Release(r)
        /\ answers'[r] = IF routed[r] = "sync" /\ answers[r] = <<>>
                         THEN Append(answers[r], "refused") ELSE answers[r]
    BY <1>9 DEF Finish, Goes, Writes, coalescer, TypeOK
  <2>2. StageOK(r)'
    <3>1. CASE routed[r] = "sync" /\ answers[r] = <<>>
      BY <2>1, <3>1, <1>l DEF StageOK, Statuses
    <3>2. CASE routed[r] # "sync"
      BY <2>1, <3>2 DEF StageOK, Rest, StageMeans
    <3>3. CASE answers[r] # <<>>
      <4>1. Len(answers[r]) = 1
        BY <3>3, <1>m, Lengths
      <4>2. Len(answers'[r]) = 1 /\ Len(answers'[r]) <= 1
        BY <2>1, <3>3, <4>1, <1>m
      <4> QED
        BY <2>1, <4>2 DEF StageOK
    <3> QED
      BY <3>1, <3>2, <3>3
  <2> QED
    BY <2>1, <2>2, RequestStep DEF Taken, Handling
<1>10. ASSUME NEW r \in Requests, Enqueue(r), Len(queue) >= QueueSize PROVE Rest'
  <2>1. /\ stage[r] = "enqueue" /\ stage'[r] = "finished"
        /\ answers'[r] = Append(answers[r], "refused")
        /\ UNCHANGED <<routed, queue, worker, stop, held, closed, expired, dropped>>
        /\ \A q \in Requests \ {r} : stage'[q] = stage[q] /\ answers'[q] = answers[q]
    <3>1. ~(Len(queue) < QueueSize)
      BY <1>10, SizeAssumption DEF TypeOK
    <3> QED
      BY <1>10, <3>1 DEF Enqueue, Refuses, Goes, Writes, coalescer, TypeOK
  <2>2. answers[r] = <<>>
    BY <2>1 DEF Rest, StageMeans, StageOK
  <2>3. StageOK(r)'
    BY <2>1, <2>2, <1>l DEF StageOK, Statuses
  <2> QED
    BY <2>1, <2>3, RequestStep DEF Taken, Handling
<1>11. ASSUME NEW r \in Requests, Enqueue(r), Len(queue) < QueueSize PROVE Rest'
  <2>1. /\ stage[r] = "enqueue" /\ stage' = [stage EXCEPT ![r] = "queued"]
        /\ queue' = Append(queue, r)
        /\ answers' = [answers EXCEPT ![r] = Append(answers[r], "accepted")]
        /\ ~QueueClosed
        /\ UNCHANGED <<routed, worker, stop, held, closed, expired, dropped>>
    BY <1>11 DEF Enqueue, Goes, Writes, coalescer
  <2>2. answers[r] = <<>> /\ routed[r] = "plain" /\ ~InQueue(r)
    BY <2>1 DEF Rest, StageMeans, StageOK, QueueMatches
  <2>3. QueueMatches'
    <3>1. \A i \in DOMAIN queue : queue[i] # r
      BY <2>2 DEF InQueue
    <3>2. /\ DOMAIN queue' = 1 .. Len(queue) + 1 /\ DOMAIN queue = 1 .. Len(queue)
          /\ queue'[Len(queue) + 1] = r
          /\ \A i \in DOMAIN queue : queue'[i] = queue[i]
          /\ Len(queue) \in Nat
      <4>1. queue \in Seq(Requests)
        BY DEF TypeOK
      <4>2. Len(Append(queue, r)) = Len(queue) + 1 /\ Append(queue, r) \in Seq(Requests)
        BY <4>1
      <4>3. /\ Append(queue, r)[Len(queue) + 1] = r
            /\ \A i \in 1 .. Len(queue) : Append(queue, r)[i] = queue[i]
        BY <4>1
      <4>4. DOMAIN queue = 1 .. Len(queue) /\ Len(queue) \in Nat
        BY <4>1
      <4>5. DOMAIN Append(queue, r) = 1 .. Len(Append(queue, r))
        BY <4>2
      <4> QED
        BY <2>1, <4>2, <4>3, <4>4, <4>5
    <3>3. \A i, j \in DOMAIN queue' : queue'[i] = queue'[j] => i = j
      BY <3>1, <3>2 DEF Rest, QueueMatches
    <3>4. \A q \in Requests : InQueue(q)' <=> InQueue(q) \/ q = r
      BY <3>2 DEF InQueue
    <3>5. \A q \in Requests : stage'[q] = "queued" <=> stage[q] = "queued" \/ q = r
      BY <2>1 DEF TypeOK
    <3> QED
      BY <3>3, <3>4, <3>5 DEF Rest, QueueMatches
  <2>4. StageMeans'
    <3>1. \A q \in Requests \ {r} : StageOK(q)'
      BY <2>1 DEF Rest, StageMeans, StageOK, TypeOK
    <3>2. stage'[r] = "queued" /\ Len(answers'[r]) = 1 /\ routed'[r] = "plain"
      BY <2>1, <2>2, <1>l DEF TypeOK, Statuses
    <3>3. Len(answers'[r]) <= 1
      BY <3>2, <1>m, Lengths
    <3>4. StageOK(r)'
      BY <3>2, <3>3 DEF StageOK
    <3> QED
      BY <3>1, <3>4 DEF StageMeans
  <2>5. WorkerHolds'
    BY <2>1 DEF Rest, WorkerHolds, Taken, TypeOK
  <2>6. StopMeans'
    BY <2>1 DEF Rest, StopMeans, QueueClosed, WorkersDone
  <2>7. GraceProtects'
    BY <2>1 DEF Rest, GraceProtects, TypeOK
  <2> QED
    BY <2>3, <2>4, <2>5, <2>6, <2>7 DEF Rest
<1>12. ASSUME NEW w \in Workers, Take(w) PROVE Rest'
  <2> DEFINE r == Head(queue)
  <2>1. /\ worker[w] = None /\ queue # <<>>
        /\ worker' = [worker EXCEPT ![w] = r]
        /\ queue' = Tail(queue)
        /\ stage' = [stage EXCEPT ![r] = "evaluate"]
        /\ UNCHANGED <<routed, answers, stop, held, closed, expired, dropped>>
    BY <1>12 DEF Take, Goes, coalescer
  <2>2. /\ r = queue[1] /\ 1 \in DOMAIN queue /\ Len(queue) \in Nat
        /\ DOMAIN queue = 1 .. Len(queue) /\ DOMAIN queue' = 1 .. Len(queue) - 1
        /\ \A i \in DOMAIN queue' : queue'[i] = queue[i + 1]
        /\ r \in Requests
    BY <2>1 DEF TypeOK
  <2>3. stage[r] = "queued" /\ routed[r] = "plain" /\ Len(answers[r]) = 1
    BY <2>2 DEF Rest, QueueMatches, InQueue, StageMeans, StageOK
  <2>4. QueueMatches'
    <3>1. \A i, j \in DOMAIN queue' : queue'[i] = queue'[j] => i = j
      BY <2>2 DEF Rest, QueueMatches
    <3>2. \A q \in Requests : InQueue(q)' <=> InQueue(q) /\ q # r
      <4> SUFFICES ASSUME NEW q \in Requests PROVE InQueue(q)' <=> InQueue(q) /\ q # r
        OBVIOUS
      <4>1. ASSUME NEW i \in DOMAIN queue', queue'[i] = q PROVE InQueue(q) /\ q # r
        <5>1. i + 1 \in DOMAIN queue /\ queue[i + 1] = q /\ i + 1 # 1
          BY <2>2, <4>1
        <5> QED
          BY <2>2, <5>1 DEF InQueue, Rest, QueueMatches
      <4>2. ASSUME NEW i \in DOMAIN queue, queue[i] = q, q # r PROVE InQueue(q)'
        <5>1. i - 1 \in DOMAIN queue' /\ queue'[i - 1] = q
          BY <2>2, <4>2
        <5> QED
          BY <5>1 DEF InQueue
      <4> QED
        BY <4>1, <4>2 DEF InQueue
    <3>3. \A q \in Requests : stage'[q] = "queued" <=> stage[q] = "queued" /\ q # r
      BY <2>1, <2>2 DEF TypeOK
    <3> QED
      BY <3>1, <3>2, <3>3 DEF Rest, QueueMatches
  <2>5. StageMeans'
    BY <2>1, <2>2, <2>3 DEF Rest, StageMeans, StageOK, TypeOK
  <2>6. WorkerHolds'
    <3> SUFFICES ASSUME NEW q \in Requests, Taken(q)' PROVE \E v \in Workers : worker'[v] = q
      BY DEF WorkerHolds
    <3>1. CASE q = r
      BY <2>1, <3>1 DEF TypeOK
    <3>2. CASE q # r
      <4>1. PICK v \in Workers : worker[v] = q
        BY <2>1, <2>2, <3>2 DEF Taken, TypeOK, Rest, WorkerHolds
      <4> QED
        BY <2>1, <4>1 DEF TypeOK
    <3> QED
      BY <3>1, <3>2
  <2>7. StopMeans'
    <3>1. \A v \in Workers : worker[v] # Exited /\ worker'[v] # Exited
      BY <2>1, <2>2 DEF Rest, StopMeans, TypeOK
    <3>2. Handling' = Handling
      BY <2>1, <2>2, <2>3 DEF Handling, TypeOK
    <3>3. ~WorkersDone
      BY <3>1 DEF WorkersDone
    <3> QED
      BY <2>1, <3>1, <3>2, <3>3 DEF Rest, StopMeans, QueueClosed
  <2>8. GraceProtects'
    BY <2>1, <2>2 DEF Rest, GraceProtects, TypeOK
  <2> QED
    BY <2>4, <2>5, <2>6, <2>7, <2>8 DEF Rest
<1>13. ASSUME NEW w \in Workers, Exit(w) PROVE Rest'
  <2>1. /\ worker[w] = None /\ queue = <<>> /\ QueueClosed
        /\ worker' = [worker EXCEPT ![w] = Exited]
        /\ UNCHANGED <<stage, routed, answers, queue, stop, held, closed, expired, dropped>>
    BY <1>13 DEF Exit, coalescer
  <2>2. WorkerHolds'
    <3> SUFFICES ASSUME NEW q \in Requests, Taken(q)' PROVE \E v \in Workers : worker'[v] = q
      BY DEF WorkerHolds
    <3>1. PICK v \in Workers : worker[v] = q
      BY <2>1 DEF Taken, Rest, WorkerHolds
    <3> QED
      BY <2>1, <3>1 DEF TypeOK
  <2>3. StopMeans'
    BY <2>1 DEF Rest, StopMeans, QueueClosed, Handling, WorkersDone, TypeOK
  <2> QED
    BY <2>1, <2>2, <2>3 DEF Rest, QueueMatches, InQueue, StageMeans, StageOK, GraceProtects
\* The coalescer's own steps and those of Stop leave the requests alone.
<1>14. ASSUME UNCHANGED <<stage, routed, answers, queue, worker, dropped>>,
              expired => expired', StopMeans'
       PROVE  Rest'
  BY <1>14 DEF Rest, QueueMatches, InQueue, StageMeans, StageOK, WorkerHolds, Taken, GraceProtects
<1>15. CASE Deferred
  <2>1. /\ UNCHANGED <<stage, routed, answers, queue, worker, dropped, stop, closed, expired>>
        /\ held["window"] = None => held'["window"] = None
    BY <1>15 DEF Deferred, Coalescer!Emit, Coalescer!Discard, Coalescer!Finish, TypeOK
  <2>2. StopMeans'
    BY <2>1 DEF Rest, StopMeans, QueueClosed, Handling, WorkersDone
  <2> QED
    BY <1>14, <2>1, <2>2
<1>16. CASE GraceExpires
  <2>1. UNCHANGED <<stage, routed, answers, queue, worker, dropped, stop, closed, held>> /\ expired'
    BY <1>16 DEF GraceExpires, Coalescer!Expire
  <2>2. StopMeans'
    BY <2>1 DEF Rest, StopMeans, QueueClosed
  <2> QED
    BY <1>14, <2>1, <2>2
<1>17. CASE StopBegins \/ ShutdownReturns \/ StopReturns
  <2>1. UNCHANGED <<stage, routed, answers, queue, worker, dropped, held, closed, expired>>
    BY <1>17 DEF StopBegins, ShutdownReturns, StopReturns, coalescer
  <2>2. \/ stop = "serving" /\ stop' = "shutdown"
        \/ stop = "shutdown" /\ stop' = "draining" /\ (Handling = {} \/ expired)
        \/ stop = "flushing" /\ stop' = "stopped" /\ held["window"] = None
    BY <1>17 DEF StopBegins, ShutdownReturns, StopReturns
  <2>3. StopMeans'
    BY <2>1, <2>2 DEF Rest, StopMeans, QueueClosed, Handling, WorkersDone
  <2> QED
    BY <1>14, <2>1, <2>3
<1>18. CASE DrainReturns
  <2>1. /\ UNCHANGED <<stage, routed, answers, queue, worker, dropped, held, expired>>
        /\ stop = "draining" /\ stop' = "flushing" /\ closed'
        /\ WorkersDone \/ expired
    BY <1>18 DEF DrainReturns, Coalescer!Close
  <2>2. StopMeans'
    BY <2>1 DEF Rest, StopMeans, QueueClosed, Handling, WorkersDone
  <2> QED
    BY <1>14, <2>1, <2>2
<1>19. CASE UNCHANGED vars
  BY <1>19 DEF vars, Rest, QueueMatches, InQueue, StageMeans, StageOK, WorkerHolds, Taken,
     StopMeans, GraceProtects, QueueClosed, Handling, WorkersDone
<1>20. ASSUME NEW r \in Requests, Enqueue(r) PROVE Rest'
  <2>1. Len(queue) >= QueueSize \/ Len(queue) < QueueSize
    BY SizeAssumption DEF TypeOK
  <2> QED
    BY <1>10, <1>11, <1>20, <2>1
<1> QED
  BY <1>1, <1>2, <1>3, <1>4, <1>5, <1>6, <1>7, <1>8, <1>9, <1>12, <1>13, <1>15, <1>16,
     <1>17, <1>18, <1>19, <1>20 DEF Next, Handler

\* The inductive invariant holds of every reachable state.
THEOREM Inductive == Spec => []IndInv
BY InitInd, NextInd, PTL DEF Spec

\* Every client is answered exactly once, whichever of the handler's early
\* returns, the queue's limit and the rules' actions it meets.
THEOREM AnsweredOnceAlways == Spec => []AnsweredOnce
<1>1. IndInv => AnsweredOnce
  BY DEF IndInv, Rest, StageMeans, StageOK, AnsweredOnce
<1> QED
  BY <1>1, Inductive, PTL

\* Until the grace period ends, Stop's order of waits keeps every handler from
\* sending on the closed queue and every worker from submitting to the stopped
\* coalescer.
THEOREM GraceProtectsAlways == Spec => []GraceProtects
<1>1. IndInv => GraceProtects
  BY DEF IndInv, Rest
<1> QED
  BY <1>1, Inductive, PTL

\* If Stop returns within the grace period, every webhook answered 200 has been
\* evaluated and acted on, and no batch is held.
THEOREM AcceptedSurvives == Spec => []AcceptedSurvivesStop
<1>1. IndInv => AcceptedSurvivesStop
  <2> SUFFICES ASSUME IndInv, stop = "stopped", ~expired
               PROVE  /\ \A r \in Requests :
                           answers[r] = <<"accepted">> => stage[r] \in {"finished", "panicked"}
                      /\ held["window"] = None
    BY DEF AcceptedSurvivesStop
  <2> USE NoneAssumption, WorkerAssumption DEF IndInv, Rest
  <2>1. WorkersDone /\ Handling = {} /\ held["window"] = None
    BY DEF StopMeans, QueueClosed
  <2>2. queue = <<>>
    BY <2>1 DEF StopMeans, WorkersDone
  <2>3. \A r \in Requests : stage[r] # "queued" /\ ~Taken(r)
    <3>1. DOMAIN queue = {}
      BY <2>2
    <3>2. \A r \in Requests : stage[r] # "queued"
      BY <3>1 DEF QueueMatches, InQueue
    <3>3. \A r \in Requests : ~Taken(r)
      BY <2>1 DEF WorkerHolds, WorkersDone
    <3> QED
      BY <3>2, <3>3
  <2>4. ASSUME NEW r \in Requests, answers[r] = <<"accepted">>
        PROVE  stage[r] \in {"finished", "panicked"}
    <3>1. answers[r] # <<>>
      BY <2>4
    <3>2. stage[r] \notin {"new", "reading", "gate", "route", "enqueue", "crashed"}
      BY <3>1 DEF StageMeans, StageOK
    <3>3. stage[r] \notin {"evaluate", "submit", "act"}
      BY <2>1, <2>3 DEF Taken, Handling
    <3> QED
      BY <2>3, <3>2, <3>3 DEF TypeOK, Stages
  <2> QED
    BY <2>1, <2>4
<1> QED
  BY <1>1, Inductive, PTL
=============================================================================
