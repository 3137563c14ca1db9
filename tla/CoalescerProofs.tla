-------------------------- MODULE CoalescerProofs ---------------------------
(***************************************************************************)
(* The coalescer's safety for every set of keys and batches, every window, *)
(* batch size and flush concurrency.                                       *)
(***************************************************************************)
EXTENDS CoalescerObserved, TLAPS

\* The coalescer New returns satisfies the inductive invariant.
LEMMA InitInd == Init => IndInv
<1> SUFFICES ASSUME Init PROVE IndInv
  OBVIOUS
<1> USE BatchAssumption DEF Init
<1>1. TypeOK
  BY DEF TypeOK, TimerStates, StopPcs, Reasons
<1>2. Placed
  BY DEF Placed
<1>3. SingleHome
  BY DEF SingleHome, IsPending, InFlush, Executing
<1>4. WindowHasTimer
  BY DEF WindowHasTimer
<1>5. StopPcMeans
  BY DEF StopPcMeans, Running
<1> QED
  BY <1>1, <1>2, <1>3, <1>4, <1>5 DEF IndInv

\* Every step keeps the variables in their types.
LEMMA NextType == TypeOK /\ [Next]_vars => TypeOK'
<1> SUFFICES ASSUME TypeOK, [Next]_vars PROVE TypeOK'
  OBVIOUS
<1> USE BatchAssumption DEF TypeOK, TimerStates, StopPcs, Reasons
<1>1. ASSUME NEW b \in Batches, Coalesce(b) PROVE TypeOK'
  BY <1>1 DEF Coalesce, stopping
<1>2. ASSUME NEW b \in Batches, OpenWindow(b) PROVE TypeOK'
  BY <1>2 DEF OpenWindow, stopping
<1>3. CASE Tick
  <2>1. left' \in [Keys -> Nat]
    BY <1>3 DEF Tick
  <2> QED
    BY <1>3, <2>1 DEF Tick, stopping
<1>4. ASSUME NEW k \in Keys, TimerExpires(k) PROVE TypeOK'
  BY <1>4 DEF TimerExpires, stopping
<1>5. ASSUME NEW k \in Keys, Fire(k) PROVE TypeOK'
  <2>1. timer' \in [Keys -> TimerStates]
    BY <1>5 DEF Fire
  <2>2. CASE FireClaim(k)
    BY <1>5, <2>1, <2>2 DEF Fire, FireClaim, StartExecute, stopping
  <2>3. CASE FireReturn(k)
    BY <1>5, <2>1, <2>3 DEF Fire, FireReturn, stopping
  <2> QED
    BY <1>5, <2>2, <2>3 DEF Fire
<1>6. ASSUME NEW b \in Batches, ExecuteAction(b) PROVE TypeOK'
  BY <1>6 DEF ExecuteAction, stopping, queue
<1>7. ASSUME NEW b \in Batches, ExecuteReturns(b) PROVE TypeOK'
  BY <1>7 DEF ExecuteReturns, stopping, queue
<1>8. CASE StopBegins
  BY <1>8 DEF StopBegins
<1>9. ASSUME NEW b \in Batches, FlushPick(b) PROVE TypeOK'
  BY <1>9 DEF FlushPick, queue
<1>10. CASE FlushStart
  BY <1>10 DEF FlushStart, StartExecute, queue
<1>11. CASE FlushLoopEnds \/ FlushWait \/ StopReturns \/ ContextExpires
  BY <1>11 DEF FlushLoopEnds, FlushWait, StopReturns, ContextExpires, queue
<1>12. CASE UNCHANGED vars
  BY <1>12 DEF vars
<1> QED
  BY <1>1, <1>2, <1>3, <1>4, <1>5, <1>6, <1>7, <1>8, <1>9, <1>10, <1>11, <1>12
     DEF Next, Submit, StopStep

\* Every step keeps the inductive invariant.
LEMMA NextInd == IndInv /\ [Next]_vars => IndInv'
<1> SUFFICES ASSUME IndInv, [Next]_vars PROVE IndInv'
  OBVIOUS
<1>0. TypeOK /\ TypeOK'
  BY NextType DEF IndInv
<1> DEFINE Rest == Placed /\ SingleHome /\ WindowHasTimer /\ StopPcMeans
<1>r. Rest
  BY DEF IndInv
<1> SUFFICES Rest'
  BY <1>0 DEF IndInv
<1> USE BatchAssumption
<1>1. ASSUME NEW b \in Batches, ~InUse(b), Coalesce(b) PROVE Rest'
  <2>1. /\ ~stopped
        /\ pending[Key[b]] # None
        /\ pending' = [pending EXCEPT ![Key[b]] = b]
        /\ UNCHANGED <<left, timer, exec, todo, stopped, batches, cur, stopPc, expired>>
    BY <1>1 DEF Coalesce, Accepts, stopping
  <2>2. Placed'
    BY <2>1, <1>0, <1>r DEF Placed, TypeOK
  <2>3. SingleHome'
    BY <1>1, <2>1, <1>0, <1>r DEF SingleHome, InUse, IsPending, InFlush, Executing, TypeOK
  <2>4. WindowHasTimer'
    BY <2>1, <1>0, <1>r DEF WindowHasTimer, TypeOK
  <2>5. StopPcMeans'
    BY <2>1, <1>r DEF StopPcMeans, Running
  <2> QED
    BY <2>2, <2>3, <2>4, <2>5
<1>2. ASSUME NEW b \in Batches, ~InUse(b), OpenWindow(b) PROVE Rest'
  <2>1. /\ ~stopped
        /\ pending' = [pending EXCEPT ![Key[b]] = b]
        /\ timer' = [timer EXCEPT ![Key[b]] = "armed"]
        /\ UNCHANGED <<exec, todo, stopped, batches, cur, stopPc, expired>>
    BY <1>2 DEF OpenWindow, Accepts, stopping
  <2>2. Placed'
    BY <2>1, <1>0, <1>r DEF Placed, TypeOK
  <2>3. SingleHome'
    BY <1>2, <2>1, <1>0, <1>r DEF SingleHome, InUse, IsPending, InFlush, Executing, TypeOK
  <2>4. WindowHasTimer'
    BY <2>1, <1>0, <1>r DEF WindowHasTimer, TypeOK
  <2>5. StopPcMeans'
    BY <2>1, <1>r DEF StopPcMeans, Running
  <2> QED
    BY <2>2, <2>3, <2>4, <2>5
<1>3. CASE Tick
  BY <1>3, <1>r DEF Tick, stopping, Placed, SingleHome, WindowHasTimer, StopPcMeans,
     IsPending, InFlush, Executing, Running
<1>4. ASSUME NEW k \in Keys, TimerExpires(k) PROVE Rest'
  <2>1. /\ timer[k] = "armed"
        /\ timer' = [timer EXCEPT ![k] = "fired"]
        /\ UNCHANGED <<pending, exec, stopped, batches, cur, stopPc>>
    BY <1>4 DEF TimerExpires, stopping
  <2>2. WindowHasTimer'
    BY <2>1, <1>0, <1>r DEF WindowHasTimer, TypeOK
  <2> QED
    BY <2>1, <2>2, <1>r DEF Placed, SingleHome, StopPcMeans, IsPending, InFlush, Executing, Running
<1>5. ASSUME NEW k \in Keys, Fire(k), FireClaim(k) PROVE Rest'
  <2> DEFINE b == pending[k]
  <2>1. /\ timer' = [timer EXCEPT ![k] = "off"]
        /\ b # None
        /\ ~stopped
        /\ pending' = [pending EXCEPT ![k] = None]
        /\ exec' = [exec EXCEPT ![b] = "window_closed"]
        /\ UNCHANGED <<stopped, batches, cur, stopPc>>
    BY <1>5 DEF Fire, FireClaim, StartExecute, stopping
  <2>2. b \in Batches /\ Key[b] = k
    BY <2>1, <1>0, <1>r DEF TypeOK, Placed
  <2>3. Placed'
    BY <2>1, <1>0, <1>r DEF Placed, TypeOK
  <2>4. SingleHome'
    BY <2>1, <2>2, <1>0, <1>r DEF SingleHome, IsPending, InFlush, Executing, TypeOK
  <2>5. WindowHasTimer'
    BY <2>1, <1>0, <1>r DEF WindowHasTimer, TypeOK
  <2>6. StopPcMeans'
    BY <2>1, <2>2, <1>0, <1>r DEF StopPcMeans, Running, TypeOK
  <2> QED
    BY <2>3, <2>4, <2>5, <2>6
<1>6. ASSUME NEW k \in Keys, Fire(k), FireReturn(k) PROVE Rest'
  <2>1. /\ timer[k] = "fired"
        /\ timer' = [timer EXCEPT ![k] = "off"]
        /\ pending[k] = None \/ stopped
        /\ UNCHANGED <<pending, exec, stopped, batches, cur, stopPc>>
    BY <1>6 DEF Fire, FireReturn, stopping
  <2>2. WindowHasTimer'
    BY <2>1, <1>0, <1>r DEF WindowHasTimer, TypeOK
  <2> QED
    BY <2>1, <2>2, <1>r DEF Placed, SingleHome, StopPcMeans, IsPending, InFlush, Executing, Running
<1>7. ASSUME NEW b \in Batches, ExecuteAction(b) PROVE Rest'
  BY <1>7, <1>r DEF ExecuteAction, queue, stopping, Placed, SingleHome, WindowHasTimer,
     StopPcMeans, IsPending, InFlush, Executing, Running
<1>8. ASSUME NEW b \in Batches, ExecuteReturns(b) PROVE Rest'
  <2>1. /\ exec' = [exec EXCEPT ![b] = "none"]
        /\ UNCHANGED <<pending, timer, stopped, batches, cur, stopPc>>
    BY <1>8 DEF ExecuteReturns, queue, stopping
  <2>2. SingleHome'
    BY <2>1, <1>0, <1>r DEF SingleHome, IsPending, InFlush, Executing, TypeOK
  <2>3. StopPcMeans'
    BY <2>1, <1>0, <1>r DEF StopPcMeans, Running, TypeOK
  <2> QED
    BY <2>1, <2>2, <2>3, <1>r DEF Placed, WindowHasTimer
<1>9. CASE StopBegins
  <2>1. /\ ~stopped /\ stopped'
        /\ batches' = {b \in Batches : IsPending(b)}
        /\ pending' = [k \in Keys |-> None]
        /\ timer' = [k \in Keys |-> IF pending[k] # None /\ timer[k] = "armed"
                                    THEN "off" ELSE timer[k]]
        /\ stopPc' = IF \E b \in Batches : IsPending(b) THEN "flush" ELSE "wait"
        /\ UNCHANGED <<cur, exec>>
    BY <1>9 DEF StopBegins
  <2>2. cur = None
    BY <2>1, <1>r DEF StopPcMeans
  <2>3. Placed'
    BY <2>1 DEF Placed
  <2>4. SingleHome'
    BY <2>1, <2>2, <1>0, <1>r DEF SingleHome, IsPending, InFlush, Executing, TypeOK
  <2>5. WindowHasTimer'
    BY <2>1, <1>0, <1>r DEF WindowHasTimer, TypeOK
  <2>6. StopPcMeans'
    BY <2>1, <2>2, <1>0, <1>r DEF StopPcMeans, Running, TypeOK
  <2> QED
    BY <2>3, <2>4, <2>5, <2>6
<1>10. ASSUME NEW b \in Batches, FlushPick(b) PROVE Rest'
  <2>1. /\ stopPc = "flush"
        /\ cur = None
        /\ b \in batches
        /\ batches' = batches \ {b}
        /\ cur' = b \/ cur' = None
        /\ UNCHANGED <<pending, timer, stopped, stopPc, exec>>
    BY <1>10 DEF FlushPick, queue
  <2>2. SingleHome'
    BY <2>1, <1>0, <1>r DEF SingleHome, IsPending, InFlush, Executing, TypeOK
  <2>3. StopPcMeans'
    BY <2>1, <1>r DEF StopPcMeans, Running
  <2> QED
    BY <2>1, <2>2, <2>3, <1>r DEF Placed, WindowHasTimer
<1>11. CASE FlushStart
  <2>1. /\ stopPc = "flush"
        /\ cur \in Batches
        /\ exec' = [exec EXCEPT ![cur] = "shutdown_flush"]
        /\ cur' = None
        /\ UNCHANGED <<pending, timer, stopped, batches, stopPc>>
    BY <1>11, <1>0 DEF FlushStart, StartExecute, queue, TypeOK
  <2>2. SingleHome'
    BY <2>1, <1>0, <1>r DEF SingleHome, IsPending, InFlush, Executing, TypeOK
  <2>3. StopPcMeans'
    BY <2>1, <1>0, <1>r DEF StopPcMeans, Running, TypeOK
  <2> QED
    BY <2>1, <2>2, <2>3, <1>r DEF Placed, WindowHasTimer
<1>12. CASE FlushLoopEnds \/ FlushWait \/ StopReturns \/ ContextExpires
  <2>1. UNCHANGED <<pending, timer, stopped, batches, cur, exec>>
    BY <1>12 DEF FlushLoopEnds, FlushWait, StopReturns, ContextExpires, queue
  <2>2. StopPcMeans'
    BY <1>12, <1>0, <1>r DEF FlushLoopEnds, FlushWait, StopReturns, ContextExpires, queue,
       StopPcMeans, Running, TypeOK
  <2> QED
    BY <2>1, <2>2, <1>r DEF Placed, SingleHome, WindowHasTimer, IsPending, InFlush, Executing
<1>13. CASE UNCHANGED vars
  BY <1>13, <1>r DEF vars, Placed, SingleHome, WindowHasTimer, StopPcMeans,
     IsPending, InFlush, Executing, Running
<1> QED
  <2> HIDE DEF Rest
  <2> QED
    BY <1>1, <1>2, <1>3, <1>4, <1>5, <1>6, <1>7, <1>8, <1>9, <1>10, <1>11, <1>12, <1>13
       DEF Next, Submit, StopStep, Fire

\* The inductive invariant holds of every reachable state.
THEOREM Inductive == Spec => []IndInv
BY InitInd, NextInd, PTL DEF Spec

\* No batch is executed twice or held in two places.
THEOREM SingleHomeAlways == Spec => []SingleHome
<1>1. IndInv => SingleHome
  BY DEF IndInv
<1> QED
  BY <1>1, Inductive, PTL

\* No batch is stranded and no timer is left over.
THEOREM WindowHasTimerAlways == Spec => []WindowHasTimer
<1>1. IndInv => WindowHasTimer
  BY DEF IndInv
<1> QED
  BY <1>1, Inductive, PTL

\* When Stop has returned nothing runs and nothing is held.
THEOREM StopIsFinalAlways == Spec => []StopIsFinal
<1>1. IndInv => StopIsFinal
  <2> SUFFICES ASSUME IndInv, stopPc = "returned"
               PROVE  /\ \A b \in Batches : ~InUse(b)
                      /\ \A k \in Keys : timer[k] # "armed"
    BY DEF StopIsFinal
  <2>1. stopped /\ batches = {} /\ cur = None
        /\ Running("shutdown_flush") = {} /\ Running("window_closed") = {}
    BY DEF IndInv, StopPcMeans
  <2>2. \A k \in Keys : pending[k] = None /\ timer[k] # "armed"
    BY <2>1 DEF IndInv, WindowHasTimer
  <2>3. \A b \in Batches : exec[b] = "none"
    BY <2>1 DEF IndInv, TypeOK, Running, Reasons
  <2> QED
    BY <2>1, <2>2, <2>3, BatchAssumption DEF InUse, IsPending, InFlush, Executing
<1> QED
  BY <1>1, Inductive, PTL
-----------------------------------------------------------------------------
\* An open window's timer is never set back: a Submit into it leaves the
\* deadline alone, and only time moves it (coalescer.go:115-132).
THEOREM DeadlineIsFixed == Spec => DeadlineFixed
<1> DEFINE Kept == \A k \in Keys : pending[k] # None /\ pending'[k] # None => left'[k] <= left[k]
<1>1. ASSUME TypeOK, [Next]_vars PROVE Kept
  <2> USE <1>1, BatchAssumption
  <2>1. ASSUME NEW b \in Batches, OpenWindow(b) PROVE Kept
    BY <2>1 DEF OpenWindow, TypeOK
  <2>2. CASE Tick
    BY <2>2 DEF Tick, TypeOK
  <2>3. ASSUME UNCHANGED left PROVE Kept
    BY <2>3 DEF TypeOK
  <2>4. ASSUME NEW b \in Batches, Coalesce(b) PROVE UNCHANGED left
    BY <2>4 DEF Coalesce
  <2>5. ASSUME NEW k \in Keys, TimerExpires(k) \/ Fire(k) PROVE UNCHANGED left
    BY <2>5 DEF TimerExpires, Fire
  <2>6. ASSUME NEW b \in Batches, ExecuteAction(b) \/ ExecuteReturns(b) PROVE UNCHANGED left
    BY <2>6 DEF ExecuteAction, ExecuteReturns, queue
  <2>7. CASE StopBegins \/ StopStep \/ ContextExpires
    BY <2>3, <2>7 DEF StopBegins, StopStep, FlushPick, FlushStart, FlushLoopEnds, FlushWait,
       StopReturns, ContextExpires, queue
  <2>8. CASE UNCHANGED vars
    BY <2>3, <2>8 DEF vars
  <2> HIDE DEF Kept
  <2> QED
    BY <2>1, <2>2, <2>3, <2>4, <2>5, <2>6, <2>7, <2>8 DEF Next, Submit
<1>2. Spec => []TypeOK
  <2>1. IndInv => TypeOK
    BY DEF IndInv
  <2> QED
    BY <2>1, Inductive, PTL
<1>3. TypeOK /\ [Next]_vars => [Kept]_vars
  BY <1>1
<1> QED
  BY <1>2, <1>3, PTL DEF Spec, DeadlineFixed

-----------------------------------------------------------------------------
\* What the refinement mapping holds for a key: the map's batch until Stop, and
\* from then on the batch Stop's list or its loop has for the key.
HeldMeans ==
  /\ heldBatch \in [Keys -> Batches \cup {None}]
  /\ ~stopped => heldBatch = pending
  /\ \A b \in Batches : InFlush(b) => heldBatch[Key[b]] = b
  /\ stopped => \A k \in Keys : heldBatch[k] # None =>
                  InFlush(heldBatch[k]) /\ Key[heldBatch[k]] = k

\* The choice in the mapping is no choice: Stop never has two batches of a key.
LEMMA HeldMeaning == IndInv => HeldMeans
<1> SUFFICES ASSUME IndInv PROVE HeldMeans
  OBVIOUS
<1> USE BatchAssumption DEF IndInv
<1> DEFINE H(k, b) == InFlush(b) /\ Key[b] = k
<1>1. \A k \in Keys, b \in Batches : H(k, b) => heldBatch[k] = b
  <2> SUFFICES ASSUME NEW k \in Keys, NEW b \in Batches, H(k, b) PROVE heldBatch[k] = b
    OBVIOUS
  <2> DEFINE c == CHOOSE x \in Batches : InFlush(x) /\ Key[x] = k
  <2>1. heldBatch[k] = c
    BY DEF heldBatch
  <2>2. c \in Batches /\ H(k, c)
    OBVIOUS
  <2> QED
    BY <2>1, <2>2 DEF SingleHome
<1>2. \A k \in Keys : (\A b \in Batches : ~H(k, b)) => heldBatch[k] = pending[k]
  BY DEF heldBatch
<1>3. DOMAIN heldBatch = Keys /\ heldBatch = [k \in Keys |-> heldBatch[k]]
  BY DEF heldBatch
<1>4. heldBatch \in [Keys -> Batches \cup {None}]
  <2>1. \A k \in Keys : heldBatch[k] \in Batches \cup {None}
    BY <1>1, <1>2 DEF TypeOK
  <2> QED
    BY <1>3, <2>1
<1>5. ASSUME ~stopped PROVE heldBatch = pending
  <2>1. \A b \in Batches : ~InFlush(b)
    BY <1>5 DEF SingleHome
  <2>2. \A k \in Keys : heldBatch[k] = pending[k]
    BY <1>2, <2>1
  <2> QED
    BY <1>4, <2>2 DEF TypeOK
<1>6. ASSUME stopped, NEW k \in Keys, heldBatch[k] # None
      PROVE InFlush(heldBatch[k]) /\ Key[heldBatch[k]] = k
  <2>1. pending[k] = None
    BY <1>6 DEF WindowHasTimer
  <2>2. PICK b \in Batches : H(k, b)
    BY <1>2, <1>6, <2>1
  <2> QED
    BY <1>1, <2>2
<1> QED
  BY <1>1, <1>4, <1>5, <1>6 DEF HeldMeans

Emitting == {b \in Batches : Executing(b)}

\* Each step of the coalescer is a step of the trailing throttle or changes
\* nothing that the throttle's users see.
LEMMA StepRefines == IndInv /\ IndInv' /\ [Next]_vars => [Throttle!Next]_(Throttle!vars)
<1> SUFFICES ASSUME IndInv, IndInv', [Next]_vars PROVE [Throttle!Next]_(Throttle!vars)
  OBVIOUS
<1>0. HeldMeans /\ HeldMeans'
  <2>1. HeldMeans
    BY HeldMeaning
  <2>2. (IndInv => HeldMeans)'
    BY HeldMeaning, PTL
  <2> QED
    BY <2>1, <2>2
<1>t. TypeOK /\ TypeOK' /\ SingleHome /\ SingleHome' /\ Placed
  BY DEF IndInv
<1> USE BatchAssumption
<1> DEFINE Step == [Throttle!Next]_(Throttle!vars)
<1> SUFFICES Step
  OBVIOUS
\* Nothing held, executing, stopped or expired has changed.
<1>q. ASSUME UNCHANGED <<pending, batches, cur, stopped, expired>>, UNCHANGED Emitting PROVE Step
  <2>1. UNCHANGED heldBatch
    BY <1>q DEF heldBatch, InFlush
  <2> QED
    BY <1>q, <2>1 DEF Throttle!vars, Emitting
<1>1. ASSUME NEW b \in Batches, Submit(b) PROVE Step
  <2>1. /\ ~stopped /\ ~stopped'
        /\ ~Executing(b)
        /\ pending' = [pending EXCEPT ![Key[b]] = b]
        /\ UNCHANGED <<stopped, expired, exec>>
    BY <1>1 DEF Submit, InUse, Coalesce, OpenWindow, Accepts, stopping
  <2>2. heldBatch' = [heldBatch EXCEPT ![Key[b]] = b]
    BY <2>1, <1>0 DEF HeldMeans
  <2>3. UNCHANGED Emitting
    BY <2>1 DEF Emitting, Executing
  <2>4. Throttle!Offer(b)
    BY <2>1, <2>2, <2>3 DEF Throttle!Offer, Emitting
  <2> QED
    BY <2>4 DEF Throttle!Next
<1>2. ASSUME NEW k \in Keys, Fire(k), FireClaim(k) PROVE Step
  <2> DEFINE b == pending[k]
  <2>1. /\ ~stopped /\ ~stopped'
        /\ b # None
        /\ pending' = [pending EXCEPT ![k] = None]
        /\ exec' = [exec EXCEPT ![b] = "window_closed"]
        /\ UNCHANGED <<stopped, expired>>
    BY <1>2 DEF Fire, FireClaim, StartExecute, stopping
  <2>2. b \in Batches /\ Key[b] = k /\ ~Executing(b)
    BY <2>1, <1>t DEF TypeOK, Placed, SingleHome, IsPending
  <2>3. heldBatch[k] = b /\ heldBatch' = [heldBatch EXCEPT ![k] = None]
    BY <2>1, <1>0 DEF HeldMeans
  <2>4. Emitting' = Emitting \cup {b}
    BY <2>1, <2>2, <1>t DEF Emitting, Executing, TypeOK
  <2>5. b \notin Emitting
    BY <2>2 DEF Emitting
  <2>6. Throttle!Emit(k)
    BY <2>1, <2>3, <2>4, <2>5 DEF Throttle!Emit, Emitting
  <2> QED
    BY <2>6 DEF Throttle!Next
<1>3. ASSUME NEW b \in Batches, ExecuteReturns(b) PROVE Step
  <2>1. /\ Executing(b)
        /\ exec' = [exec EXCEPT ![b] = "none"]
        /\ UNCHANGED <<pending, batches, cur, stopped, expired>>
    BY <1>3 DEF ExecuteReturns, queue, stopping
  <2>2. UNCHANGED heldBatch
    BY <2>1 DEF heldBatch, InFlush
  <2>3. b \in Emitting /\ Emitting' = Emitting \ {b}
    BY <2>1, <1>t DEF Emitting, Executing, TypeOK
  <2>4. Throttle!Finish(b)
    BY <2>1, <2>2, <2>3 DEF Throttle!Finish, Emitting
  <2> QED
    BY <2>4 DEF Throttle!Next
<1>4. CASE StopBegins
  <2>1. /\ ~stopped /\ stopped' = TRUE
        /\ batches' = {b \in Batches : IsPending(b)}
        /\ UNCHANGED <<expired, exec>>
    BY <1>4 DEF StopBegins
  <2>2. \A k \in Keys : pending[k] # None => heldBatch'[k] = pending[k]
    <3> SUFFICES ASSUME NEW k \in Keys, pending[k] # None PROVE heldBatch'[k] = pending[k]
      OBVIOUS
    <3>1. pending[k] \in Batches /\ Key[pending[k]] = k
      BY <1>t DEF TypeOK, Placed
    <3>2. pending[k] \in batches' \/ cur' = pending[k]
      BY <2>1, <3>1 DEF InFlush, IsPending
    <3> QED
      BY <3>1, <3>2, <1>0 DEF HeldMeans, InFlush
  <2>3. \A k \in Keys : heldBatch'[k] # None => heldBatch'[k] = pending[k]
    <3> SUFFICES ASSUME NEW k \in Keys, heldBatch'[k] # None PROVE heldBatch'[k] = pending[k]
      OBVIOUS
    <3> DEFINE c == heldBatch'[k]
    <3>1. c \in Batches /\ Key[c] = k /\ (c \in batches' \/ cur' = c)
      BY <2>1, <1>0 DEF HeldMeans, InFlush
    <3>2. cur' = None
      BY <1>4 DEF StopBegins, IndInv, StopPcMeans
    <3> QED
      BY <2>1, <3>1, <3>2 DEF IsPending
  <2>4. heldBatch' = heldBatch
    <3>1. \A k \in Keys : heldBatch'[k] = pending[k]
      BY <2>2, <2>3
    <3> QED
      BY <2>1, <3>1, <1>0 DEF HeldMeans
  <2>5. UNCHANGED Emitting
    BY <2>1 DEF Emitting, Executing
  <2>6. Throttle!Close
    BY <2>1, <2>4, <2>5 DEF Throttle!Close, Emitting
  <2> QED
    BY <2>6 DEF Throttle!Next
\* Once Stop has begun, a batch that leaves its list frees the key.
<1>5. ASSUME NEW b \in Batches, stopped, UNCHANGED stopped, InFlush(b), ~InFlush(b)',
             \A c \in Batches \ {b} : InFlush(c)' <=> InFlush(c)
      PROVE  heldBatch[Key[b]] = b /\ heldBatch' = [heldBatch EXCEPT ![Key[b]] = None]
  <2>1. heldBatch[Key[b]] = b
    BY <1>5, <1>0 DEF HeldMeans
  <2>2. \A k \in Keys \ {Key[b]} : heldBatch'[k] = heldBatch[k]
    <3> SUFFICES ASSUME NEW k \in Keys, k # Key[b] PROVE heldBatch'[k] = heldBatch[k]
      OBVIOUS
    <3>1. CASE heldBatch[k] # None
      <4>1. heldBatch[k] \in Batches \ {b} /\ InFlush(heldBatch[k]) /\ Key[heldBatch[k]] = k
        BY <1>5, <3>1, <1>0 DEF HeldMeans
      <4>2. heldBatch[k] \in batches' \/ cur' = heldBatch[k]
        BY <1>5, <4>1 DEF InFlush
      <4> QED
        BY <4>1, <4>2, <1>0 DEF HeldMeans, InFlush
    <3>2. CASE heldBatch'[k] # None
      <4> DEFINE c == heldBatch'[k]
      <4>1. c \in Batches \ {b} /\ (c \in batches' \/ cur' = c) /\ Key[c] = k
        BY <1>5, <3>2, <1>0 DEF HeldMeans, InFlush
      <4>2. InFlush(c)
        BY <1>5, <4>1 DEF InFlush
      <4> QED
        BY <4>1, <4>2, <1>0 DEF HeldMeans
    <3> QED
      BY <3>1, <3>2
  <2>3. heldBatch'[Key[b]] = None
    <3> SUFFICES ASSUME heldBatch'[Key[b]] # None PROVE FALSE
      OBVIOUS
    <3> DEFINE c == heldBatch'[Key[b]]
    <3>1. c \in Batches /\ (c \in batches' \/ cur' = c) /\ Key[c] = Key[b]
      BY <1>5, <1>0 DEF HeldMeans, InFlush
    <3>2. c # b
      BY <1>5, <3>1 DEF InFlush
    <3>3. InFlush(c)
      BY <1>5, <3>1, <3>2 DEF InFlush
    <3> QED
      BY <1>5, <3>1, <3>2, <3>3, <1>t DEF SingleHome
  <2> QED
    BY <2>1, <2>2, <2>3, <1>0 DEF HeldMeans
<1>6. ASSUME NEW b \in Batches, FlushPick(b) PROVE Step
  <2>1. /\ stopped
        /\ cur = None
        /\ b \in batches
        /\ batches' = batches \ {b}
        /\ cur' = IF expired THEN None ELSE b
        /\ UNCHANGED <<pending, stopped, expired, exec>>
    BY <1>6 DEF FlushPick, queue, IndInv, StopPcMeans
  <2>2. UNCHANGED Emitting
    BY <2>1 DEF Emitting, Executing
  <2>3. CASE expired
    <3>1. /\ InFlush(b) /\ ~InFlush(b)'
          /\ \A c \in Batches \ {b} : InFlush(c)' <=> InFlush(c)
      BY <2>1, <2>3 DEF InFlush
    <3>2. heldBatch[Key[b]] = b /\ heldBatch' = [heldBatch EXCEPT ![Key[b]] = None]
      BY <1>5, <2>1, <3>1
    <3>3. Throttle!Discard(Key[b])
      BY <2>1, <2>2, <2>3, <3>2 DEF Throttle!Discard, Emitting
    <3> QED
      BY <3>3 DEF Throttle!Next
  <2>4. CASE ~expired
    <3>1. \A c \in Batches : InFlush(c)' <=> InFlush(c)
      BY <2>1, <2>4 DEF InFlush
    <3>2. \A k \in Keys : heldBatch'[k] = heldBatch[k]
      <4> SUFFICES ASSUME NEW k \in Keys PROVE heldBatch'[k] = heldBatch[k]
        OBVIOUS
      <4>1. CASE heldBatch[k] # None
        <5>1. heldBatch[k] \in Batches /\ InFlush(heldBatch[k]) /\ Key[heldBatch[k]] = k
          BY <2>1, <4>1, <1>0 DEF HeldMeans
        <5>2. heldBatch[k] \in batches' \/ cur' = heldBatch[k]
          BY <3>1, <5>1 DEF InFlush
        <5> QED
          BY <5>1, <5>2, <1>0 DEF HeldMeans, InFlush
      <4>2. CASE heldBatch'[k] # None
        <5> DEFINE c == heldBatch'[k]
        <5>1. c \in Batches /\ (c \in batches' \/ cur' = c) /\ Key[c] = k
          BY <2>1, <4>2, <1>0 DEF HeldMeans, InFlush
        <5>2. InFlush(c)
          BY <3>1, <5>1 DEF InFlush
        <5> QED
          BY <5>1, <5>2, <1>0 DEF HeldMeans
      <4> QED
        BY <4>1, <4>2
    <3>3. UNCHANGED heldBatch
      BY <3>2, <1>0 DEF HeldMeans
    <3> QED
      BY <2>1, <2>2, <3>3 DEF Throttle!vars, Emitting
  <2> QED
    BY <2>3, <2>4
<1>7. CASE FlushStart
  <2>1. /\ stopped
        /\ cur \in Batches
        /\ exec' = [exec EXCEPT ![cur] = "shutdown_flush"]
        /\ cur' = None
        /\ UNCHANGED <<stopped, batches, expired>>
    BY <1>7, <1>t DEF FlushStart, StartExecute, queue, TypeOK, IndInv, StopPcMeans
  <2>2. /\ InFlush(cur) /\ ~Executing(cur) /\ cur \notin batches
    BY <2>1, <1>t DEF InFlush, SingleHome
  <2>3. \A c \in Batches : (c \in batches' \/ cur' = c) <=> (c # cur /\ (c \in batches \/ cur = c))
    BY <2>1, <2>2
  <2>4. PICK b \in Batches : b = cur
    BY <2>1
  <2>5. heldBatch[Key[b]] = b /\ heldBatch' = [heldBatch EXCEPT ![Key[b]] = None]
    <3>1. ~InFlush(b)' /\ InFlush(b) /\ \A c \in Batches \ {b} : InFlush(c)' <=> InFlush(c)
      BY <2>2, <2>3, <2>4 DEF InFlush
    <3> QED
      BY <1>5, <2>1, <3>1
  <2>6. Emitting' = Emitting \cup {b} /\ b \notin Emitting
    BY <2>1, <2>2, <2>4, <1>t DEF Emitting, Executing, TypeOK
  <2>7. Throttle!Emit(Key[b])
    BY <2>1, <2>5, <2>6 DEF Throttle!Emit, Emitting
  <2> QED
    BY <2>7 DEF Throttle!Next
<1>8. CASE ContextExpires
  <2>1. /\ ~expired /\ expired' = TRUE
        /\ UNCHANGED <<pending, batches, cur, stopped, exec>>
    BY <1>8 DEF ContextExpires, queue
  <2>2. UNCHANGED heldBatch /\ UNCHANGED Emitting
    BY <2>1 DEF heldBatch, InFlush, Emitting, Executing
  <2>3. Throttle!Expire
    BY <2>1, <2>2 DEF Throttle!Expire, Emitting
  <2> QED
    BY <2>3 DEF Throttle!Next
<1>9. CASE \/ Tick
           \/ \E k \in Keys : TimerExpires(k) \/ (Fire(k) /\ FireReturn(k))
           \/ \E b \in Batches : ExecuteAction(b)
           \/ FlushLoopEnds \/ FlushWait \/ StopReturns
           \/ UNCHANGED vars
  <2>1. UNCHANGED <<pending, batches, cur, stopped, expired, exec>>
    BY <1>9 DEF Tick, TimerExpires, Fire, FireReturn, ExecuteAction, FlushLoopEnds, FlushWait,
       StopReturns, vars, queue, stopping
  <2>2. UNCHANGED Emitting
    BY <2>1 DEF Emitting, Executing
  <2> QED
    BY <1>q, <2>1, <2>2
<1> QED
  <2> HIDE DEF Step
  <2>1. ASSUME NEW k \in Keys, Fire(k) PROVE Step
    <3>1. FireClaim(k) \/ FireReturn(k)
      BY <2>1 DEF Fire
    <3> QED
      BY <1>2, <1>9, <2>1, <3>1
  <2> QED
    BY <1>1, <1>3, <1>4, <1>6, <1>7, <1>8, <1>9, <2>1 DEF Next, StopStep

\* The coalescer keeps the trailing throttle's promise: the newest batch of a
\* key is emitted once, and lost only by a Stop past its deadline.
THEOREM CoalescerImplements == Spec => Implements
<1>1. Init => Throttle!Init
  <2> SUFFICES ASSUME Init PROVE Throttle!Init
    OBVIOUS
  <2>1. IndInv /\ ~stopped /\ expired = FALSE /\ stopped = FALSE
    BY InitInd DEF Init
  <2>2. heldBatch = [k \in Keys |-> None]
    BY <2>1, HeldMeaning DEF Init, HeldMeans
  <2>3. {b \in Batches : Executing(b)} = {}
    BY DEF Init, Executing
  <2> QED
    BY <2>1, <2>2, <2>3 DEF Throttle!Init
<1> QED
  BY <1>1, StepRefines, Inductive, PTL DEF Spec, Implements, Throttle!Spec

-----------------------------------------------------------------------------
\* What each step does to the key's window: only Tick, a Submit, a timer and
\* its callback, and Stop touch it.
Quiet == UNCHANGED <<pending, left, timer>>

\* The other steps leave the queue alone.
LEMMA QuietSteps ==
  ASSUME [Next]_vars
  PROVE  \/ \E b \in Batches : Coalesce(b) \/ OpenWindow(b)
         \/ Tick
         \/ \E k \in Keys : TimerExpires(k) \/ Fire(k)
         \/ StopBegins
         \/ Quiet
BY DEF Next, Submit, StopStep, vars, Quiet, ExecuteAction, ExecuteReturns, FlushPick, FlushStart,
   FlushLoopEnds, FlushWait, StopReturns, ContextExpires, queue

\* A longer time is over as well.
LEMMA OverStays ==
  ASSUME NEW k \in Keys, NEW m \in Nat, NEW n \in Nat, m <= n, WindowOver(k, m)
  PROVE  WindowOver(k, n)
<1>1. PICK b \in Batches : Key[b] = k /\ Window[b] <= m
  BY DEF WindowOver
<1>2. Window[b] \in Nat
  BY BatchAssumption
<1>3. Window[b] <= n
  BY <1>1, <1>2
<1> QED
  BY <1>1, <1>3 DEF WindowOver

\* Every window fits the observer's count.
LEMMA LongestOver ==
  ASSUME NEW k \in Keys, NEW m, WindowOver(k, m)
  PROVE  WindowOver(k, Longest)
BY LongestAssumption DEF WindowOver

\* The observer's count after a step that is no claim of the key's batch.
LEMMA SinceStep ==
  ASSUME TypeOK, SinceMeans, since' = [k \in Keys |-> SinceNext(k)], NEW k \in Keys
  PROVE  /\ since'[k] \in 0 .. Longest
         /\ ~Claimed(k) => /\ since[k] <= since'[k]
                           /\ Tick => since'[k] = since[k] + 1 \/ since'[k] = Longest
<1>1. since[k] \in 0 .. Longest /\ Longest \in Nat
  BY LongestAssumption DEF SinceMeans
<1>2. since'[k] = SinceNext(k)
  OBVIOUS
<1>3. CASE Claimed(k)
  <2>1. SinceNext(k) = 0
    BY <1>3 DEF SinceNext
  <2> QED
    BY <1>1, <1>2, <1>3, <2>1
<1>4. CASE ~Claimed(k) /\ Tick /\ since[k] < Longest
  <2>1. SinceNext(k) = since[k] + 1
    BY <1>4 DEF SinceNext
  <2> QED
    BY <1>1, <1>2, <1>4, <2>1
<1>5. CASE ~Claimed(k) /\ ~(Tick /\ since[k] < Longest)
  <2>1. SinceNext(k) = since[k]
    BY <1>5 DEF SinceNext
  <2> QED
    BY <1>1, <1>2, <1>5, <2>1
<1> QED
  BY <1>3, <1>4, <1>5

\* A window goes on, is opened, or is closed, whatever the goroutines do.
LEMMA SinceInd ==
  ASSUME IndInv, IndInv', SinceMeans, [Next]_vars, since' = [k \in Keys |-> SinceNext(k)]
  PROVE  SinceMeans' /\ \A k \in Keys : Claimed(k) => WindowOver(k, since[k])
<1> USE BatchAssumption
<1>0. TypeOK /\ TypeOK' /\ Longest \in Nat
  BY LongestAssumption DEF IndInv
<1>1. /\ \A k \in Keys : since'[k] \in 0 .. Longest
      /\ \A k \in Keys : ~Claimed(k) => since[k] <= since'[k]
      /\ \A k \in Keys : ~Claimed(k) /\ Tick => since'[k] = since[k] + 1 \/ since'[k] = Longest
  BY <1>0, SinceStep
<1>2. since' \in [Keys -> 0 .. Longest]
  <2>1. since' = [k \in Keys |-> since'[k]]
    OBVIOUS
  <2> QED
    BY <1>1, <2>1
<1>3. \A k \in Keys : /\ left[k] \in Nat /\ left'[k] \in Nat
                      /\ since[k] \in Nat /\ since'[k] \in Nat
  BY <1>0, <1>1 DEF TypeOK, SinceMeans
\* It is enough to look at one key.
<1> DEFINE Open(k) == pending'[k] # None => WindowOver(k, since'[k] + left'[k])
           AtEnd(k) == timer'[k] = "fired" => left'[k] = 0
           InTime(k) == Claimed(k) => WindowOver(k, since[k])
           Goal(k) == Open(k) /\ AtEnd(k) /\ InTime(k)
<1>4. ASSUME NEW k \in Keys,
             pending[k] # None \/ pending'[k] = None, pending[k] = None \/ pending'[k] # None,
             left'[k] = left[k], timer'[k] = timer[k] \/ timer'[k] # "fired" \/ left[k] = 0
      PROVE  Goal(k)
  <2>1. ~Claimed(k)
    BY <1>4 DEF Claimed
  <2>2. AtEnd(k)
    BY <1>4 DEF SinceMeans
  <2>3. ASSUME pending'[k] # None PROVE WindowOver(k, since'[k] + left'[k])
    <3>1. WindowOver(k, since[k] + left[k])
      BY <1>4, <2>3 DEF SinceMeans
    <3>2. since[k] + left[k] \in Nat /\ since'[k] + left'[k] \in Nat
          /\ since[k] + left[k] <= since'[k] + left'[k]
      BY <1>1, <1>3, <1>4, <2>1
    <3> QED
      BY <3>1, <3>2, OverStays
  <2> QED
    BY <2>1, <2>2, <2>3
<1>5. ASSUME NEW b \in Batches, Coalesce(b), NEW k \in Keys PROVE Goal(k)
  <2>1. /\ pending[Key[b]] # None /\ pending' = [pending EXCEPT ![Key[b]] = b]
        /\ left' = left /\ timer' = timer
    BY <1>5 DEF Coalesce
  <2>2. pending'[k] = IF k = Key[b] THEN b ELSE pending[k]
    BY <1>0, <2>1 DEF TypeOK
  <2> HIDE DEF Goal
  <2> QED
    BY <1>4, <2>1, <2>2
<1>6. ASSUME NEW b \in Batches, OpenWindow(b), NEW k \in Keys PROVE Goal(k)
  <2>1. /\ pending' = [pending EXCEPT ![Key[b]] = b]
        /\ left' = [left EXCEPT ![Key[b]] = Window[b]]
        /\ timer' = [timer EXCEPT ![Key[b]] = "armed"]
    BY <1>6 DEF OpenWindow
  <2>2. CASE k = Key[b]
    <3>1. pending'[k] = b /\ left'[k] = Window[b] /\ timer'[k] = "armed" /\ b # None
      BY <1>0, <2>1, <2>2 DEF TypeOK
    <3>2. Window[b] <= since'[k] + left'[k]
      BY <1>3, <3>1
    <3>3. WindowOver(k, since'[k] + left'[k])
      BY <2>2, <3>2 DEF WindowOver
    <3> QED
      BY <3>1, <3>3 DEF Claimed
  <2>3. CASE k # Key[b]
    <3>1. pending'[k] = pending[k] /\ left'[k] = left[k] /\ timer'[k] = timer[k]
      BY <1>0, <2>1, <2>3 DEF TypeOK
    <3> HIDE DEF Goal
    <3> QED
      BY <1>4, <3>1
  <2> QED
    BY <2>2, <2>3
<1>7. ASSUME Tick, NEW k \in Keys PROVE Goal(k)
  <2>1. /\ pending' = pending /\ timer' = timer
        /\ left'[k] = IF timer[k] = "armed" /\ left[k] > 0 THEN left[k] - 1 ELSE left[k]
    BY <1>7 DEF Tick
  <2>2. CASE timer[k] = "armed" /\ left[k] > 0
    <3>1. ~Claimed(k) /\ AtEnd(k)
      BY <2>1, <2>2 DEF Claimed
    <3>2. ASSUME pending'[k] # None PROVE WindowOver(k, since'[k] + left'[k])
      <4>1. WindowOver(k, since[k] + left[k])
        BY <2>1, <3>2 DEF SinceMeans
      <4>2. CASE since'[k] = since[k] + 1
        <5>1. since'[k] + left'[k] = since[k] + left[k]
          BY <1>3, <2>1, <2>2, <4>2
        <5> QED
          BY <4>1, <5>1
      <4>3. CASE since'[k] = Longest
        <5>1. WindowOver(k, Longest)
          BY <4>1, LongestOver
        <5>2. Longest <= since'[k] + left'[k] /\ since'[k] + left'[k] \in Nat
          BY <1>0, <1>3, <4>3
        <5> QED
          BY <1>0, <5>1, <5>2, OverStays
      <4> QED
        BY <1>1, <1>7, <3>1, <4>2, <4>3
    <3> QED
      BY <3>1, <3>2
  <2>3. CASE ~(timer[k] = "armed" /\ left[k] > 0)
    <3>1. left'[k] = left[k] /\ pending'[k] = pending[k] /\ timer'[k] = timer[k]
      BY <2>1, <2>3
    <3> HIDE DEF Goal
    <3> QED
      BY <1>4, <3>1
  <2> QED
    BY <2>2, <2>3
<1>8. ASSUME NEW j \in Keys, TimerExpires(j), NEW k \in Keys PROVE Goal(k)
  <2>1. left[j] = 0 /\ timer' = [timer EXCEPT ![j] = "fired"] /\ pending' = pending /\ left' = left
    BY <1>8 DEF TimerExpires
  <2>2. timer'[k] = timer[k] \/ left[k] = 0
    BY <1>0, <2>1 DEF TypeOK
  <2> HIDE DEF Goal
  <2> QED
    BY <1>4, <2>1, <2>2
<1>9. ASSUME NEW j \in Keys, Fire(j), NEW k \in Keys PROVE Goal(k)
  <2>1. timer[j] = "fired" /\ timer' = [timer EXCEPT ![j] = "off"] /\ left' = left
    BY <1>9 DEF Fire
  <2>2. timer'[k] = IF k = j THEN "off" ELSE timer[k]
    BY <1>0, <2>1 DEF TypeOK
  <2>3. CASE FireReturn(j) \/ k # j
    <3>1. pending'[k] = pending[k]
      BY <1>0, <1>9, <2>3 DEF Fire, FireClaim, FireReturn, TypeOK
    <3> HIDE DEF Goal
    <3> QED
      BY <1>4, <2>1, <2>2, <3>1
  <2>4. CASE FireClaim(j) /\ k = j
    <3>1. pending[k] # None /\ pending'[k] = None
      BY <1>0, <2>4 DEF FireClaim, TypeOK
    <3>2. left[k] = 0
      BY <2>1, <2>4 DEF SinceMeans
    <3>3. WindowOver(k, since[k] + left[k]) /\ since[k] + left[k] = since[k]
      BY <1>3, <3>1, <3>2 DEF SinceMeans
    <3>4. WindowOver(k, since[k])
      BY <3>3
    <3> QED
      BY <2>2, <2>4, <3>1, <3>4
  <2> QED
    BY <1>9, <2>3, <2>4 DEF Fire
<1>10. ASSUME StopBegins, NEW k \in Keys PROVE Goal(k)
  <2>1. /\ stopped' /\ pending' = [i \in Keys |-> None] /\ left' = left
        /\ timer'[k] = timer[k] \/ timer'[k] = "off"
    BY <1>10 DEF StopBegins
  <2>2. ~Claimed(k) /\ pending'[k] = None
    BY <2>1 DEF Claimed
  <2>3. AtEnd(k)
    BY <2>1 DEF SinceMeans
  <2> QED
    BY <2>2, <2>3
<1>11. ASSUME Quiet, NEW k \in Keys PROVE Goal(k)
  <2>1. pending' = pending /\ left' = left /\ timer' = timer
    BY <1>11 DEF Quiet
  <2> HIDE DEF Goal
  <2> QED
    BY <1>4, <2>1
<1>12. \A k \in Keys : Goal(k)
  <2> HIDE DEF Goal
  <2> QED
    BY <1>5, <1>6, <1>7, <1>8, <1>9, <1>10, <1>11, QuietSteps
<1>13. SinceMeans'
  BY <1>2, <1>12 DEF SinceMeans, WindowOver
<1> QED
  BY <1>12, <1>13

\* The observer starts when a window could have been closed long ago.
LEMMA SinceInit == ObservedInit => SinceMeans
BY LongestAssumption DEF ObservedInit, Init, SinceMeans

\* ObservedSpec => WindowKept: a key emits at most once per window and Submits
\* never move a deadline, for any keys, batches and windows (coalescer.go:37-42
\* and 105-132).
THEOREM WindowAlwaysKept == ObservedSpec => WindowKept
<1>1. ObservedSpec => Spec
  <2>1. ObservedInit => Init
    BY DEF ObservedInit
  <2>2. [ObservedNext]_observedVars => [Next]_vars
    BY DEF ObservedNext, observedVars
  <2> QED
    BY <2>1, <2>2, PTL DEF ObservedSpec, Spec
<1>2. ObservedSpec => []IndInv
  BY <1>1, Inductive, PTL
<1>3. IndInv /\ IndInv' /\ SinceMeans /\ [ObservedNext]_observedVars => SinceMeans'
  <2> SUFFICES ASSUME IndInv, IndInv', SinceMeans, [ObservedNext]_observedVars PROVE SinceMeans'
    OBVIOUS
  <2>1. CASE ObservedNext
    BY <2>1, SinceInd DEF ObservedNext
  <2>2. CASE UNCHANGED observedVars
    BY <2>2 DEF observedVars, vars, SinceMeans, WindowOver
  <2> QED
    BY <2>1, <2>2
<1>4. ObservedSpec => []SinceMeans
  BY <1>2, <1>3, SinceInit, PTL DEF ObservedSpec
<1>5. IndInv /\ IndInv' /\ SinceMeans /\ [ObservedNext]_observedVars
        => [\A k \in Keys : Claimed(k) => WindowOver(k, since[k])]_observedVars
  BY SinceInd DEF ObservedNext
<1>6. ObservedSpec => OncePerWindow
  BY <1>2, <1>4, <1>5, PTL DEF ObservedSpec, OncePerWindow
<1>7. ObservedSpec => DeadlineFixed
  BY <1>1, DeadlineIsFixed, PTL
<1> QED
  BY <1>6, <1>7 DEF WindowKept
=============================================================================
