----------------------------- MODULE Coalescer ------------------------------
(***************************************************************************)
(* internal/deferred/coalescer.go: trailing throttle batches.  Submit, the *)
(* timer callback fire and Stop are interleaved at the granularity of the  *)
(* code's critical sections on c.mu; an execution runs outside the lock,   *)
(* one action at a time.                                                   *)
(*                                                                         *)
(* A batch identifier is reused once the batch has left the coalescer, so  *)
(* behaviours are infinite while the state space stays finite.  Time is    *)
(* the number of ticks a window still has to run (left).                   *)
(***************************************************************************)
EXTENDS Naturals, FiniteSets

CONSTANTS Keys,              \* throttle keys
          Batches,           \* DeferredBatch identifiers
          Key,               \* batch.Key
          Window,            \* batch.Window, in ticks
          Actions,           \* len(batch.Actions)
          FlushConcurrency,  \* flushConcurrency
          None               \* no batch

ASSUME BatchAssumption ==
  /\ Key \in [Batches -> Keys]
  /\ Window \in [Batches -> Nat \ {0}]
  /\ Actions \in [Batches -> Nat]
  /\ None \notin Batches
ASSUME FlushAssumption == FlushConcurrency \in Nat \ {0}

VARIABLES pending,   \* c.pending: per key, the entry's batch or None
          left,      \* per key, ticks before the entry's timer expires
          timer,     \* per key, the state of the AfterFunc timer
          stopped,   \* c.stopped
          batches,   \* Stop's local list, the part not yet looked at
          cur,       \* the batch Stop's loop holds while it waits for sem
          stopPc,    \* where Stop is
          expired,   \* Stop's ctx has expired
          exec,      \* per batch, why execute is running it
          todo       \* per batch, the actions execute has still to run

queue == <<pending, left, timer>>
stopping == <<stopped, batches, cur, stopPc, expired>>
vars == <<pending, left, timer, stopped, batches, cur, stopPc, expired, exec, todo>>

\* "fired" is a callback goroutine that has not yet taken c.mu.
TimerStates == {"off", "armed", "fired"}
StopPcs == {"running", "flush", "flushWait", "wait", "returned"}
Reasons == {"none", "window_closed", "shutdown_flush"}

TypeOK ==
  /\ pending \in [Keys -> Batches \cup {None}]
  /\ left \in [Keys -> Nat]
  /\ timer \in [Keys -> TimerStates]
  /\ stopped \in BOOLEAN
  /\ batches \in SUBSET Batches
  /\ cur \in Batches \cup {None}
  /\ stopPc \in StopPcs
  /\ expired \in BOOLEAN
  /\ exec \in [Batches -> Reasons]
  /\ todo \in [Batches -> Nat]

Init ==
  /\ pending = [k \in Keys |-> None]
  /\ left = [k \in Keys |-> 0]
  /\ timer = [k \in Keys |-> "off"]
  /\ stopped = FALSE
  /\ batches = {}
  /\ cur = None
  /\ stopPc = "running"
  /\ expired = FALSE
  /\ exec = [b \in Batches |-> "none"]
  /\ todo = [b \in Batches |-> 0]

-----------------------------------------------------------------------------
\* The places a batch can be in.
IsPending(b) == pending[Key[b]] = b
InFlush(b) == b \in batches \/ cur = b
Executing(b) == exec[b] # "none"
InUse(b) == IsPending(b) \/ InFlush(b) \/ Executing(b)

Running(reason) == {b \in Batches : exec[b] = reason}

-----------------------------------------------------------------------------
\* Submit: an empty batch and a stopped coalescer return without effect.
Accepts(b) == Actions[b] > 0 /\ ~stopped

\* Mutant: each Submit restarts the timer.
CoalesceRestarts(b) ==
  LET k == Key[b] IN
  /\ Accepts(b)
  /\ pending[k] # None
  /\ pending' = [pending EXCEPT ![k] = b]
  /\ left' = [left EXCEPT ![k] = Window[b]]
  /\ timer' = [timer EXCEPT ![k] = "armed"]
  /\ UNCHANGED <<exec, todo, stopping>>

\* A window is open for the key: the batch is replaced, the deadline is not.
Coalesce(b) ==
  LET k == Key[b] IN
  /\ Accepts(b)
  /\ pending[k] # None
  /\ pending' = [pending EXCEPT ![k] = b]
  /\ UNCHANGED <<left, timer, exec, todo, stopping>>

OpenWindow(b) ==
  LET k == Key[b] IN
  /\ Accepts(b)
  /\ pending[k] = None
  /\ pending' = [pending EXCEPT ![k] = b]
  /\ left' = [left EXCEPT ![k] = Window[b]]
  /\ timer' = [timer EXCEPT ![k] = "armed"]
  /\ UNCHANGED <<exec, todo, stopping>>

Submit(b) == ~InUse(b) /\ (Coalesce(b) \/ OpenWindow(b))

-----------------------------------------------------------------------------
\* The Go runtime's timers: time passes, and a timer whose time has come
\* starts its callback.
Tick ==
  /\ \E k \in Keys : timer[k] = "armed" /\ left[k] > 0
  /\ left' = [k \in Keys |-> IF timer[k] = "armed" /\ left[k] > 0
                             THEN left[k] - 1 ELSE left[k]]
  /\ UNCHANGED <<pending, timer, exec, todo, stopping>>

TimerExpires(k) ==
  /\ timer[k] = "armed"
  /\ left[k] = 0
  /\ timer' = [timer EXCEPT ![k] = "fired"]
  /\ UNCHANGED <<pending, left, exec, todo, stopping>>

\* execute begins: every action of the batch is still to be run.
StartExecute(b, reason) ==
  /\ exec' = [exec EXCEPT ![b] = reason]
  /\ todo' = [todo EXCEPT ![b] = Actions[b]]

\* The callback's critical section finds its entry and claims it ...
FireClaim(k) ==
  /\ pending[k] # None
  /\ ~stopped
  /\ pending' = [pending EXCEPT ![k] = None]
  /\ StartExecute(pending[k], "window_closed")

\* ... or returns, because Stop has claimed it.
FireReturn(k) ==
  /\ pending[k] = None \/ stopped
  /\ UNCHANGED <<pending, exec, todo>>

Fire(k) ==
  /\ timer[k] = "fired"
  /\ timer' = [timer EXCEPT ![k] = "off"]
  /\ FireClaim(k) \/ FireReturn(k)
  /\ UNCHANGED <<left, stopping>>

-----------------------------------------------------------------------------
\* One action is executed; an error is logged and the next one follows.
ExecuteAction(b) ==
  /\ Executing(b)
  /\ todo[b] > 0
  /\ todo' = [todo EXCEPT ![b] = @ - 1]
  /\ UNCHANGED <<queue, exec, stopping>>

\* execute returns: wg.Done, or flushWg.Done and the semaphore's slot.
ExecuteReturns(b) ==
  /\ Executing(b)
  /\ todo[b] = 0
  /\ exec' = [exec EXCEPT ![b] = "none"]
  /\ UNCHANGED <<queue, todo, stopping>>

-----------------------------------------------------------------------------
\* Mutant: Stop copies the pending entries and leaves them in the map.
StopKeepsPending ==
  /\ ~stopped
  /\ stopped' = TRUE
  /\ batches' = {b \in Batches : IsPending(b)}
  /\ stopPc' = IF \E b \in Batches : IsPending(b) THEN "flush" ELSE "wait"
  /\ UNCHANGED <<queue, cur, expired, exec, todo>>

\* Stop's critical section: timers are stopped (one that has fired stays
\* so), and everything pending becomes Stop's own.
StopBegins ==
  /\ ~stopped
  /\ stopped' = TRUE
  /\ batches' = {b \in Batches : IsPending(b)}
  /\ pending' = [k \in Keys |-> None]
  /\ timer' = [k \in Keys |-> IF pending[k] # None /\ timer[k] = "armed"
                              THEN "off" ELSE timer[k]]
  /\ stopPc' = IF \E b \in Batches : IsPending(b) THEN "flush" ELSE "wait"
  /\ UNCHANGED <<left, cur, expired, exec, todo>>

\* Mutant: a batch that finds every slot taken is dropped.
FlushPickNoWait(b) ==
  /\ stopPc = "flush"
  /\ cur = None
  /\ b \in batches
  /\ batches' = batches \ {b}
  /\ cur' = IF expired \/ Cardinality(Running("shutdown_flush")) = FlushConcurrency
            THEN None ELSE b
  /\ UNCHANGED <<queue, stopped, stopPc, expired, exec, todo>>

\* The loop looks at ctx before it waits for a slot, not after.
FlushPick(b) ==
  /\ stopPc = "flush"
  /\ cur = None
  /\ b \in batches
  /\ batches' = batches \ {b}
  /\ cur' = IF expired THEN None ELSE b
  /\ UNCHANGED <<queue, stopped, stopPc, expired, exec, todo>>

FlushStart ==
  /\ stopPc = "flush"
  /\ cur # None
  /\ Cardinality(Running("shutdown_flush")) < FlushConcurrency
  /\ StartExecute(cur, "shutdown_flush")
  /\ cur' = None
  /\ UNCHANGED <<queue, stopped, batches, stopPc, expired>>

FlushLoopEnds ==
  /\ stopPc = "flush"
  /\ batches = {}
  /\ cur = None
  /\ stopPc' = "flushWait"
  /\ UNCHANGED <<queue, stopped, batches, cur, expired, exec, todo>>

\* flushWg.Wait()
FlushWait ==
  /\ stopPc = "flushWait"
  /\ Running("shutdown_flush") = {}
  /\ stopPc' = "wait"
  /\ UNCHANGED <<queue, stopped, batches, cur, expired, exec, todo>>

\* c.wg.Wait(), which ctx does not bound, and Stop returns.
StopReturns ==
  /\ stopPc = "wait"
  /\ Running("window_closed") = {}
  /\ stopPc' = "returned"
  /\ UNCHANGED <<queue, stopped, batches, cur, expired, exec, todo>>

ContextExpires ==
  /\ ~expired
  /\ expired' = TRUE
  /\ UNCHANGED <<queue, stopped, batches, cur, stopPc, exec, todo>>

StopStep ==
  \/ \E b \in Batches : FlushPick(b)
  \/ FlushStart
  \/ FlushLoopEnds
  \/ FlushWait
  \/ StopReturns

Next ==
  \/ \E b \in Batches : Submit(b)
  \/ Tick
  \/ \E k \in Keys : TimerExpires(k)
  \/ \E k \in Keys : Fire(k)
  \/ \E b \in Batches : ExecuteAction(b)
  \/ \E b \in Batches : ExecuteReturns(b)
  \/ StopBegins
  \/ StopStep
  \/ ContextExpires

Spec == Init /\ [][Next]_vars

\* Timers fire and their goroutines get c.mu (a Go mutex does not starve a
\* waiter), every action returns because its context or its client's own
\* timeout ends it, and Stop's loop proceeds.  Neither a Submit, nor a Stop,
\* nor the expiry of its context is ever due.
Fairness ==
  /\ WF_vars(Tick)
  /\ \A k \in Keys : WF_vars(TimerExpires(k)) /\ WF_vars(Fire(k))
  /\ \A b \in Batches : WF_vars(ExecuteAction(b)) /\ WF_vars(ExecuteReturns(b))
  /\ WF_vars(StopStep)

FairSpec == Spec /\ Fairness

-----------------------------------------------------------------------------
\* A batch is in one place only: replaced, claimed by fire and collected by
\* Stop exclude each other, so no batch is executed twice and no key has two
\* batches waiting (coalescer.go:124-139 against 183-197).
SingleHome ==
  /\ \A b \in Batches :
       /\ IsPending(b) => ~InFlush(b) /\ ~Executing(b)
       /\ InFlush(b) => ~Executing(b) /\ stopped
       /\ cur = b => b \notin batches
  /\ \A b, c \in Batches : InFlush(b) /\ InFlush(c) /\ Key[b] = Key[c] => b = c

\* Until Stop, a key has a live timer exactly when it holds a batch: no batch
\* is stranded without a timer to close its window, and no callback is left
\* over that would close the next window early (coalescer.go:115-132).
WindowHasTimer ==
  \A k \in Keys : IF stopped THEN pending[k] = None /\ timer[k] # "armed"
                  ELSE pending[k] # None <=> timer[k] # "off"

\* Once Stop has returned nothing of the coalescer's runs or is held, so the
\* transport underneath may close ("It must run before the underlying
\* transport closes", coalescer.go:54-56 and 177-179).
StopIsFinal ==
  stopPc = "returned" =>
    /\ \A b \in Batches : ~InUse(b)
    /\ \A k \in Keys : timer[k] # "armed"

\* A window never gets longer: "later Submits within that window replace the
\* pending batch without extending the deadline" (coalescer.go:37-42).
DeadlineFixed ==
  [][\A k \in Keys : pending[k] # None /\ pending'[k] # None
                       => left'[k] <= left[k]]_vars

\* "A continuously busy key emits once per window instead of starving
\* forever": whatever is submitted, an open window closes.
WindowCloses == \A k \in Keys : pending[k] # None ~> pending[k] = None

\* Stop comes to an end: nobody waits for a slot, flushWg or wg forever.
StopEnds == stopped ~> stopPc = "returned"

\* Neither a window nor a Stop lasts forever.
AllEnds == WindowCloses /\ StopEnds

\* The coalescer implements the trailing throttle's promise: a key's batch is
\* held in the map or, during Stop, in Stop's list; it is emitted once, and
\* dropped only by a Stop whose context has expired.
heldBatch ==
  [k \in Keys |-> IF \E b \in Batches : InFlush(b) /\ Key[b] = k
                  THEN CHOOSE b \in Batches : InFlush(b) /\ Key[b] = k
                  ELSE pending[k]]

Throttle == INSTANCE TrailingThrottle WITH
  held <- heldBatch, emitting <- {b \in Batches : Executing(b)}, closed <- stopped

Implements == Throttle!Spec

-----------------------------------------------------------------------------
\* The inductive strengthening of the invariants above: an entry is filed
\* under its batch's key, and Stop's program counter says what Stop may still
\* hold and which executions may still run.
Placed == \A k \in Keys : pending[k] # None => Key[pending[k]] = k

StopPcMeans ==
  /\ stopPc = "running" <=> ~stopped
  /\ stopPc # "flush" => batches = {} /\ cur = None
  /\ stopPc \notin {"flush", "flushWait"} => Running("shutdown_flush") = {}
  /\ stopPc = "returned" => Running("window_closed") = {}

IndInv == TypeOK /\ Placed /\ SingleHome /\ WindowHasTimer /\ StopPcMeans
=============================================================================
