------------------------- MODULE CoalescerObserved --------------------------
(***************************************************************************)
(* The coalescer with an observer, who counts for each key the ticks since *)
(* its last window closed, up to the longest window.                       *)
(***************************************************************************)
EXTENDS Coalescer

CONSTANT Longest  \* bound on the observer's count
ASSUME LongestAssumption == Longest \in Nat /\ \A b \in Batches : Window[b] <= Longest

VARIABLE since

\* The callback claims the key's batch.
Claimed(k) == pending[k] # None /\ pending'[k] = None /\ ~stopped'

SinceNext(k) ==
  IF Claimed(k) THEN 0
  ELSE IF Tick /\ since[k] < Longest THEN since[k] + 1
  ELSE since[k]

observedVars == <<vars, since>>

ObservedInit == Init /\ since = [k \in Keys |-> Longest]
ObservedNext == Next /\ since' = [k \in Keys |-> SinceNext(k)]
ObservedSpec == ObservedInit /\ [][ObservedNext]_observedVars /\ Fairness

\* As long ago as the shortest window of the key's batches.
WindowOver(k, ticks) == \E b \in Batches : Key[b] = k /\ Window[b] <= ticks

\* A key emits at most once per window, counted from its previous emission
\* and not only from the Submit that opened the window (coalescer.go:37-42).
OncePerWindow == [][\A k \in Keys : Claimed(k) => WindowOver(k, since[k])]_observedVars

\* A window is neither lengthened by later Submits nor cut short.
WindowKept == DeadlineFixed /\ OncePerWindow

-----------------------------------------------------------------------------
\* The inductive strengthening: what an open window has still to run and what
\* has passed since the last one make up a window, and a timer fires at its
\* end.
SinceMeans ==
  /\ since \in [Keys -> 0 .. Longest]
  /\ \A k \in Keys : pending[k] # None => WindowOver(k, since[k] + left[k])
  /\ \A k \in Keys : timer[k] = "fired" => left[k] = 0
=============================================================================
