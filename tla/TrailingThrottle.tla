-------------------------- MODULE TrailingThrottle --------------------------
(***************************************************************************)
(* What a trailing throttle promises the rule engine, without timers,      *)
(* goroutines or locks: at most one batch is held per key, the newest one  *)
(* offered wins, a held batch is emitted once, and it is discarded only    *)
(* when shutdown has begun and its deadline has passed.  Coalescer         *)
(* implements this.                                                        *)
(***************************************************************************)
CONSTANTS Keys, Batches, Key, None

VARIABLES held,      \* per key, the batch waiting for its window to close
          emitting,  \* the batches whose actions are being executed
          closed,    \* shutdown has begun: nothing new is accepted
          expired    \* the shutdown deadline has passed

vars == <<held, emitting, closed, expired>>

Init == /\ held = [k \in Keys |-> None]
        /\ emitting = {}
        /\ closed = FALSE
        /\ expired = FALSE

\* A batch offered for a key replaces the one held for it.
Offer(b) == /\ ~closed
            /\ b \notin emitting
            /\ held' = [held EXCEPT ![Key[b]] = b]
            /\ UNCHANGED <<emitting, closed, expired>>

\* The held batch leaves the window and is executed.
Emit(k) == /\ held[k] # None
           /\ held[k] \notin emitting
           /\ emitting' = emitting \cup {held[k]}
           /\ held' = [held EXCEPT ![k] = None]
           /\ UNCHANGED <<closed, expired>>

Finish(b) == /\ b \in emitting
             /\ emitting' = emitting \ {b}
             /\ UNCHANGED <<held, closed, expired>>

Close == /\ ~closed
         /\ closed' = TRUE
         /\ UNCHANGED <<held, emitting, expired>>

Expire == /\ ~expired
          /\ expired' = TRUE
          /\ UNCHANGED <<held, emitting, closed>>

\* Only a batch that shutdown found pending, past the deadline, is lost.
Discard(k) == /\ closed
              /\ expired
              /\ held[k] # None
              /\ held' = [held EXCEPT ![k] = None]
              /\ UNCHANGED <<emitting, closed, expired>>

Next == \/ \E b \in Batches : Offer(b) \/ Finish(b)
        \/ \E k \in Keys : Emit(k) \/ Discard(k)
        \/ Close
        \/ Expire

Spec == Init /\ [][Next]_vars
=============================================================================
