---------------------------- MODULE MCCoalescer -----------------------------
(***************************************************************************)
(* Two keys.  The first has two batches, so that its window is coalesced   *)
(* into without end and two of its batches are in flight at once; their    *)
(* windows differ.  One batch has two actions, one is empty.               *)
(***************************************************************************)
EXTENDS CoalescerObserved, TLC

CONSTANTS k1, k2, b1, b2, b3, b4

MCKeys == {k1, k2}
MCBatches == {b1, b2, b3, b4}
MCKey == (b1 :> k1) @@ (b2 :> k1) @@ (b3 :> k2) @@ (b4 :> k2)
MCWindow == (b1 :> 2) @@ (b2 :> 1) @@ (b3 :> 1) @@ (b4 :> 1)
MCActions == (b1 :> 2) @@ (b2 :> 1) @@ (b3 :> 1) @@ (b4 :> 0)
=============================================================================
